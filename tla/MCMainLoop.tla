----------------------------- MODULE MCMainLoop -----------------------------
(* Instance of MainLoop for TLC; the values are in MCMainLoop.cfg.         *)
EXTENDS MainLoop
=============================================================================
