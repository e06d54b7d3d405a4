-------------------------- MODULE MCControllerEnv ---------------------------
(* Instance of ControllerEnv for TLC; the values are in MCControllerEnv.cfg. *)
EXTENDS ControllerEnv
=============================================================================
