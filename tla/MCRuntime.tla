----------------------------- MODULE MCRuntime ------------------------------
(* Instances of Runtime for TLC; the values are in the MCRuntime*.cfg.     *)
EXTENDS RuntimeProperties
=============================================================================
