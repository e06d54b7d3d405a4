---------------------------- MODULE MCDevicesEnv ----------------------------
(* Instances of DevicesEnv for TLC; the values are in the MCDevicesEnv*.cfg. *)
EXTENDS DevicesEnv
=============================================================================
