----------------------------- MODULE MCNetwork ------------------------------
(* Instance of Network for TLC; the values are in MCNetwork.cfg.           *)
EXTENDS Network
=============================================================================
