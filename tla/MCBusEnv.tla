------------------------------ MODULE MCBusEnv ------------------------------
(* Instance of BusEnv for TLC: the peers that answer are interchangeable.  *)
EXTENDS BusEnv, TLC

Symmetry == Permutations(Answering)
=============================================================================
