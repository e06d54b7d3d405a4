---------------------------- MODULE MCRingBuffer ----------------------------
(***************************************************************************)
(* Instance of SharedRingBuffer for TLC; the values are in the cfg.  The   *)
(* two counters of refused calls are bounded for the search only.          *)
(***************************************************************************)
EXTENDS SharedRingBuffer, Bitwise, TLC

CONSTANT MaxRefused      \* bound: a call that may be refused begins below it

(* advanceIndex with a mask is advanceIndex with a modulus.                *)
ASSUME MaskIsModulus ==
  \A capacity \in {1, 2, 4, 8, 16, 64, 256, 1024} :
    \A index \in 0 .. capacity - 1 :
      (index + 1) & (capacity - 1) = (index + 1) % capacity

Symmetry == Permutations(Callers)

MayBegin(k) ==
  k.name \in {"push", "pop", "peek"} =>
    ring.overflow < MaxRefused /\ ring.underflow < MaxRefused

MCNext ==
  /\ SharedNext
  /\ \A c \in Callers : call[c] = NoCall /\ call'[c] # NoCall => MayBegin(call'[c])

MCSpec == SharedInit /\ [][MCNext]_sharedVars
=============================================================================
