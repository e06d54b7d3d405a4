---------------------------- MODULE RandomEvents ----------------------------
(***************************************************************************)
(* The injected failures.  Each is drawn from a Bernoulli distribution     *)
(* whose probability the command line sets and clampProbability limits to  *)
(* [0, 1]: with probability 0 it never happens, and is then not in         *)
(* Possible; with any other probability it may happen at every draw.       *)
(***************************************************************************)
Events == {"ConveyorFault", "VisionFault", "VisionTimeout",
           "RobotPickFailure", "RobotPlaceFailure"}

CONSTANT Possible     \* the events with a probability above 0

ASSUME PossibleAssumption == Possible \subseteq Events

VARIABLE drawn        \* history: the failures drawn so far

Hit(e) ==
  /\ e \in Possible
  /\ drawn' = drawn \cup {e}

Miss == UNCHANGED drawn

=============================================================================
