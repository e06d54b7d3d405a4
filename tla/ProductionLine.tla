--------------------------- MODULE ProductionLine ---------------------------
(***************************************************************************)
(* What the line as a whole promises its operator: it handles one part     *)
(* after the other, and each the way its inspection says, until the run is *)
(* complete or a station fails and everything stops.  There are no frames, *)
(* no ticks and no heartbeats here.                                        *)
(***************************************************************************)
EXTENDS Integers

CONSTANT RunLength       \* the parts of a run

VARIABLES place,         \* where the current part is
          good,          \* what the camera said of it
          accepted, rejected

vars == <<place, good, accepted, rejected>>

Init ==
  /\ place = "depot"
  /\ good = FALSE
  /\ accepted = 0
  /\ rejected = 0

Moves(from, to) == place = from /\ place' = to

Request == Moves("depot", "requested") /\ UNCHANGED <<good, accepted, rejected>>

(* The conveyor moves the part before the camera, which has one verdict.   *)
Arrive == Moves("requested", "camera") /\ UNCHANGED <<good, accepted, rejected>>

Inspect ==
  /\ Moves("camera", "inspected")
  /\ good' \in BOOLEAN
  /\ UNCHANGED <<accepted, rejected>>

(* The robot picks and places a good part, and removes any other one.      *)
Pick == good /\ Moves("inspected", "gripped") /\ UNCHANGED <<good, accepted, rejected>>
Place == Moves("gripped", "placed") /\ UNCHANGED <<good, accepted, rejected>>
Remove == ~good /\ Moves("inspected", "removed") /\ UNCHANGED <<good, accepted, rejected>>

(* The part is counted, and the next one fetched.                          *)
Count ==
  /\ \/ place = "placed" /\ accepted' = accepted + 1 /\ UNCHANGED rejected
     \/ place = "removed" /\ rejected' = rejected + 1 /\ UNCHANGED accepted
  /\ place' = IF accepted + rejected + 1 < RunLength THEN "requested" ELSE "complete"
  /\ UNCHANGED good

(* The station that has to do with the part fails, and the line stops.     *)
Fail ==
  /\ place \in {"requested", "camera", "inspected", "gripped"}
  /\ place' = "failed"
  /\ UNCHANGED <<good, accepted, rejected>>

Stop == Moves("failed", "stopped") /\ UNCHANGED <<good, accepted, rejected>>

Next == \/ Request \/ Arrive \/ Inspect \/ Pick \/ Place \/ Remove
        \/ Count \/ Fail \/ Stop

(* The line does not stand still before it is complete or stopped.         *)
Spec == Init /\ [][Next]_vars /\ WF_vars(Next)

=============================================================================
