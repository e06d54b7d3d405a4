--------------------------- MODULE ControllerEnv ----------------------------
(***************************************************************************)
(* The controller on a bus it knows nothing about: between two ticks it    *)
(* may receive any frame whatever, any number of times and in any order    *)
(* (duplicated, late, or of a part that is no longer current), and its     *)
(* output buffer is drained at arbitrary moments or left to fill up.       *)
(*                                                                         *)
(* This is the environment the unit test of the controller gives it        *)
(* (tests/controller_safety_test.cpp calls receiveFrame and processTick    *)
(* directly), for every sequence of calls instead of three of them.        *)
(***************************************************************************)
EXTENDS Controller

vars == <<controllerVars, tx>>

Init ==
  /\ ControllerInit
  /\ tx = [p \in {"controller"} |-> <<>>]

(* One popTxFrame by the bus.                                              *)
Drain ==
  /\ tx["controller"] # <<>>
  /\ tx' = [tx EXCEPT !["controller"] = Tail(@)]
  /\ UNCHANGED controllerVars

Next ==
  \/ ControllerTick
  \/ \E f \in Frame : ControllerReceive(f)
  \/ Drain

Spec == Init /\ [][Next]_vars

-----------------------------------------------------------------------------
TypeOK ==
  /\ ControllerTypeOK
  /\ tx \in [{"controller"} -> Seq(Frame)]
  /\ Len(tx["controller"]) <= QueueCapacity

In(phases) == IF phase \in phases THEN 1 ELSE 0

(* Every processed part was either accepted or rejected, no run goes past  *)
(* its target, and a run is Finished exactly when it has reached it        *)
(* (handleRobotStatus counts and compares in two different branches).      *)
Accounting ==
  /\ processed = accepted + rejected
  /\ processed <= RunLength
  /\ phase = "Finished" => processed = RunLength
  /\ phase \notin {"Finished", "Faulted"} => processed < RunLength

(* Whatever the bus delivers, the line is never given a command twice for  *)
(* one part: as many parts are requested as were processed, plus the       *)
(* current one; a pick or a removal is commanded once per part, and a      *)
(* place only for a part that was picked.                                  *)
CommandsOncePerPart ==
  /\ issued["conveyor.RequestPartArrived"] - processed \in {0, 1}
  /\ issued["robot.Pick"] + issued["robot.RemoveReject"]
       <= issued["conveyor.RequestPartArrived"]
  /\ issued["robot.Pick"] - accepted \in {0, 1}
  /\ issued["robot.Place"] - accepted \in {0, 1}
  /\ issued["robot.RemoveReject"] - rejected \in {0, 1}
  /\ issued["robot.Place"] <= issued["robot.Pick"]

(* A fault commands each device to shut down exactly once, however many    *)
(* faults are reported and whichever watchdog expires, and a controller    *)
(* that has not faulted never shuts anything down.                         *)
ShutdownOncePerFault ==
  \A c \in {"conveyor.Shutdown", "robot.Shutdown", "vision.Shutdown"} :
    issued[c] = In({"Faulted"})

(* A faulted controller is silent and stays faulted: no later frame or     *)
(* tick makes it send a command or a heartbeat, or leave the phase.        *)
SilentAfterFault ==
  [][phase = "Faulted" => /\ phase' = "Faulted"
                          /\ Len(tx'["controller"]) <= Len(tx["controller"])]_vars

=============================================================================
