------------------------------ MODULE MainLoop ------------------------------
(***************************************************************************)
(* main(): ticks a runtime until its controller has finished or faulted,   *)
(* adds its counts to the totals, replaces it by a fresh one (after a      *)
(* fault only when the operator says so), and goes on until the tick       *)
(* budget is spent or the operator quits.                                  *)
(***************************************************************************)
EXTENDS RuntimeProperties

CONSTANT MaxTicks        \* simulationMaxTicks

ASSUME MainLoopAssumption == MaxTicks \in Nat

VARIABLES mode,              \* where main is
          globalTick, restartIndex, completedRuns, faultedRuns,
          totalProcessed, totalAccepted, totalRejected, terminatedByUser,
          everAccepted, everRejected   \* history: of all runtimes so far

totals == <<totalProcessed, totalAccepted, totalRejected>>
ever == <<everAccepted, everRejected>>
mainVars == <<vars, mode, globalTick, restartIndex, completedRuns,
              faultedRuns, totals, terminatedByUser, ever>>

Modes == {"loop", "tick", "prompt", "summary"}

MainInit ==
  /\ Init
  /\ mode = "loop"
  /\ globalTick = 0
  /\ restartIndex = 0
  /\ completedRuns = 0
  /\ faultedRuns = 0
  /\ totalProcessed = 0
  /\ totalAccepted = 0
  /\ totalRejected = 0
  /\ terminatedByUser = FALSE
  /\ everAccepted = 0
  /\ everRejected = 0

-----------------------------------------------------------------------------
(* createRuntime: everything is constructed anew.                          *)
NewRuntime ==
  /\ phase' = "Boot" /\ bootstrapped' = FALSE /\ fault_latched' = FALSE
  /\ processed' = 0 /\ accepted' = 0 /\ rejected' = 0
  /\ device_misses' = [d \in Devices |-> 0]
  /\ issued' = [c \in Commands |-> 0]
  /\ heartbeat_seen' = [d \in Devices |-> FALSE]
  /\ heartbeat_misses' = [d \in Devices |-> 0]
  /\ shutdown_latched' = [d \in Devices |-> FALSE]
  /\ has_pending_image' = FALSE /\ pending_image' = "None"
  /\ pending_part_id' = 0 /\ input_part_counter' = 0
  /\ last_result' = [part_id |-> 0, verdict |-> "Unknown"]
  /\ drawn' = {}
  /\ devices' = RegistrationOrder
  /\ tx' = [p \in Participants |-> <<>>]
  /\ rx' = [p \in Participants |-> <<>>]
  /\ bus' = <<>> /\ stage' = "idle" /\ step' = "controller" /\ passes' = 0

(* The head of the while loop.                                             *)
CheckBudget ==
  /\ mode = "loop"
  /\ mode' = IF globalTick < MaxTicks THEN "tick" ELSE "summary"
  /\ UNCHANGED <<vars, globalTick, restartIndex, completedRuns, faultedRuns,
                 totals, terminatedByUser, ever>>

ProcessTick ==
  /\ mode = "tick"
  /\ TickStep
  /\ everAccepted' = everAccepted + accepted' - accepted
  /\ everRejected' = everRejected + rejected' - rejected
  /\ UNCHANGED <<mode, globalTick, restartIndex, completedRuns, faultedRuns,
                 totals, terminatedByUser>>

(* Mutant: the totals are those of the last run.                           *)
SetTotals ==
  /\ totalProcessed' = processed
  /\ totalAccepted' = accepted
  /\ totalRejected' = rejected

AddToTotals ==
  /\ totalProcessed' = totalProcessed + processed
  /\ totalAccepted' = totalAccepted + accepted
  /\ totalRejected' = totalRejected + rejected

AfterTick ==
  /\ mode = "tick"
  /\ step = "endOfTick"
  /\ globalTick' = globalTick + 1
  /\ \/ /\ phase = "Finished"
        /\ AddToTotals
        /\ completedRuns' = completedRuns + 1
        /\ restartIndex' = restartIndex + 1
        /\ NewRuntime
        /\ mode' = "loop"
        /\ UNCHANGED faultedRuns
     \/ /\ phase = "Faulted"
        /\ AddToTotals
        /\ faultedRuns' = faultedRuns + 1
        /\ mode' = "prompt"
        /\ UNCHANGED <<vars, restartIndex, completedRuns>>
     \/ /\ ~Stopped
        /\ NextTick
        /\ mode' = "loop"
        /\ UNCHANGED <<totals, restartIndex, completedRuns, faultedRuns>>
  /\ UNCHANGED <<terminatedByUser, ever>>

(* waitForResumeCommand: an answer that is not understood is asked again,  *)
(* the end of the input counts as quitting.                                *)
Resume ==
  /\ NewRuntime
  /\ restartIndex' = restartIndex + 1
  /\ mode' = "loop"
  /\ UNCHANGED terminatedByUser

(* Mutant: the summary is not told who ended the simulation.               *)
QuitUnrecorded ==
  /\ mode' = "summary"
  /\ UNCHANGED <<vars, restartIndex, terminatedByUser>>

Quit ==
  /\ terminatedByUser' = TRUE
  /\ mode' = "summary"
  /\ UNCHANGED <<vars, restartIndex>>

AskAgain == UNCHANGED <<vars, restartIndex, mode, terminatedByUser>>

Answer ==
  /\ mode = "prompt"
  /\ Resume \/ Quit \/ AskAgain
  /\ UNCHANGED <<globalTick, completedRuns, faultedRuns, totals, ever>>

MainStep == CheckBudget \/ ProcessTick \/ AfterTick
Exit == mode = "summary" /\ UNCHANGED mainVars

MainNext == MainStep \/ Answer \/ Exit

(* main runs until it waits for the operator, of whom nothing is assumed.  *)
MainSpec == MainInit /\ [][MainNext]_mainVars /\ WF_mainVars(MainStep)

-----------------------------------------------------------------------------
(* The run that is under way, unless it has been added to the totals.      *)
Uncounted(n) == IF mode # "tick" /\ phase = "Faulted" THEN 0 ELSE n

(* Every part that any runtime completed is in the totals exactly once, or *)
(* belongs to the run under way: no run is counted twice (the Finished and *)
(* the Faulted branch could both apply to one run), and none is dropped    *)
(* when its runtime is replaced.                                           *)
PartsCountedOnce ==
  /\ everAccepted = totalAccepted + Uncounted(accepted)
  /\ everRejected = totalRejected + Uncounted(rejected)
  /\ totalProcessed = totalAccepted + totalRejected

(* A completed run adds its full length to the total, a faulted one less:  *)
(* a run whose last part is done never counts as faulted.                  *)
RunsAddUp ==
  /\ completedRuns * RunLength <= totalProcessed
  /\ totalProcessed <= completedRuns * RunLength + faultedRuns * (RunLength - 1)
  /\ restartIndex = completedRuns + faultedRuns - (IF Uncounted(1) = 0 THEN 1 ELSE 0)

(* "summary ends with result: MAX_TICKS_REACHED if tick budget is hit"     *)
(* (README, section 1): the budget is never overrun, and main ends only by *)
(* spending it or because the operator quit at the prompt of a fault.      *)
EndsForAReason ==
  mode = "summary" =>
    \/ terminatedByUser /\ phase = "Faulted"
    \/ ~terminatedByUser /\ globalTick = MaxTicks /\ phase # "Faulted"

(* main does not go on for ever: it comes to wait for the operator, or     *)
(* ends, whatever fails in between.                                        *)
MainSettles == []<>(mode \in {"prompt", "summary"})

=============================================================================
