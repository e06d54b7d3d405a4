------------------------------ MODULE Runtime -------------------------------
(***************************************************************************)
(* One SimulationRuntime of main.cpp: the controller and the three devices *)
(* on one bus, in a single thread.  A tick is                              *)
(*   controller.processTick, bus pass, conveyor, vision and robot          *)
(*   processTick, bus pass,                                                *)
(* and the main loop keeps calling it until the controller has finished or *)
(* faulted at the end of a tick.                                           *)
(***************************************************************************)
EXTENDS Controller, ConveyorBelt, VisionSensor, RoboticArm, CanBus

CONSTANT MaxPasses    \* bound: the passes that are counted

ASSUME RuntimeAssumption == MaxPasses \in Nat

VARIABLES step,       \* the call processTick makes next
          passes      \* history: bus passes completed by this runtime

vars == <<controllerVars, watchdogVars, visionVars, drawn, devices, tx, rx,
          bus, stage, step, passes>>

Steps == {"controller", "firstPass", "conveyor", "vision", "robot",
          "secondPass", "endOfTick"}

(* The order in which registerDevices registers them.                      *)
RegistrationOrder == <<"controller", "conveyor", "vision", "robot">>

Init ==
  /\ ControllerInit
  /\ WatchdogInit
  /\ VisionInit
  /\ drawn = {}
  /\ devices = RegistrationOrder
  /\ tx = [p \in Participants |-> <<>>]
  /\ rx = [p \in Participants |-> <<>>]
  /\ bus = <<>>
  /\ stage = "idle"
  /\ step = "controller"
  /\ passes = 0

-----------------------------------------------------------------------------
ControllerStep ==
  /\ step = "controller"
  /\ ControllerTick
  /\ BeginPass
  /\ step' = "firstPass"
  /\ UNCHANGED <<watchdogVars, visionVars, drawn, devices, rx, bus, passes>>

DeviceStep ==
  /\ \/ /\ step = "conveyor"
        /\ ConveyorTick
        /\ step' = "vision"
        /\ UNCHANGED <<visionVars, stage>>
     \/ /\ step = "vision"
        /\ VisionTick
        /\ step' = "robot"
        /\ UNCHANGED stage
     \/ /\ step = "robot"
        /\ RobotTick
        /\ BeginPass
        /\ step' = "secondPass"
        /\ UNCHANGED visionVars
  /\ UNCHANGED <<controllerVars, devices, rx, bus, passes>>

Transport ==
  /\ \/ \E p \in Participants : DrainFrame(p)
     \/ DrainDone
     \/ DistributeFrame
     \/ DistributeDone
  /\ UNCHANGED <<controllerVars, watchdogVars, visionVars, drawn, devices,
                 step, passes>>

(* Participant p receives the oldest frame in its input buffer.            *)
Receive(p) ==
  /\ TakeFrame(p)
  /\ LET f == Head(rx[p])
     IN  \/ /\ p = "controller"
            /\ ControllerReceive(f)
            /\ UNCHANGED <<watchdogVars, visionVars, drawn>>
         \/ /\ p = "conveyor"
            /\ ConveyorReceive(f)
            /\ UNCHANGED <<controllerVars, visionVars>>
         \/ /\ p = "vision"
            /\ VisionReceive(f)
            /\ UNCHANGED controllerVars
         \/ /\ p = "robot"
            /\ RobotReceive(f)
            /\ UNCHANGED <<controllerVars, visionVars>>
  /\ UNCHANGED <<devices, step, passes>>

CountPass == passes' = IF passes < MaxPasses THEN passes + 1 ELSE passes

(* Mutant: passes are repeated until the bus is quiet.                     *)
EndPassWhenQuiet ==
  /\ stage = "process"
  /\ AllEmpty(rx)
  /\ CountPass
  /\ \/ AllEmpty(tx) /\ stage' = "idle"
        /\ step' = IF step = "firstPass" THEN "conveyor" ELSE "endOfTick"
     \/ ~AllEmpty(tx) /\ stage' = "drain" /\ UNCHANGED step
  /\ UNCHANGED <<controllerVars, watchdogVars, visionVars, drawn, devices, tx,
                 rx, bus>>

EndPass ==
  /\ ProcessDone
  /\ CountPass
  /\ step' = IF step = "firstPass" THEN "conveyor" ELSE "endOfTick"
  /\ UNCHANGED <<controllerVars, watchdogVars, visionVars, drawn, devices>>

(* The main loop calls processTick again.                                  *)
NextTick ==
  /\ step = "endOfTick"
  /\ ~Stopped
  /\ step' = "controller"
  /\ UNCHANGED <<controllerVars, watchdogVars, visionVars, drawn, devices, tx,
                 rx, bus, stage, passes>>

(* Inside processTick, and between two calls of it.                        *)
TickStep ==
  \/ ControllerStep
  \/ Transport
  \/ \E p \in Participants : Receive(p)
  \/ EndPass
  \/ DeviceStep

RuntimeStep == TickStep \/ NextTick

(* The main loop is done with this runtime and discards it.                *)
Over == step = "endOfTick" /\ Stopped

Next == RuntimeStep \/ (Over /\ UNCHANGED vars)

Spec == Init /\ [][Next]_vars

(* A single thread runs the loop without waiting for anything.             *)
FairSpec == Spec /\ WF_vars(RuntimeStep)

=============================================================================
