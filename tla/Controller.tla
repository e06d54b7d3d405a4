----------------------------- MODULE Controller -----------------------------
(***************************************************************************)
(* The line controller: a state machine that takes one part at a time      *)
(* through inspection, pick and place or reject removal, watches the       *)
(* heartbeats of the three devices, and on any fault shuts the line down.  *)
(*                                                                         *)
(* The two operations are processTick (ControllerTick) and receiveFrame    *)
(* (ControllerReceive).  Each action is the whole call, including          *)
(* everything it sends.                                                    *)
(***************************************************************************)
EXTENDS Frames, Device

CONSTANTS TargetCycles,                 \* parts to process before finishing
          DeviceHeartbeatTimeoutTicks   \* 3 in the code

ASSUME ControllerAssumption ==
  /\ TargetCycles \in Nat
  /\ DeviceHeartbeatTimeoutTicks \in Nat \ {0}

VARIABLES phase,           \* phase_
          bootstrapped,    \* bootstrapped_
          fault_latched,   \* fault_latched_
          processed,       \* processed_cycles_
          accepted,        \* accepted_count_
          rejected,        \* rejected_count_
          device_misses,   \* {conveyor,robot,vision}_heartbeat_misses_
          issued           \* history: how often each command was sent

controllerVars == <<phase, bootstrapped, fault_latched, processed, accepted,
                    rejected, device_misses, issued>>

Phases == {"Boot", "WaitingInspection", "WaitingPickComplete",
           "WaitingPlaceComplete", "WaitingRejectRemoval", "Finished",
           "Faulted"}
Stopped == phase \in {"Finished", "Faulted"}

ControllerInit ==
  /\ phase = "Boot"
  /\ bootstrapped = FALSE
  /\ fault_latched = FALSE
  /\ processed = 0
  /\ accepted = 0
  /\ rejected = 0
  /\ device_misses = [d \in Devices |-> 0]
  /\ issued = [c \in Commands |-> 0]

-----------------------------------------------------------------------------
(* Sending.  issued counts the calls of sendCommand, whether or not the    *)
(* output buffer had room for the frame.                                   *)

Mentions(fs, c) == \E i \in DOMAIN fs : fs[i] = Command(c)

ControllerSend(fs) ==
  /\ Send("controller", fs)
  /\ issued' = [c \in Commands |->
                  IF Mentions(fs, c) THEN issued[c] + 1 ELSE issued[c]]

Ignore == UNCHANGED <<controllerVars, tx>>

(* Mutant: the vision sensor is forgotten.                                 *)
ShutdownFramesButVision ==
  <<Command("conveyor.Shutdown"), Command("robot.Shutdown"),
    Command("robot.Stop"), Command("conveyor.Stop")>>

ShutdownFrames == <<Command("conveyor.Shutdown"), Command("robot.Shutdown"),
                    Command("vision.Shutdown"), Command("robot.Stop"),
                    Command("conveyor.Stop")>>

(* Mutant: enterFault without the check of fault_latched_.                 *)
EnterFaultEveryTime(sent) ==
  /\ ControllerSend(sent \o ShutdownFrames)
  /\ fault_latched' = TRUE
  /\ phase' = "Faulted"

(* enterFault, called after the frames in sent: the shutdown commands go   *)
(* out only the first time, the phase is overwritten every time.           *)
EnterFault(sent) ==
  /\ ControllerSend(IF fault_latched THEN sent ELSE sent \o ShutdownFrames)
  /\ fault_latched' = TRUE
  /\ phase' = "Faulted"

RequestNextPart(sent) ==
  /\ ControllerSend(Append(sent, Command("conveyor.RequestPartArrived")))
  /\ phase' = "WaitingInspection"

FinishRun ==
  /\ ControllerSend(<<Command("conveyor.Stop")>>)
  /\ phase' = "Finished"

-----------------------------------------------------------------------------
(* processTick *)

(* Mutants: the timeout is noticed one tick late; nobody watches the       *)
(* vision sensor.                                                          *)
HeartbeatLostLate ==
  \E d \in Devices : device_misses[d] + 1 > DeviceHeartbeatTimeoutTicks
HeartbeatLostUnlessVision ==
  \E d \in Devices \ {"vision"} :
    device_misses[d] + 1 >= DeviceHeartbeatTimeoutTicks

HeartbeatLost == \E d \in Devices :
                   device_misses[d] + 1 >= DeviceHeartbeatTimeoutTicks

RunningTick ==
  /\ ~Stopped
  /\ device_misses' = [d \in Devices |-> device_misses[d] + 1]
  /\ \/ /\ HeartbeatLost
        /\ EnterFault(<<ControllerHeartbeat>>)
        /\ UNCHANGED bootstrapped
     \/ /\ ~HeartbeatLost
        /\ bootstrapped
        /\ ControllerSend(<<ControllerHeartbeat>>)
        /\ UNCHANGED <<phase, bootstrapped, fault_latched>>
     \/ /\ ~HeartbeatLost
        /\ ~bootstrapped
        /\ bootstrapped' = TRUE
        /\ RequestNextPart(<<ControllerHeartbeat, Command("robot.Home"),
                             Command("conveyor.Start")>>)
        /\ UNCHANGED fault_latched
  /\ UNCHANGED <<processed, accepted, rejected>>

(* Mutant: the heartbeat goes out before the check for a stopped machine.  *)
ControllerTickAlwaysBeating ==
  \/ RunningTick
  \/ /\ Stopped
     /\ ControllerSend(<<ControllerHeartbeat>>)
     /\ UNCHANGED <<phase, bootstrapped, fault_latched, processed, accepted,
                    rejected, device_misses>>

ControllerTick == RunningTick \/ (Stopped /\ Ignore)

-----------------------------------------------------------------------------
(* receiveFrame *)

(* Mutant: a heartbeat does not reset the count of missed ones.            *)
DeviceAliveUnheard(d) == d \in Devices /\ Ignore

DeviceAlive(d) ==
  /\ device_misses' = [device_misses EXCEPT ![d] = 0]
  /\ UNCHANGED <<phase, bootstrapped, fault_latched, processed, accepted,
                 rejected, issued, tx>>

DeviceFault ==
  /\ EnterFault(<<>>)
  /\ UNCHANGED <<bootstrapped, processed, accepted, rejected, device_misses>>

(* Mutant: the command is sent, the phase is not advanced.                 *)
InstructInPlace(command, waiting) ==
  /\ waiting \in Phases
  /\ ControllerSend(<<Command(command)>>)
  /\ UNCHANGED <<phase, bootstrapped, fault_latched, processed, accepted,
                 rejected, device_misses>>

(* The next command of the current part, and the phase that awaits its     *)
(* result.                                                                 *)
Instruct(command, waiting) ==
  /\ ControllerSend(<<Command(command)>>)
  /\ phase' = waiting
  /\ UNCHANGED <<bootstrapped, fault_latched, processed, accepted, rejected,
                 device_misses>>

(* Mutant: one cycle too many.                                             *)
CompleteCycleLate ==
  /\ processed' = processed + 1
  /\ IF processed + 1 > TargetCycles THEN FinishRun ELSE RequestNextPart(<<>>)
  /\ UNCHANGED <<bootstrapped, fault_latched, device_misses>>

CompleteCycle ==
  /\ processed' = processed + 1
  /\ IF processed + 1 >= TargetCycles THEN FinishRun ELSE RequestNextPart(<<>>)
  /\ UNCHANGED <<bootstrapped, fault_latched, device_misses>>

HandleVisionStatus(s) ==
  \/ /\ s = "VisionHeartbeat"
     /\ DeviceAlive("vision")
  \/ /\ s \in {"VisionFault", "VisionTimeout"}
     /\ DeviceFault
  \/ /\ s = "PartAccepted"
     /\ phase = "WaitingInspection"
     /\ Instruct("robot.Pick", "WaitingPickComplete")
  \/ /\ s = "RejectDetected"
     /\ phase = "WaitingInspection"
     /\ Instruct("robot.RemoveReject", "WaitingRejectRemoval")
  \/ /\ s \notin {"VisionHeartbeat", "VisionFault", "VisionTimeout"}
     /\ ~(phase = "WaitingInspection" /\ s \in {"PartAccepted", "RejectDetected"})
     /\ Ignore

(* Mutant: a failed placement is not counted among the failures.           *)
RobotFailuresButMotion == {"RobotFault", "PickFailed"}

RobotFailures == {"RobotFault", "MotionFailed", "PickFailed"}

(* The result the current phase waits for from the robot, if any.          *)
AwaitedFromRobot(s) ==
  \/ phase = "WaitingPickComplete" /\ s = "PickCompleted"
  \/ phase = "WaitingPlaceComplete" /\ s = "PlaceCompleted"
  \/ phase = "WaitingRejectRemoval" /\ s = "RejectRemoved"

HandleRobotStatus(s) ==
  \/ /\ s = "RobotHeartbeat"
     /\ DeviceAlive("robot")
  \/ /\ s \in RobotFailures
     /\ DeviceFault
  \/ /\ phase = "WaitingPickComplete"
     /\ s = "PickCompleted"
     /\ Instruct("robot.Place", "WaitingPlaceComplete")
  \/ /\ phase = "WaitingPlaceComplete"
     /\ s = "PlaceCompleted"
     /\ accepted' = accepted + 1
     /\ CompleteCycle
     /\ UNCHANGED rejected
  \/ /\ phase = "WaitingRejectRemoval"
     /\ s = "RejectRemoved"
     /\ rejected' = rejected + 1
     /\ CompleteCycle
     /\ UNCHANGED accepted
  \/ /\ s \notin RobotFailures \cup {"RobotHeartbeat"}
     /\ ~AwaitedFromRobot(s)
     /\ Ignore

(* Every conveyor status other than a fault counts as a sign of life.      *)
HandleConveyorStatus(s) ==
  \/ s # "ConveyorFault" /\ DeviceAlive("conveyor")
  \/ s = "ConveyorFault" /\ DeviceFault

ControllerReceive(f) ==
  \/ f.id = "VisionStatus" /\ HandleVisionStatus(f.status)
  \/ f.id = "RoboticArmStatus" /\ HandleRobotStatus(f.status)
  \/ f.id = "ConveyorStatus" /\ HandleConveyorStatus(f.status)
  \/ /\ f.id \notin {"VisionStatus", "RoboticArmStatus", "ConveyorStatus"}
     /\ Ignore

(* The number of cycles a run consists of.  The count is compared only     *)
(* after a cycle is complete, so a target of 0 still processes one part.   *)
RunLength == IF TargetCycles = 0 THEN 1 ELSE TargetCycles

ControllerTypeOK ==
  /\ phase \in Phases
  /\ bootstrapped \in BOOLEAN
  /\ fault_latched \in BOOLEAN
  /\ processed \in Nat
  /\ accepted \in Nat
  /\ rejected \in Nat
  /\ device_misses \in [Devices -> 0 .. DeviceHeartbeatTimeoutTicks]
  /\ issued \in [Commands -> Nat]

=============================================================================
