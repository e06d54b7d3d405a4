----------------------------- MODULE DevicesEnv -----------------------------
(***************************************************************************)
(* The three devices on a bus they know nothing about: between two ticks   *)
(* each may receive any frame whatever, in any order and any number of     *)
(* times, and the vision sensor may be handed images from outside.  What a *)
(* call sends is taken away before the next call, so that tx[d] is always  *)
(* what the last call of d sent.                                           *)
(*                                                                         *)
(* A behaviour is about one of the devices, unit: they share no state, so  *)
(* calls of the others would change nothing for it.                        *)
(*                                                                         *)
(* The runtime only reaches a small part of this: there no watchdog of a   *)
(* device ever expires and half of the commands are never sent.            *)
(***************************************************************************)
EXTENDS ConveyorBelt, VisionSensor, RoboticArm, FiniteSets

CONSTANT MaxImages       \* bound: images put into the sensor's slot

ASSUME EnvAssumption == MaxImages \in Nat

VARIABLES unit,          \* the device this behaviour is about
          recent,        \* history: the latest calls that touch the watchdog
          commanded,     \* history: devices that received a Shutdown command
          images,        \* history: images put into the slot
          verdicts       \* history: verdicts published

history == <<unit, recent, commanded, images, verdicts>>
vars == <<watchdogVars, visionVars, drawn, tx, history>>

Init ==
  /\ WatchdogInit
  /\ VisionInit
  /\ drawn = {}
  /\ tx = [d \in Devices |-> <<>>]
  /\ unit \in Devices
  /\ recent = [d \in Devices |-> <<>>]
  /\ commanded = {}
  /\ images = 0
  /\ verdicts = 0

(* The last ControllerHeartbeatTimeoutTicks + 1 entries are remembered.    *)
Remember(d, what) ==
  LET h == Append(recent[d], what)
  IN  recent' = [recent EXCEPT ![d] =
                   IF Len(h) > ControllerHeartbeatTimeoutTicks + 1 THEN Tail(h) ELSE h]

Tick(d) ==
  /\ \/ d = "conveyor" /\ ConveyorTick /\ UNCHANGED visionVars
     \/ d = "vision" /\ VisionTick
     \/ d = "robot" /\ RobotTick /\ UNCHANGED visionVars
  /\ Remember(d, "tick")
  /\ UNCHANGED <<unit, commanded, images, verdicts>>

Verdict == {VisionStatus("PartAccepted"), VisionStatus("RejectDetected")}
Publishes(d, frames) == \E i \in DOMAIN tx'[d] : tx'[d][i] \in frames

Hear(d, f) ==
  /\ \/ d = "conveyor" /\ ConveyorReceive(f) /\ UNCHANGED visionVars
     \/ d = "vision" /\ VisionReceive(f)
     \/ d = "robot" /\ RobotReceive(f) /\ UNCHANGED visionVars
  /\ IF f = ControllerHeartbeat THEN Remember(d, "beat") ELSE UNCHANGED recent
  /\ commanded' = commanded \cup
       IF f = Command("conveyor.Shutdown") THEN {"conveyor"} \cap {d}
       ELSE IF f = Command("vision.Shutdown") THEN {"vision"} \cap {d}
       ELSE IF f = Command("robot.Shutdown") THEN {"robot"} \cap {d}
       ELSE {}
  /\ images' = IF /\ d = "vision"
                  /\ f = ConveyorStatus("PartArrived")
                  /\ ~shutdown_latched[d]
               THEN images + 1 ELSE images
  /\ verdicts' = IF d = "vision" /\ Publishes(d, Verdict) THEN verdicts + 1
                                                          ELSE verdicts
  /\ images' <= MaxImages
  /\ UNCHANGED unit

HandImage ==
  /\ unit = "vision"
  /\ images < MaxImages
  /\ \E image \in Images, id \in PartIds : QueueImageInput(image, id)
  /\ images' = images + 1
  /\ UNCHANGED <<unit, recent, commanded, verdicts>>

Collect(d) ==
  /\ tx[d] # <<>>
  /\ tx' = [tx EXCEPT ![d] = <<>>]
  /\ UNCHANGED <<watchdogVars, visionVars, drawn, history>>

Call ==
  /\ tx[unit] = <<>>
  /\ Tick(unit) \/ \E f \in Frame : Hear(unit, f)

Next == Call \/ Collect(unit) \/ HandImage

Spec == Init /\ [][Next]_vars

-----------------------------------------------------------------------------
(* An image yields at most one verdict.  A failed inspection leaves its    *)
(* image in the slot, where a ProcessTick command, a retry or the next     *)
(* part finds it; every verdict published has used up an image of its own. *)
OneVerdictPerImage ==
  verdicts + (IF has_pending_image THEN 1 ELSE 0) <= images

Deaf(calls) ==
  /\ Len(calls) > ControllerHeartbeatTimeoutTicks
  /\ \A i \in 2 .. Len(calls) : calls[i] = "tick"

(* The watchdog: a device whose controller has once been heard and then    *)
(* stays silent for the timeout is shut down, whatever else it hears.      *)
DeafDeviceStops ==
  \A d \in Devices :
    heartbeat_seen[d] /\ Deaf(recent[d]) => shutdown_latched[d]

(* A device shuts down only because it was commanded to or because it has  *)
(* heard nothing for the timeout: a heartbeat in between starts the count  *)
(* afresh and a device that never heard a controller waits for one.        *)
StopsOnlyWithCause ==
  [][\A d \in Devices :
       ~shutdown_latched[d] /\ shutdown_latched'[d] =>
         d \in commanded' \/ (heartbeat_seen[d] /\ Deaf(recent'[d]))]_vars

(* What a device may still send once it is shut down.                      *)
LastWords(d) ==
  IF d = "conveyor"
  THEN {ConveyorStatus(m) : m \in {"ConveyorStopped", "ConveyorFault",
                                   "ConveyorSpeedReport", "PartArrived"}}
  ELSE {}

(* A shutdown is final: no command, part or heartbeat brings a device back *)
(* to life.  The robot and the sensor never say anything again, and the    *)
(* conveyor never reports running or alive.                                *)
ShutDeviceStaysQuiet ==
  [][\A d \in Devices : shutdown_latched[d] =>
       /\ shutdown_latched'[d]
       /\ \A i \in Len(tx[d]) + 1 .. Len(tx'[d]) : tx'[d][i] \in LastWords(d)]_vars

=============================================================================
