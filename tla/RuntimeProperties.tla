------------------------- MODULE RuntimeProperties --------------------------
(***************************************************************************)
(* What a runtime promises.  The properties are about the whole line:      *)
(* each relates the controller to the devices or to frames in flight.      *)
(***************************************************************************)
EXTENDS Runtime

-----------------------------------------------------------------------------
(* One part at a time.  The journey of a part through the line is a series *)
(* of frames, each sent when the one before was received.  A leg is the    *)
(* stretch of it that one frame covers, and Legs are the legs on which the *)
(* frame the controller waits for in phase p can be.                       *)

Leg(from, to, frames) == [from |-> from, to |-> to, frames |-> frames]

Legs(p) ==
  CASE p = "WaitingInspection" ->
         {Leg("controller", "conveyor", {Command("conveyor.RequestPartArrived")}),
          Leg("conveyor", "vision", {ConveyorStatus("PartArrived")}),
          Leg("conveyor", "controller", {ConveyorStatus("ConveyorFault")}),
          Leg("vision", "controller",
              {VisionStatus(m) : m \in {"PartAccepted", "RejectDetected",
                                        "VisionFault", "VisionTimeout"}})}
    [] p = "WaitingPickComplete" ->
         {Leg("controller", "robot", {Command("robot.Pick")}),
          Leg("robot", "controller", {RobotStatus("PickCompleted")}),
          Leg("robot", "controller", {RobotStatus("PickFailed")})}
    [] p = "WaitingPlaceComplete" ->
         {Leg("controller", "robot", {Command("robot.Place")}),
          Leg("robot", "controller", {RobotStatus("PlaceCompleted")}),
          Leg("robot", "controller", {RobotStatus("MotionFailed")})}
    [] p = "WaitingRejectRemoval" ->
         {Leg("controller", "robot", {Command("robot.RemoveReject")}),
          Leg("robot", "controller", {RobotStatus("RejectRemoved")}),
          Leg("robot", "controller", {RobotStatus("PickFailed")})}
    [] OTHER -> {}

(* Where the frames of leg l are at this moment.                           *)
Underway(l) ==
  {<<l, "tx", i>> : i \in {j \in DOMAIN tx[l.from] : tx[l.from][j] \in l.frames}}
  \cup {<<l, "bus", i>> : i \in {j \in DOMAIN bus : bus[j].frame \in l.frames}}
  \cup {<<l, "rx", i>> : i \in {j \in DOMAIN rx[l.to] : rx[l.to][j] \in l.frames}}

(* Exactly one frame of the current part is in flight while the controller *)
(* waits, it is on a leg of the phase the controller is in, and none is in *)
(* flight otherwise.  So no result arrives in a phase that would ignore    *)
(* it, none arrives twice, and the line never waits for a frame that is    *)
(* not on its way.                                                         *)
OneFramePerPart ==
  /\ Cardinality(UNION {Underway(l) : l \in Legs(phase)})
       = IF Legs(phase) = {} THEN 0 ELSE 1
  /\ \A p \in Phases : \A l \in Legs(p) \ Legs(phase) : Underway(l) = {}

(* The id the vision sensor gives to the n-th part of a run.               *)
PartIdOf(n) == ((n - 1) % (PartIdLimit - 1)) + 1

(* The part the robot handles is the part that was last inspected, it is   *)
(* the one after those already counted, and it is picked and placed only   *)
(* on a Valid verdict and removed only on another one.  Controller counter,*)
(* part counter of the sensor and verdict live in different devices and no *)
(* frame carries a part id.                                                *)
RobotHandlesInspectedPart ==
  /\ phase \in {"WaitingPickComplete", "WaitingPlaceComplete"} =>
       last_result = [part_id |-> PartIdOf(processed + 1), verdict |-> "Valid"]
  /\ phase = "WaitingRejectRemoval" =>
       /\ last_result.part_id = PartIdOf(processed + 1)
       /\ last_result.verdict # "Valid"

(* Lockstep.  An accepted part takes seven bus passes and a rejected one   *)
(* five, so that between two passes the number of passes made tells how    *)
(* far the current part is.  A tick makes two passes: no part takes more   *)
(* than four ticks, and none is requested and done within one.             *)
Lockstep ==
  LET elapsed == passes - (7 * accepted + 5 * rejected)
  IN  stage = "idle" =>
        /\ phase = "Boot" => elapsed = 0
        /\ phase = "WaitingInspection" => elapsed \in 0 .. 2
        /\ phase = "WaitingPickComplete" => elapsed \in 3 .. 4
        /\ phase = "WaitingRejectRemoval" => elapsed \in 3 .. 4
        /\ phase = "WaitingPlaceComplete" => elapsed \in 5 .. 6
        /\ phase = "Finished" => elapsed \in 0 .. 1

(* No false alarm: a controller that has faulted did so for exactly one    *)
(* injected failure, and no heartbeat is ever more than one tick late, in  *)
(* either direction, so neither side's watchdog comes near its timeout.    *)
NoFalseAlarm ==
  /\ phase = "Faulted" => Cardinality(drawn) = 1
  /\ \A d \in Devices : device_misses[d] <= 1 /\ heartbeat_misses[d] <= 1

(* When the main loop looks at a faulted controller, the shutdown has      *)
(* reached all three devices or none of them, and in the latter case all   *)
(* three commands are still waiting in the controller's output buffer.     *)
ShutdownAllOrNothing ==
  (Over /\ phase = "Faulted") =>
    \/ \A d \in Devices : shutdown_latched[d]
    \/ /\ \A d \in Devices : ~shutdown_latched[d]
       /\ \A c \in {"conveyor.Shutdown", "robot.Shutdown", "vision.Shutdown"} :
            \E i \in DOMAIN tx["controller"] : tx["controller"][i] = Command(c)

(* No buffer is ever full, so no push into one is ever refused and no      *)
(* frame is lost, although nobody looks at the result of a push.           *)
NoFrameLost ==
  /\ \A p \in Participants : Len(tx[p]) < QueueCapacity /\ Len(rx[p]) < QueueCapacity
  /\ Len(bus) < BusCapacity

-----------------------------------------------------------------------------
(* The line as its operator sees it.  The current part is where the frame  *)
(* of its journey that is in flight says; whether it is good, the sensor's *)
(* own record says.                                                        *)

InFlight(from, to, frames) == Underway(Leg(from, to, frames)) # {}

Failures ==
  InFlight("conveyor", "controller", {ConveyorStatus("ConveyorFault")})
  \/ InFlight("vision", "controller", {VisionStatus("VisionFault"), VisionStatus("VisionTimeout")})
  \/ InFlight("robot", "controller", {RobotStatus(m) : m \in RobotFailures})

Whereabouts ==
  CASE phase = "Boot" -> "depot"
    [] phase = "Finished" -> "complete"
    [] phase = "Faulted" -> "stopped"
    [] ~Stopped /\ Failures -> "failed"
    [] InFlight("controller", "conveyor", {Command("conveyor.RequestPartArrived")}) -> "requested"
    [] InFlight("conveyor", "vision", {ConveyorStatus("PartArrived")}) -> "camera"
    [] InFlight("vision", "controller", {VisionStatus("PartAccepted"), VisionStatus("RejectDetected")})
         -> "inspected"
    [] InFlight("controller", "robot", {Command("robot.Pick"), Command("robot.RemoveReject")})
         -> "inspected"
    [] InFlight("robot", "controller", {RobotStatus("PickCompleted")}) -> "gripped"
    [] InFlight("controller", "robot", {Command("robot.Place")}) -> "gripped"
    [] InFlight("robot", "controller", {RobotStatus("PlaceCompleted")}) -> "placed"
    [] InFlight("robot", "controller", {RobotStatus("RejectRemoved")}) -> "removed"
    [] OTHER -> "nowhere"

Line == INSTANCE ProductionLine WITH
  place <- Whereabouts, good <- last_result.verdict = "Valid", RunLength <- RunLength

(* The three devices and the controller, with their buffers, the bus and   *)
(* the ticks, together are a production line: no part is handled twice, in *)
(* another way than inspected, counted without being handled, or left      *)
(* standing.                                                               *)
ImplementsLine == Line!Spec

-----------------------------------------------------------------------------
(* Every run ends, finished or faulted.                                    *)
RunEnds == <>Over

-----------------------------------------------------------------------------
(* "controller enters fault and sends shutdown commands to all devices"    *)
(* (README, section 2), read as: when the line pauses for the operator,    *)
(* the devices are shut down.                                              *)
DevicesShutDownAtPrompt ==
  (Over /\ phase = "Faulted") => \A d \in Devices : shutdown_latched[d]

=============================================================================
