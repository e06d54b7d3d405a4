------------------------------- MODULE Frames -------------------------------
(***************************************************************************)
(* The vocabulary of the CAN-like bus: who takes part, which frame ids     *)
(* there are and which status bytes they carry.                            *)
(*                                                                         *)
(* A frame is its id together with what its first data byte means.  A      *)
(* command carries no data (dlc = 0), written here as the status NoStatus. *)
(* Frame ids of different devices are disjoint in can_protocol.hpp, while  *)
(* the numeric status bytes of different devices overlap: a status only    *)
(* means something together with its id, so every status set below belongs *)
(* to one id.                                                              *)
(***************************************************************************)

Devices == {"conveyor", "vision", "robot"}
Participants == {"controller"} \cup Devices

RobotCommands == {"robot.Home", "robot.Pick", "robot.Place", "robot.Stop",
                  "robot.Reset", "robot.Shutdown", "robot.RemoveReject"}
ConveyorCommands == {"conveyor.Start", "conveyor.Stop", "conveyor.ReportSpeed",
                     "conveyor.RequestPartArrived", "conveyor.InjectFault",
                     "conveyor.Shutdown"}
VisionCommands == {"vision.ProcessTick", "vision.PublishHeartbeat",
                   "vision.InjectFault", "vision.InjectTimeout",
                   "vision.Shutdown"}
Commands == RobotCommands \cup ConveyorCommands \cup VisionCommands

RobotMessages == {"RobotIdle", "RobotReady", "RobotBusy", "RobotStopped",
                  "RobotFault", "PickStarted", "PickCompleted",
                  "PlaceCompleted", "RejectRemoved", "PickFailed",
                  "MotionFailed", "RobotHoming", "RobotHomed",
                  "RobotHeartbeat"}
ConveyorMessages == {"ConveyorRunning", "ConveyorStopped", "ConveyorFault",
                     "ConveyorSpeedReport", "PartArrived",
                     "ConveyorHeartbeat"}
VisionMessages == {"PartDetected", "RejectDetected", "PartAccepted",
                   "InspectionStarted", "InspectionComplete", "VisionFault",
                   "VisionTimeout", "VisionHeartbeat"}

NoStatus == "none"

Command(id) == [id |-> id, status |-> NoStatus]
ControllerHeartbeat == [id |-> "ControllerHeartbeat", status |-> "alive"]
RobotStatus(m) == [id |-> "RoboticArmStatus", status |-> m]
ConveyorStatus(m) == [id |-> "ConveyorStatus", status |-> m]
VisionStatus(m) == [id |-> "VisionStatus", status |-> m]

CommandFrames == {Command(c) : c \in Commands}
StatusFrames == {RobotStatus(m) : m \in RobotMessages}
                \cup {ConveyorStatus(m) : m \in ConveyorMessages}
                \cup {VisionStatus(m) : m \in VisionMessages}
Frame == CommandFrames \cup StatusFrames \cup {ControllerHeartbeat}

=============================================================================
