---------------------------- MODULE ConveyorBelt ----------------------------
(***************************************************************************)
(* The conveyor: starts, stops, and moves the next part in front of the    *)
(* camera when asked.  After a shutdown it no longer starts or beats, but  *)
(* it still answers a stop, a speed report and a part request.             *)
(***************************************************************************)
EXTENDS Watchdog, RandomEvents

ConveyorPublish(message) == Publish("conveyor", <<ConveyorStatus(message)>>)

ConveyorTick ==
  /\ WatchdogTick("conveyor", <<ConveyorStatus("ConveyorHeartbeat")>>,
                              <<ConveyorStatus("ConveyorStopped")>>)
  /\ UNCHANGED drawn

(* Mutant: the latch is not looked at.                                     *)
ConveyorStartAlways == ConveyorPublish("ConveyorRunning")

ConveyorStart ==
  \/ shutdown_latched["conveyor"] /\ Quiet
  \/ ~shutdown_latched["conveyor"] /\ ConveyorPublish("ConveyorRunning")

ConveyorShutdown ==
  \/ shutdown_latched["conveyor"] /\ Quiet
  \/ /\ ~shutdown_latched["conveyor"]
     /\ Latch("conveyor")
     /\ Send("conveyor", <<ConveyorStatus("ConveyorStopped")>>)
     /\ UNCHANGED <<heartbeat_seen, heartbeat_misses>>

(* Mutant: no return after the fault, the part arrives all the same.       *)
MovePartAfterFault ==
  \/ Hit("ConveyorFault") /\ Publish("conveyor", <<ConveyorStatus("ConveyorFault"),
                                                  ConveyorStatus("PartArrived")>>)
  \/ Miss /\ ConveyorPublish("PartArrived")

MovePart ==
  \/ Hit("ConveyorFault") /\ ConveyorPublish("ConveyorFault")
  \/ Miss /\ ConveyorPublish("PartArrived")

ConveyorReceive(f) ==
  \/ f.id = "conveyor.RequestPartArrived" /\ MovePart
  \/ /\ \/ f = ControllerHeartbeat /\ HearController("conveyor")
        \/ f.id = "conveyor.Start" /\ ConveyorStart
        \/ f.id = "conveyor.Stop" /\ ConveyorPublish("ConveyorStopped")
        \/ f.id = "conveyor.ReportSpeed" /\ ConveyorPublish("ConveyorSpeedReport")
        \/ f.id = "conveyor.InjectFault" /\ ConveyorPublish("ConveyorFault")
        \/ f.id = "conveyor.Shutdown" /\ ConveyorShutdown
        \/ f.id \notin ConveyorCommands /\ f # ControllerHeartbeat /\ Quiet
     /\ UNCHANGED drawn

=============================================================================
