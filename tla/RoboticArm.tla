----------------------------- MODULE RoboticArm -----------------------------
(***************************************************************************)
(* The robotic arm.  Every motion completes within the call that commands  *)
(* it and reports its whole course, ending with Ready and a heartbeat,     *)
(* also when it failed.  Once shut down the arm obeys no command.          *)
(***************************************************************************)
EXTENDS Watchdog, RandomEvents

RobotReport(messages) ==
  [i \in 1 .. Len(messages) |-> RobotStatus(messages[i])]

RobotPublish(messages) == Publish("robot", RobotReport(messages))

HomeMessages == <<"RobotBusy", "RobotHoming", "RobotHomed", "RobotReady",
                  "RobotHeartbeat">>
StopMessages == <<"RobotStopped", "RobotHeartbeat">>
ParkMessages == HomeMessages \o StopMessages

RobotTick ==
  /\ WatchdogTick("robot", RobotReport(<<"RobotHeartbeat">>),
                           RobotReport(ParkMessages))
  /\ UNCHANGED drawn

(* Mutant: the result is reported before the failure is looked at.         *)
MotionDoneThenFailed(first, failure, failed, done) ==
  \/ /\ Hit(failure)
     /\ RobotPublish(first \o <<done, failed, "RobotReady", "RobotHeartbeat">>)
  \/ /\ Miss
     /\ RobotPublish(first \o <<done, "RobotReady", "RobotHeartbeat">>)

(* A motion that may fail: its first messages, then the result.            *)
Motion(first, failure, failed, done) ==
  \/ /\ Hit(failure)
     /\ RobotPublish(first \o <<failed, "RobotReady", "RobotHeartbeat">>)
  \/ /\ Miss
     /\ RobotPublish(first \o <<done, "RobotReady", "RobotHeartbeat">>)

Pick == Motion(<<"RobotBusy", "PickStarted">>, "RobotPickFailure",
               "PickFailed", "PickCompleted")
Place == Motion(<<"RobotBusy">>, "RobotPlaceFailure",
                "MotionFailed", "PlaceCompleted")
RemoveReject == Motion(<<"RobotBusy", "PickStarted">>, "RobotPickFailure",
                       "PickFailed", "RejectRemoved")

RobotShutdown ==
  /\ Latch("robot")
  /\ Send("robot", RobotReport(ParkMessages))
  /\ UNCHANGED <<heartbeat_seen, heartbeat_misses>>

RobotObey(id) ==
  \/ id = "robot.Pick" /\ Pick
  \/ id = "robot.Place" /\ Place
  \/ id = "robot.RemoveReject" /\ RemoveReject
  \/ /\ \/ id = "robot.Home" /\ RobotPublish(HomeMessages)
        \/ id = "robot.Stop" /\ RobotPublish(StopMessages)
        \/ id = "robot.Reset" /\ RobotPublish(<<"RobotIdle", "RobotHeartbeat">>)
        \/ id = "robot.Shutdown" /\ RobotShutdown
     /\ UNCHANGED drawn

RobotReceive(f) ==
  \/ f = ControllerHeartbeat /\ HearController("robot") /\ UNCHANGED drawn
  \/ /\ f.id \in RobotCommands
     /\ ~shutdown_latched["robot"]
     /\ RobotObey(f.id)
  \/ /\ f # ControllerHeartbeat
     /\ f.id \notin RobotCommands \/ shutdown_latched["robot"]
     /\ Quiet
     /\ UNCHANGED drawn

=============================================================================
