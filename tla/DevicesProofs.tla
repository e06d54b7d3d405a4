--------------------------- MODULE DevicesProofs ---------------------------
(***************************************************************************)
(* The safety of a device on a bus it knows nothing about, for every       *)
(* watchdog timeout, buffer capacity, part id width and set of possible    *)
(* failures.                                                               *)
(*                                                                         *)
(* The watchdog properties compare a counter with the calls it stands for. *)
(* The invariant that carries them says what the counter of a device that  *)
(* is up has counted: the ticks since the last heartbeat, which is still   *)
(* remembered.                                                             *)
(***************************************************************************)
EXTENDS DevicesEnv, SequenceTheorems, TLAPS

TypeOK ==
  /\ heartbeat_seen \in [Devices -> BOOLEAN]
  /\ heartbeat_misses \in [Devices -> Nat]
  /\ shutdown_latched \in [Devices -> BOOLEAN]
  /\ tx \in [Devices -> Seq(Frame)]
  /\ has_pending_image \in BOOLEAN
  /\ unit \in Devices
  /\ recent \in [Devices -> Seq({"tick", "beat"})]
  /\ images \in Nat
  /\ verdicts \in Nat

(* The last heartbeat among these calls came n ticks before the last call. *)
LastBeat(calls, n) ==
  /\ n < Len(calls)
  /\ calls[Len(calls) - n] = "beat"
  /\ \A i \in Len(calls) - n + 1 .. Len(calls) : calls[i] = "tick"

(* A device that is up has counted the ticks since the last heartbeat.     *)
Counting ==
  \A d \in Devices :
    /\ Len(recent[d]) <= ControllerHeartbeatTimeoutTicks + 1
    /\ heartbeat_seen[d] /\ ~shutdown_latched[d] =>
         /\ heartbeat_misses[d] < ControllerHeartbeatTimeoutTicks
         /\ LastBeat(recent[d], heartbeat_misses[d])

Inv == TypeOK /\ Counting /\ OneVerdictPerImage

-----------------------------------------------------------------------------
(* What a call sends.                                                      *)

(* A command frame is known by its id.                                     *)
LEMMA FrameOfCommand ==
  ASSUME NEW f \in Frame, f.id \in Commands PROVE f = Command(f.id)
BY DEF Frame, CommandFrames, StatusFrames, ControllerHeartbeat, Command,
   RobotStatus, ConveyorStatus, VisionStatus, Commands, RobotCommands,
   ConveyorCommands, VisionCommands

(* A status is a frame.                                                    *)
LEMMA StatusIsFrame ==
  /\ \A m \in RobotMessages : RobotStatus(m) \in Frame
  /\ \A m \in ConveyorMessages : ConveyorStatus(m) \in Frame
  /\ \A m \in VisionMessages : VisionStatus(m) \in Frame
BY DEF Frame, StatusFrames

(* An empty buffer takes the first of the frames pushed, as many as fit.   *)
LEMMA PushToEmpty ==
  ASSUME NEW fs \in Seq(Frame)
  PROVE  /\ PushAll(<<>>, fs) \in Seq(Frame)
         /\ \A i \in 1 .. Len(PushAll(<<>>, fs)) :
              i \in 1 .. Len(fs) /\ PushAll(<<>>, fs)[i] = fs[i]
<1>. DEFINE kept == IF Len(fs) <= QueueCapacity THEN Len(fs) ELSE QueueCapacity
<1>1. kept \in Nat /\ kept <= Len(fs) /\ Len(fs) \in Nat
  BY QueueCapacityAssumption, LenProperties
<1>2. \A i \in 1 .. kept : fs[i] \in Frame
  BY <1>1, LenProperties, ElementOfSeq
<1>3. /\ SubSeq(fs, 1, kept) \in Seq(Frame)
      /\ Len(SubSeq(fs, 1, kept)) = kept
      /\ \A i \in 1 .. kept : SubSeq(fs, 1, kept)[i] = fs[i]
  BY <1>1, <1>2, SubSeqProperties
<1>4. PushAll(<<>>, fs) = <<>> \o SubSeq(fs, 1, kept)
  BY QueueCapacityAssumption DEF PushAll
<1>5. PushAll(<<>>, fs) = SubSeq(fs, 1, kept)
  BY <1>3, <1>4, ConcatEmptySeq
<1>6. Len(PushAll(<<>>, fs)) = kept /\ PushAll(<<>>, fs) \in Seq(Frame)
  BY <1>3, <1>5
<1>7. ASSUME NEW i \in 1 .. kept
      PROVE  i \in 1 .. Len(fs) /\ PushAll(<<>>, fs)[i] = fs[i]
  BY <1>1, <1>3, <1>5, <1>7
<1>. QED
  BY <1>6, <1>7

(* The call of d sends the frames fs.                                      *)
Says(d, fs) == fs \in Seq(Frame) /\ tx' = [tx EXCEPT ![d] = PushAll(<<>>, fs)]

(* Pushing nothing into an empty buffer leaves all buffers as they were.   *)
LEMMA SaysNothing ==
  ASSUME TypeOK, NEW d \in Devices, tx[d] = <<>>, UNCHANGED tx
  PROVE  Says(d, <<>>)
<1>1. PushAll(<<>>, <<>>) = <<>>
  <2>1. SubSeq(<<>>, 1, 0) = <<>>
    BY SubSeqEmpty
  <2>2. <<>> \o <<>> = <<>>
    OBVIOUS
  <2>. QED
    BY <2>1, <2>2, QueueCapacityAssumption DEF PushAll
<1>. QED
  BY <1>1 DEF Says, TypeOK

(* What the conveyor says once it is shut down are its last words.         *)
LEMMA ConveyorSays ==
  ASSUME TypeOK, tx["conveyor"] = <<>>, NEW f \in Frame,
         ConveyorTick \/ ConveyorReceive(f)
  PROVE  \E fs : /\ Says("conveyor", fs)
                 /\ shutdown_latched["conveyor"] =>
                      \A i \in 1 .. Len(fs) : fs[i] \in LastWords("conveyor")
<1>1. ASSUME UNCHANGED tx
      PROVE  Says("conveyor", <<>>) /\ Len(<<>>) = 0
  BY <1>1, SaysNothing DEF Devices
<1>2. ASSUME NEW m \in ConveyorMessages, Send("conveyor", <<ConveyorStatus(m)>>)
      PROVE  /\ Says("conveyor", <<ConveyorStatus(m)>>)
             /\ Len(<<ConveyorStatus(m)>>) = 1
             /\ <<ConveyorStatus(m)>>[1] = ConveyorStatus(m)
  BY <1>2, StatusIsFrame DEF Send, Says
<1>3. \/ UNCHANGED tx
      \/ \E m \in ConveyorMessages :
           /\ Send("conveyor", <<ConveyorStatus(m)>>)
           /\ shutdown_latched["conveyor"] =>
                m \in {"ConveyorStopped", "ConveyorFault", "ConveyorSpeedReport",
                       "PartArrived"}
  BY DEF ConveyorTick, WatchdogTick, ConveyorReceive, MovePart, HearController,
     ConveyorStart, ConveyorPublish, Publish, ConveyorShutdown, Quiet,
     ConveyorMessages, watchdogVars
<1>4. CASE UNCHANGED tx
  <2>1. Says("conveyor", <<>>) /\ \A i \in 1 .. Len(<<>>) : <<>>[i] \in LastWords("conveyor")
    BY <1>1, <1>4
  <2>. QED
    BY <2>1
<1>5. CASE ~UNCHANGED tx
  <2>1. PICK m \in ConveyorMessages :
          /\ Send("conveyor", <<ConveyorStatus(m)>>)
          /\ shutdown_latched["conveyor"] =>
               m \in {"ConveyorStopped", "ConveyorFault", "ConveyorSpeedReport",
                      "PartArrived"}
    BY <1>3, <1>5
  <2>2. Says("conveyor", <<ConveyorStatus(m)>>)
    BY <1>2, <2>1
  <2>3. shutdown_latched["conveyor"] =>
          \A i \in 1 .. Len(<<ConveyorStatus(m)>>) :
            <<ConveyorStatus(m)>>[i] \in LastWords("conveyor")
    BY <1>2, <2>1 DEF LastWords
  <2>. QED
    BY <2>2, <2>3
<1>. QED
  BY <1>4, <1>5

(* What the sensor says, and what that does to its slot: it is silent once *)
(* shut down, the slot is only filled by a part that arrives, and only a   *)
(* full slot, which is then emptied, yields a verdict.                     *)
Arrives(f) == f = ConveyorStatus("PartArrived") /\ ~shutdown_latched["vision"]

SlotUse(f, fs) ==
  \/ /\ \A i \in 1 .. Len(fs) : fs[i] \notin Verdict
     /\ has_pending_image' => has_pending_image \/ Arrives(f)
  \/ /\ ~has_pending_image'
     /\ has_pending_image \/ Arrives(f)

(* What the sensor sends in one call, and what becomes of the image.       *)
LEMMA VisionSays ==
  ASSUME TypeOK, tx["vision"] = <<>>, NEW f \in Frame,
         VisionTick \/ VisionReceive(f)
  PROVE  \E fs : /\ Says("vision", fs)
                 /\ shutdown_latched["vision"] => fs = <<>>
                 /\ SlotUse(f, fs)
<1>. DEFINE both(m) == <<VisionStatus(m), VisionStatus("VisionHeartbeat")>>
            one(m) == <<VisionStatus(m)>>
            silent == shutdown_latched["vision"]
<1>1. ASSUME UNCHANGED tx PROVE Says("vision", <<>>)
  BY <1>1, SaysNothing DEF Devices
<1>2. ASSUME NEW m \in VisionMessages, Send("vision", both(m))
      PROVE  /\ Says("vision", both(m))
             /\ m \notin {"PartAccepted", "RejectDetected"} =>
                  \A i \in 1 .. Len(both(m)) : both(m)[i] \notin Verdict
  <2>1. both(m) \in Seq(Frame)
    BY StatusIsFrame DEF VisionMessages
  <2>2. Says("vision", both(m))
    BY <1>2, <2>1 DEF Send, Says
  <2>. QED
    BY <2>2 DEF Verdict, VisionStatus
<1>3. ASSUME NEW m \in VisionMessages, Send("vision", one(m))
      PROVE  /\ Says("vision", one(m))
             /\ m \notin {"PartAccepted", "RejectDetected"} =>
                  \A i \in 1 .. Len(one(m)) : one(m)[i] \notin Verdict
  <2>1. one(m) \in Seq(Frame)
    BY StatusIsFrame
  <2>2. Says("vision", one(m))
    BY <1>3, <2>1 DEF Send, Says
  <2>. QED
    BY <2>2 DEF Verdict, VisionStatus
<1>4. ASSUME NEW full \in BOOLEAN, NEW image, NEW id, ~silent,
             RunInspectionCycle(full, image, id)
      PROVE  \/ \E m \in {"VisionFault", "VisionTimeout"} :
                  Send("vision", both(m)) /\ has_pending_image' = full
             \/ /\ full /\ ~has_pending_image'
                /\ \E m \in {"PartAccepted", "RejectDetected"} : Send("vision", both(m))
  BY <1>4 DEF RunInspectionCycle, Loads, VisionPublish, Publish, VerdictMessage
<1>5. \/ UNCHANGED <<tx, has_pending_image>>
      \/ /\ ~silent
         /\ UNCHANGED has_pending_image
         /\ \E m \in {"VisionHeartbeat", "VisionFault", "VisionTimeout"} : Send("vision", one(m))
      \/ UNCHANGED has_pending_image /\ ~silent /\ Send("vision", <<>>)
      \/ /\ ~silent
         /\ \E m \in {"VisionFault", "VisionTimeout"} : Send("vision", both(m))
         /\ has_pending_image' => has_pending_image \/ Arrives(f)
      \/ /\ ~silent
         /\ has_pending_image \/ Arrives(f)
         /\ ~has_pending_image'
         /\ \E m \in {"PartAccepted", "RejectDetected"} : Send("vision", both(m))
  <2>1. CASE VisionTick
    BY <2>1 DEF VisionTick, WatchdogTick, visionVars, watchdogVars
  <2>2. ASSUME NEW image, ~silent, f = ConveyorStatus("PartArrived"), PartArrives(image)
        PROVE  RunInspectionCycle(TRUE, image, NextPartId(input_part_counter)) /\ Arrives(f)
    BY <2>2 DEF PartArrives, Arrives
  <2>3. ASSUME ~silent,
               RunInspectionCycle(has_pending_image, pending_image, pending_part_id)
        PROVE  \/ \E m \in {"VisionFault", "VisionTimeout"} :
                    Send("vision", both(m)) /\ UNCHANGED has_pending_image
               \/ /\ has_pending_image /\ ~has_pending_image'
                  /\ \E m \in {"PartAccepted", "RejectDetected"} : Send("vision", both(m))
    BY <2>3, <1>4 DEF TypeOK
  <2>4. CASE VisionReceive(f)
    <3>1. CASE ~silent /\ VisionObey(f)
      <4>1. CASE \E image \in Verdicts : f = ConveyorStatus("PartArrived") /\ PartArrives(image)
        BY <1>4, <2>2, <3>1, <4>1
      <4>2. CASE RunInspectionCycle(has_pending_image, pending_image, pending_part_id)
        BY <2>3, <3>1, <4>2
      <4>3. CASE /\ UNCHANGED visionVars
                 /\ \E m \in {"VisionHeartbeat", "VisionFault", "VisionTimeout"} :
                      Send("vision", one(m))
        BY <3>1, <4>3 DEF visionVars
      <4>. QED
        BY <3>1, <4>1, <4>2, <4>3 DEF VisionObey, Publish
    <3>2. CASE UNCHANGED <<tx, visionVars>>
      BY <3>2 DEF visionVars
    <3>. QED
      BY <2>4, <3>1, <3>2
      DEF VisionReceive, HearController, VisionShutdown, Quiet
  <2>. QED
    BY <2>1, <2>4
<1>6. CASE UNCHANGED <<tx, has_pending_image>>
  <2>1. SlotUse(f, <<>>)
    BY <1>6 DEF SlotUse
  <2>. QED
    BY <1>1, <1>6, <2>1
<1>7. CASE /\ ~silent
           /\ UNCHANGED has_pending_image
           /\ \E m \in {"VisionHeartbeat", "VisionFault", "VisionTimeout"} : Send("vision", one(m))
  <2>1. PICK m \in {"VisionHeartbeat", "VisionFault", "VisionTimeout"} : Send("vision", one(m))
    BY <1>7
  <2>2. Says("vision", one(m)) /\ SlotUse(f, one(m))
    BY <1>3, <1>7, <2>1 DEF VisionMessages, SlotUse
  <2>. QED
    BY <1>7, <2>2
<1>8. CASE UNCHANGED has_pending_image /\ ~silent /\ Send("vision", <<>>)
  <2>1. Says("vision", <<>>)
    BY <1>8 DEF Send, Says
  <2>2. SlotUse(f, <<>>)
    BY <1>8 DEF SlotUse
  <2>. QED
    BY <2>1, <2>2
<1>9. CASE /\ ~silent
           /\ \E m \in {"VisionFault", "VisionTimeout"} : Send("vision", both(m))
           /\ has_pending_image' => has_pending_image \/ Arrives(f)
  <2>1. PICK m \in {"VisionFault", "VisionTimeout"} : Send("vision", both(m))
    BY <1>9
  <2>2. Says("vision", both(m)) /\ SlotUse(f, both(m))
    BY <1>2, <1>9, <2>1 DEF VisionMessages, SlotUse
  <2>. QED
    BY <1>9, <2>2
<1>10. CASE /\ ~silent
            /\ has_pending_image \/ Arrives(f)
            /\ ~has_pending_image'
            /\ \E m \in {"PartAccepted", "RejectDetected"} : Send("vision", both(m))
  <2>1. PICK m \in {"PartAccepted", "RejectDetected"} : Send("vision", both(m))
    BY <1>10
  <2>2. Says("vision", both(m)) /\ SlotUse(f, both(m))
    BY <1>2, <1>10, <2>1 DEF VisionMessages, SlotUse
  <2>. QED
    BY <1>10, <2>2
<1>. QED
  BY <1>5, <1>6, <1>7, <1>8, <1>9, <1>10

(* A list of robot messages is reported as a list of frames.               *)
LEMMA ReportTyped ==
  ASSUME NEW ms \in Seq(RobotMessages) PROVE RobotReport(ms) \in Seq(Frame)
BY StatusIsFrame DEF RobotReport

(* The robot is silent once shut down.                                     *)
LEMMA RobotSays ==
  ASSUME TypeOK, tx["robot"] = <<>>, NEW f \in Frame,
         RobotTick \/ RobotReceive(f)
  PROVE  \E fs : /\ Says("robot", fs)
                 /\ shutdown_latched["robot"] => fs = <<>>
<1>. DEFINE Said(ms) == ms \in Seq(RobotMessages) /\ Send("robot", RobotReport(ms))
            silent == shutdown_latched["robot"]
<1>1. /\ HomeMessages \in Seq(RobotMessages)
      /\ StopMessages \in Seq(RobotMessages)
      /\ <<"RobotHeartbeat">> \in Seq(RobotMessages)
      /\ <<"RobotIdle", "RobotHeartbeat">> \in Seq(RobotMessages)
  BY DEF HomeMessages, StopMessages, RobotMessages
<1>2. ParkMessages \in Seq(RobotMessages)
  BY <1>1, ConcatProperties DEF ParkMessages
<1>3. ASSUME NEW first \in Seq(RobotMessages), NEW failure,
             NEW failed \in RobotMessages, NEW done \in RobotMessages,
             Motion(first, failure, failed, done)
      PROVE  \E ms : Said(ms)
  <2>1. \A m \in RobotMessages :
          first \o <<m, "RobotReady", "RobotHeartbeat">> \in Seq(RobotMessages)
    <3>. TAKE m \in RobotMessages
    <3>1. <<m, "RobotReady", "RobotHeartbeat">> \in Seq(RobotMessages)
      BY DEF RobotMessages
    <3>. QED
      BY <3>1, ConcatProperties
  <2>. QED
    BY <1>3, <2>1 DEF Motion, RobotPublish, Publish
<1>4. ASSUME Pick \/ Place \/ RemoveReject PROVE \E ms : Said(ms)
  <2>1. /\ <<"RobotBusy", "PickStarted">> \in Seq(RobotMessages)
        /\ <<"RobotBusy">> \in Seq(RobotMessages)
        /\ {"PickFailed", "PickCompleted", "MotionFailed", "PlaceCompleted",
            "RejectRemoved"} \subseteq RobotMessages
    BY DEF RobotMessages
  <2>. QED
    BY <1>3, <1>4, <2>1 DEF Pick, Place, RemoveReject
<1>5. CASE UNCHANGED tx
  <2>1. Says("robot", <<>>)
    BY <1>5, SaysNothing DEF Devices
  <2>. QED
    BY <2>1
<1>6. CASE ~silent /\ \E ms : Said(ms)
  <2>1. PICK ms : Said(ms)
    BY <1>6
  <2>2. Says("robot", RobotReport(ms))
    BY <2>1, ReportTyped DEF Says, Send
  <2>. QED
    BY <1>6, <2>2
<1>7. UNCHANGED tx \/ (~silent /\ \E ms : Said(ms))
  <2>1. CASE RobotTick
    BY <2>1, <1>1, <1>2 DEF RobotTick, WatchdogTick
  <2>2. CASE RobotReceive(f) /\ ~UNCHANGED tx
    <3>1. ~silent /\ RobotObey(f.id)
      BY <2>2 DEF RobotReceive, HearController, Quiet
    <3>2. CASE Pick \/ Place \/ RemoveReject
      BY <3>1, <3>2, <1>4
    <3>3. CASE \/ RobotPublish(HomeMessages) \/ RobotPublish(StopMessages)
               \/ RobotPublish(<<"RobotIdle", "RobotHeartbeat">>) \/ RobotShutdown
      BY <3>1, <3>3, <1>1, <1>2 DEF RobotPublish, Publish, RobotShutdown
    <3>. QED
      BY <3>1, <3>2, <3>3 DEF RobotObey
  <2>. QED
    BY <2>1, <2>2
<1>. QED
  BY <1>5, <1>6, <1>7

-----------------------------------------------------------------------------
(* What a call does to the watchdog.                                       *)

(* A tick counts unless the device is down, and expires on the timeout.    *)
LEMMA TickCounts ==
  ASSUME NEW d \in Devices, Tick(d)
  PROVE  \/ shutdown_latched[d] /\ UNCHANGED watchdogVars
         \/ /\ ~shutdown_latched[d]
            /\ heartbeat_seen' = heartbeat_seen
            /\ heartbeat_misses' =
                 [heartbeat_misses EXCEPT ![d] = IF heartbeat_seen[d] THEN @ + 1 ELSE @]
            /\ shutdown_latched' = IF WatchdogExpires(d)
                                   THEN [shutdown_latched EXCEPT ![d] = TRUE]
                                   ELSE shutdown_latched
BY DEF Tick, ConveyorTick, VisionTick, RobotTick, WatchdogTick, Latch, Devices

(* A frame resets the count, shuts the device down or leaves it alone.     *)
LEMMA HearCounts ==
  ASSUME NEW d \in Devices, NEW f \in Frame, Hear(d, f)
  PROVE  \/ f = ControllerHeartbeat /\ HearController(d)
         \/ f # ControllerHeartbeat /\ UNCHANGED watchdogVars
         \/ /\ f # ControllerHeartbeat
            /\ Latch(d)
            /\ UNCHANGED <<heartbeat_seen, heartbeat_misses>>
            /\ d \in commanded'
<1>1. ControllerHeartbeat.id = "ControllerHeartbeat"
  BY DEF ControllerHeartbeat
<1>2. ASSUME d = "conveyor", ConveyorReceive(f), f # ControllerHeartbeat
      PROVE  \/ UNCHANGED watchdogVars
             \/ /\ Latch(d) /\ UNCHANGED <<heartbeat_seen, heartbeat_misses>>
                /\ f.id = "conveyor.Shutdown"
  BY <1>2
  DEF ConveyorReceive, MovePart, ConveyorPublish, Publish, ConveyorStart,
      ConveyorShutdown, Quiet, watchdogVars
<1>3. ASSUME d = "vision", VisionReceive(f), f # ControllerHeartbeat
      PROVE  \/ UNCHANGED watchdogVars
             \/ /\ Latch(d) /\ UNCHANGED <<heartbeat_seen, heartbeat_misses>>
                /\ f.id = "vision.Shutdown"
  BY <1>3
  DEF VisionReceive, VisionObey, VisionShutdown, PartArrives, RunInspectionCycle,
      VisionPublish, Publish, Quiet, watchdogVars
<1>4. ASSUME d = "robot", RobotReceive(f), f # ControllerHeartbeat
      PROVE  \/ UNCHANGED watchdogVars
             \/ /\ Latch(d) /\ UNCHANGED <<heartbeat_seen, heartbeat_misses>>
                /\ f.id = "robot.Shutdown"
  BY <1>4
  DEF RobotReceive, RobotObey, RobotShutdown, Pick, Place, RemoveReject, Motion,
      RobotPublish, Publish, Quiet, watchdogVars
<1>5. ASSUME f = ControllerHeartbeat PROVE HearController(d)
  <2>1. f.id \notin Commands /\ f # ConveyorStatus("PartArrived")
    BY <1>1, <1>5
    DEF Commands, RobotCommands, ConveyorCommands, VisionCommands,
        ControllerHeartbeat, ConveyorStatus
  <2>2. f.id \notin ConveyorCommands /\ f.id \notin RobotCommands
        /\ f.id \notin VisionCommands
    BY <2>1 DEF Commands
  <2>. QED
    BY <1>5, <2>1, <2>2
    DEF Hear, ConveyorReceive, VisionReceive, RobotReceive, ConveyorCommands,
        VisionCommands, VisionServes
<1>6. ASSUME f.id \in {"conveyor.Shutdown", "vision.Shutdown", "robot.Shutdown"}
      PROVE  f = Command(f.id)
  BY <1>6, FrameOfCommand DEF Commands, ConveyorCommands, VisionCommands, RobotCommands
<1>7. /\ d = "conveyor" /\ f.id = "conveyor.Shutdown" => d \in commanded'
      /\ d = "vision" /\ f.id = "vision.Shutdown" => d \in commanded'
      /\ d = "robot" /\ f.id = "robot.Shutdown" => d \in commanded'
  <2>1. /\ f.id = "conveyor.Shutdown" => f = Command("conveyor.Shutdown")
        /\ f.id = "vision.Shutdown" => f = Command("vision.Shutdown")
        /\ f.id = "robot.Shutdown" => f = Command("robot.Shutdown")
    BY <1>6
  <2>2. commanded' = commanded \cup
          IF f = Command("conveyor.Shutdown") THEN {"conveyor"} \cap {d}
          ELSE IF f = Command("vision.Shutdown") THEN {"vision"} \cap {d}
          ELSE IF f = Command("robot.Shutdown") THEN {"robot"} \cap {d}
          ELSE {}
    BY DEF Hear
  <2>3. /\ Command("conveyor.Shutdown") # Command("vision.Shutdown")
        /\ Command("conveyor.Shutdown") # Command("robot.Shutdown")
        /\ Command("vision.Shutdown") # Command("robot.Shutdown")
    BY DEF Command
  <2>4. CASE d = "conveyor" /\ f.id = "conveyor.Shutdown"
    BY <2>1, <2>2, <2>4
  <2>5. CASE d = "vision" /\ f.id = "vision.Shutdown"
    BY <2>1, <2>2, <2>3, <2>5
  <2>6. CASE d = "robot" /\ f.id = "robot.Shutdown"
    BY <2>1, <2>2, <2>3, <2>6
  <2>. QED
    BY <2>4, <2>5, <2>6
<1>. QED
  BY <1>2, <1>3, <1>4, <1>5, <1>7 DEF Hear, Devices

(* What is remembered of the calls after one more: it comes last, and the  *)
(* others move one back.                                                   *)
Kept(calls, what) ==
  LET h == Append(calls, what)
  IN  IF Len(h) > ControllerHeartbeatTimeoutTicks + 1 THEN Tail(h) ELSE h

(* What is remembered after one call more.                                 *)
LEMMA Remembered ==
  ASSUME NEW calls \in Seq({"tick", "beat"}), NEW what \in {"tick", "beat"},
         Len(calls) <= ControllerHeartbeatTimeoutTicks + 1
  PROVE  /\ Kept(calls, what) \in Seq({"tick", "beat"})
         /\ Len(Kept(calls, what)) = IF Len(calls) <= ControllerHeartbeatTimeoutTicks
                                     THEN Len(calls) + 1 ELSE Len(calls)
         /\ Kept(calls, what)[Len(Kept(calls, what))] = what
         /\ \A i \in 1 .. Len(Kept(calls, what)) - 1 :
              Kept(calls, what)[i] = calls[Len(calls) - (Len(Kept(calls, what)) - 1 - i)]
<1>. DEFINE h == Append(calls, what)
            n == Len(calls)
<1>1. /\ h \in Seq({"tick", "beat"}) /\ Len(h) = n + 1 /\ n \in Nat
      /\ \A i \in 1 .. n : h[i] = calls[i]
      /\ h[n + 1] = what
  BY AppendProperties, LenProperties
<1>2. CASE n <= ControllerHeartbeatTimeoutTicks
  <2>1. Kept(calls, what) = h
    BY <1>1, <1>2, WatchdogAssumption DEF Kept
  <2>. QED
    BY <1>1, <1>2, <2>1
<1>3. CASE ~(n <= ControllerHeartbeatTimeoutTicks)
  <2>1. Kept(calls, what) = Tail(h)
    BY <1>1, <1>3, WatchdogAssumption DEF Kept
  <2>2. /\ Tail(h) \in Seq({"tick", "beat"}) /\ Len(Tail(h)) = n
        /\ \A i \in 1 .. n : Tail(h)[i] = h[i + 1]
    <3>1. h # <<>>
      BY <1>1, EmptySeq
    <3>2. /\ Tail(h) \in Seq({"tick", "beat"}) /\ Len(Tail(h)) = Len(h) - 1
          /\ \A i \in 1 .. Len(Tail(h)) : Tail(h)[i] = h[i + 1]
      BY <1>1, <3>1, HeadTailProperties
    <3>. QED
      BY <1>1, <3>2
  <2>3. n \in Nat \ {0}
    BY <1>1, <1>3, WatchdogAssumption
  <2>4. Tail(h)[n] = what
    BY <1>1, <2>2, <2>3
  <2>5. \A i \in 1 .. n - 1 : Tail(h)[i] = calls[n - (n - 1 - i)]
    BY <1>1, <2>2, <2>3
  <2>. QED
    BY <1>3, <2>1, <2>2, <2>4, <2>5
<1>. QED
  BY <1>2, <1>3

-----------------------------------------------------------------------------
(* The invariant.                                                          *)

(* Devices that have not begun satisfy the invariant.                      *)
LEMMA InitInv == Init => Inv
<1>. SUFFICES ASSUME Init PROVE Inv
  OBVIOUS
<1>1. TypeOK
  <2>1. <<>> \in Seq(Frame) /\ <<>> \in Seq({"tick", "beat"})
    OBVIOUS
  <2>. QED
    BY <2>1 DEF Init, WatchdogInit, VisionInit, TypeOK
<1>2. Counting
  <2>1. ASSUME NEW d \in Devices
        PROVE  Len(recent[d]) <= ControllerHeartbeatTimeoutTicks + 1 /\ ~heartbeat_seen[d]
    BY WatchdogAssumption DEF Init, WatchdogInit
  <2>. QED
    BY <2>1 DEF Counting
<1>3. OneVerdictPerImage
  BY DEF Init, VisionInit, OneVerdictPerImage
<1>. QED
  BY <1>1, <1>2, <1>3 DEF Inv

(* A call of a device sends frames, and only last words once it is down.   *)
LEMMA CallSays ==
  ASSUME TypeOK, Call
  PROVE  \E fs : /\ Says(unit, fs)
                 /\ shutdown_latched[unit] =>
                      \A i \in 1 .. Len(fs) : fs[i] \in LastWords(unit)
<1>1. unit \in Devices /\ tx[unit] = <<>>
  BY DEF Call, TypeOK
<1>2. PICK f \in Frame :
        \/ unit = "conveyor" /\ (ConveyorTick \/ ConveyorReceive(f))
        \/ unit = "vision" /\ (VisionTick \/ VisionReceive(f))
        \/ unit = "robot" /\ (RobotTick \/ RobotReceive(f))
  <2>1. ControllerHeartbeat \in Frame
    BY DEF Frame
  <2>. QED
    BY <2>1 DEF Call, Tick, Hear
<1>3. \A i \in 1 .. Len(<<>>) : <<>>[i] \in LastWords(unit)
  OBVIOUS
<1>4. CASE unit = "conveyor"
  BY <1>1, <1>2, <1>4, ConveyorSays
<1>5. CASE unit = "vision"
  <2>1. PICK fs : Says("vision", fs) /\ (shutdown_latched["vision"] => fs = <<>>)
    BY <1>1, <1>2, <1>5, VisionSays
  <2>. QED
    BY <1>3, <1>5, <2>1
<1>6. CASE unit = "robot"
  <2>1. PICK fs : Says("robot", fs) /\ (shutdown_latched["robot"] => fs = <<>>)
    BY <1>1, <1>2, <1>6, RobotSays
  <2>. QED
    BY <1>3, <1>6, <2>1
<1>. QED
  BY <1>1, <1>4, <1>5, <1>6 DEF Devices

(* The slot stays full or empty.                                           *)
LEMMA SlotTyped ==
  ASSUME TypeOK, Call PROVE has_pending_image' \in BOOLEAN
<1>1. \A full \in BOOLEAN : \A image, id :
        RunInspectionCycle(full, image, id) => has_pending_image' \in BOOLEAN
  BY DEF RunInspectionCycle
<1>2. ASSUME NEW f, VisionReceive(f) PROVE has_pending_image' \in BOOLEAN
  BY <1>1, <1>2
  DEF TypeOK, VisionReceive, VisionObey, PartArrives, visionVars
<1>3. VisionTick \/ UNCHANGED visionVars => has_pending_image' \in BOOLEAN
  BY DEF TypeOK, VisionTick, visionVars
<1>. QED
  BY <1>2, <1>3 DEF Call, Tick, Hear

(* A verdict that is published uses up an image.                           *)
LEMMA CallImages ==
  ASSUME TypeOK, OneVerdictPerImage, Call
  PROVE  images' \in Nat /\ verdicts' \in Nat /\ OneVerdictPerImage'
<1>. USE DEF TypeOK, OneVerdictPerImage
<1>1. ASSUME UNCHANGED <<images, verdicts, has_pending_image>>
      PROVE  images' \in Nat /\ verdicts' \in Nat /\ OneVerdictPerImage'
  BY <1>1
<1>2. CASE Tick(unit)
  BY <1>1, <1>2 DEF Tick, VisionTick, visionVars
<1>3. ASSUME NEW f \in Frame, Hear(unit, f), unit # "vision"
      PROVE  images' \in Nat /\ verdicts' \in Nat /\ OneVerdictPerImage'
  BY <1>1, <1>3 DEF Hear, visionVars
<1>4. ASSUME NEW f \in Frame, Hear(unit, f), unit = "vision"
      PROVE  images' \in Nat /\ verdicts' \in Nat /\ OneVerdictPerImage'
  <2>1. tx["vision"] = <<>>
    BY <1>4 DEF Call
  <2>2. PICK fs : Says("vision", fs) /\ SlotUse(f, fs)
    BY <1>4, <2>1, VisionSays DEF Hear
  <2>3. /\ images' = IF Arrives(f) THEN images + 1 ELSE images
        /\ verdicts' = IF Publishes("vision", Verdict) THEN verdicts + 1 ELSE verdicts
    BY <1>4 DEF Hear, Arrives
  <2>4. tx'["vision"] = PushAll(<<>>, fs) /\ tx'["vision"] \in Seq(Frame)
    BY <2>2, PushToEmpty DEF Says, Devices
  <2>5. Publishes("vision", Verdict) => \E i \in 1 .. Len(fs) : fs[i] \in Verdict
    <3>1. DOMAIN tx'["vision"] = 1 .. Len(tx'["vision"])
      BY <2>4, LenProperties
    <3>2. SUFFICES ASSUME NEW i \in 1 .. Len(PushAll(<<>>, fs)),
                          PushAll(<<>>, fs)[i] \in Verdict
                   PROVE  \E j \in 1 .. Len(fs) : fs[j] \in Verdict
      BY <2>4, <3>1 DEF Publishes
    <3>3. i \in 1 .. Len(fs) /\ PushAll(<<>>, fs)[i] = fs[i]
      BY <2>2, PushToEmpty DEF Says
    <3>. QED
      BY <3>2, <3>3
  <2>6. has_pending_image' \in BOOLEAN
    BY SlotTyped
  <2>. QED
    BY <2>2, <2>3, <2>5, <2>6 DEF SlotUse
<1>. QED
  BY <1>2, <1>3, <1>4 DEF Call

(* A device that is up has counted every tick since the last heartbeat,    *)
(* which is still remembered; one that expires has heard none for so long  *)
(* that it is no longer remembered but for its place.                      *)
LEMMA TickKeepsCount ==
  ASSUME NEW calls \in Seq({"tick", "beat"}), NEW n \in Nat,
         Len(calls) <= ControllerHeartbeatTimeoutTicks + 1,
         n < ControllerHeartbeatTimeoutTicks,
         LastBeat(calls, n)
  PROVE  /\ n + 1 < ControllerHeartbeatTimeoutTicks => LastBeat(Kept(calls, "tick"), n + 1)
         /\ n + 1 >= ControllerHeartbeatTimeoutTicks => Deaf(Kept(calls, "tick"))
<1>. DEFINE kept == Kept(calls, "tick")
            T == ControllerHeartbeatTimeoutTicks
<1>1. /\ kept \in Seq({"tick", "beat"})
      /\ Len(kept) = IF Len(calls) <= T THEN Len(calls) + 1 ELSE Len(calls)
      /\ kept[Len(kept)] = "tick"
      /\ \A i \in 1 .. Len(kept) - 1 : kept[i] = calls[Len(calls) - (Len(kept) - 1 - i)]
  BY Remembered
<1>2. Len(calls) \in Nat /\ Len(kept) \in Nat /\ T \in Nat \ {0}
  BY <1>1, LenProperties, WatchdogAssumption
<1>. HIDE DEF kept, T
<1>3. n + 1 < Len(kept)
  BY <1>1, <1>2 DEF LastBeat, T
<1>4. ASSUME NEW i \in Len(kept) - n .. Len(kept) PROVE kept[i] = "tick"
  <2>1. CASE i = Len(kept)
    BY <1>1, <2>1
  <2>2. CASE i # Len(kept)
    <3>1. i \in 1 .. Len(kept) - 1
      BY <1>2, <1>3, <2>2
    <3>2. kept[i] = calls[Len(calls) - (Len(kept) - 1 - i)]
      BY <1>1, <3>1
    <3>3. Len(calls) - (Len(kept) - 1 - i) \in Len(calls) - n + 1 .. Len(calls)
      BY <1>2, <1>4, <3>1
    <3>. QED
      BY <3>2, <3>3 DEF LastBeat
  <2>. QED
    BY <2>1, <2>2
<1>5. kept[Len(kept) - (n + 1)] = "beat"
  <2>1. Len(kept) - (n + 1) \in 1 .. Len(kept) - 1
    BY <1>2, <1>3
  <2>2. Len(calls) - (Len(kept) - 1 - (Len(kept) - (n + 1))) = Len(calls) - n
    BY <1>2
  <2>. QED
    BY <1>1, <2>1, <2>2 DEF LastBeat
<1>6. LastBeat(kept, n + 1)
  BY <1>2, <1>3, <1>4, <1>5 DEF LastBeat
<1>7. n + 1 >= T => Deaf(kept)
  <2>1. SUFFICES ASSUME n + 1 >= T PROVE Deaf(kept)
    OBVIOUS
  <2>2. n + 1 = T /\ Len(kept) = T + 1
    BY <1>1, <1>2, <1>3, <2>1 DEF T
  <2>. QED
    BY <1>2, <1>4, <2>2 DEF Deaf, T
<1>. QED
  BY <1>6, <1>7 DEF kept, T

(* A heartbeat starts the count afresh.                                    *)
LEMMA BeatStartsCount ==
  ASSUME NEW calls \in Seq({"tick", "beat"}),
         Len(calls) <= ControllerHeartbeatTimeoutTicks + 1
  PROVE  LastBeat(Kept(calls, "beat"), 0)
<1>1. /\ Len(Kept(calls, "beat")) \in Nat
      /\ Len(Kept(calls, "beat")) > 0
      /\ Kept(calls, "beat")[Len(Kept(calls, "beat"))] = "beat"
  BY Remembered, LenProperties, WatchdogAssumption
<1>. QED
  BY <1>1 DEF LastBeat

(* A call keeps the count true.                                            *)
LEMMA CallCounting ==
  ASSUME TypeOK, Counting, Call
  PROVE  /\ heartbeat_seen' \in [Devices -> BOOLEAN]
         /\ heartbeat_misses' \in [Devices -> Nat]
         /\ shutdown_latched' \in [Devices -> BOOLEAN]
         /\ recent' \in [Devices -> Seq({"tick", "beat"})]
         /\ Counting'
<1>. USE DEF TypeOK
<1>. DEFINE T == ControllerHeartbeatTimeoutTicks
            n == heartbeat_misses[unit]
            calls == recent[unit]
            Settled == /\ Len(recent'[unit]) <= T + 1
                       /\ heartbeat_seen'[unit] /\ ~shutdown_latched'[unit] =>
                            /\ heartbeat_misses'[unit] < T
                            /\ LastBeat(recent'[unit], heartbeat_misses'[unit])
<1>1. /\ unit \in Devices /\ n \in Nat /\ T \in Nat \ {0}
      /\ calls \in Seq({"tick", "beat"}) /\ Len(calls) <= T + 1
      /\ heartbeat_seen[unit] /\ ~shutdown_latched[unit] => n < T /\ LastBeat(calls, n)
  BY WatchdogAssumption DEF Counting
<1>2. \A what \in {"tick", "beat"} :
        Remember(unit, what) =>
          /\ recent' = [recent EXCEPT ![unit] = Kept(calls, what)]
          /\ Kept(calls, what) \in Seq({"tick", "beat"})
          /\ Len(Kept(calls, what)) <= T + 1
  <2>1. ASSUME NEW what \in {"tick", "beat"}, Remember(unit, what)
        PROVE  recent' = [recent EXCEPT ![unit] = Kept(calls, what)]
    BY <2>1 DEF Remember, Kept
  <2>. QED
    BY <1>1, <2>1, Remembered, SMTT(20)
<1>3. ASSUME /\ \A d \in Devices \ {unit} :
                  /\ heartbeat_seen'[d] = heartbeat_seen[d]
                  /\ heartbeat_misses'[d] = heartbeat_misses[d]
                  /\ shutdown_latched'[d] = shutdown_latched[d]
                  /\ recent'[d] = recent[d],
             Settled
      PROVE  Counting'
  BY <1>3 DEF Counting
<1>4. CASE Tick(unit)
  <2>1. /\ recent' = [recent EXCEPT ![unit] = Kept(calls, "tick")]
        /\ Kept(calls, "tick") \in Seq({"tick", "beat"})
        /\ Len(Kept(calls, "tick")) <= T + 1
    BY <1>2, <1>4 DEF Tick
  <2>2. CASE shutdown_latched[unit] /\ UNCHANGED watchdogVars
    BY <1>1, <1>3, <2>1, <2>2 DEF watchdogVars
  <2>3. CASE /\ ~shutdown_latched[unit]
             /\ heartbeat_seen' = heartbeat_seen
             /\ heartbeat_misses' =
                  [heartbeat_misses EXCEPT ![unit] = IF heartbeat_seen[unit] THEN @ + 1 ELSE @]
             /\ shutdown_latched' = IF WatchdogExpires(unit)
                                    THEN [shutdown_latched EXCEPT ![unit] = TRUE]
                                    ELSE shutdown_latched
    <3>1. Settled
      <4>1. SUFFICES ASSUME heartbeat_seen[unit], ~shutdown_latched'[unit]
                     PROVE  /\ heartbeat_misses'[unit] < T
                            /\ LastBeat(recent'[unit], heartbeat_misses'[unit])
        BY <1>1, <2>1, <2>3
      <4>2. heartbeat_misses'[unit] = n + 1 /\ n + 1 < T
        BY <1>1, <2>3, <4>1 DEF WatchdogExpires
      <4>3. LastBeat(Kept(calls, "tick"), n + 1)
        BY <1>1, <2>3, <4>1, <4>2, TickKeepsCount
      <4>. QED
        BY <1>1, <2>1, <4>2, <4>3
    <3>. QED
      BY <1>1, <1>3, <2>1, <2>3, <3>1
  <2>. QED
    BY <1>1, <1>4, <2>2, <2>3, TickCounts
<1>5. ASSUME NEW f \in Frame, Hear(unit, f), f = ControllerHeartbeat
      PROVE  /\ heartbeat_seen' \in [Devices -> BOOLEAN]
             /\ heartbeat_misses' \in [Devices -> Nat]
             /\ shutdown_latched' \in [Devices -> BOOLEAN]
             /\ recent' \in [Devices -> Seq({"tick", "beat"})]
             /\ Counting'
  <2>1. /\ recent' = [recent EXCEPT ![unit] = Kept(calls, "beat")]
        /\ Kept(calls, "beat") \in Seq({"tick", "beat"})
        /\ Len(Kept(calls, "beat")) <= T + 1
    BY <1>2, <1>5 DEF Hear
  <2>2. HearController(unit)
    BY <1>1, <1>5, HearCounts
  <2>3. Settled
    BY <1>1, <2>1, <2>2, BeatStartsCount DEF HearController
  <2>. QED
    BY <1>1, <1>3, <2>1, <2>2, <2>3 DEF HearController
<1>6. ASSUME NEW f \in Frame, Hear(unit, f), f # ControllerHeartbeat
      PROVE  /\ heartbeat_seen' \in [Devices -> BOOLEAN]
             /\ heartbeat_misses' \in [Devices -> Nat]
             /\ shutdown_latched' \in [Devices -> BOOLEAN]
             /\ recent' \in [Devices -> Seq({"tick", "beat"})]
             /\ Counting'
  <2>1. recent' = recent
    BY <1>6 DEF Hear
  <2>2. /\ heartbeat_seen' = heartbeat_seen /\ heartbeat_misses' = heartbeat_misses
        /\ \/ shutdown_latched' = shutdown_latched
           \/ shutdown_latched' = [shutdown_latched EXCEPT ![unit] = TRUE]
    BY <1>1, <1>6, HearCounts DEF watchdogVars, Latch
  <2>3. Settled
    BY <1>1, <2>1, <2>2
  <2>. QED
    BY <1>1, <1>3, <2>1, <2>2, <2>3
<1>. QED
  BY <1>4, <1>5, <1>6 DEF Call

(* Every step preserves the invariant.                                     *)
LEMMA NextInv == Inv /\ [Next]_vars => Inv'
<1>. SUFFICES ASSUME Inv, [Next]_vars PROVE Inv'
  OBVIOUS
<1>. USE DEF Inv
<1>1. CASE Call
  <2>1. tx' \in [Devices -> Seq(Frame)]
    <3>1. PICK fs : Says(unit, fs)
      BY <1>1, CallSays
    <3>. QED
      BY <3>1, PushToEmpty DEF Says, TypeOK
  <2>2. unit' = unit
    BY <1>1 DEF Call, Tick, Hear
  <2>3. TypeOK'
    BY <1>1, <2>1, <2>2, CallCounting, CallImages, SlotTyped DEF TypeOK
  <2>. QED
    BY <1>1, <2>3, CallCounting, CallImages
<1>2. CASE Collect(unit)
  <2>1. TypeOK'
    <3>1. <<>> \in Seq(Frame)
      OBVIOUS
    <3>. QED
      BY <1>2, <3>1 DEF Collect, TypeOK, watchdogVars, visionVars, history
  <2>2. Counting' /\ OneVerdictPerImage'
    BY <1>2
    DEF Collect, Counting, OneVerdictPerImage, watchdogVars, visionVars, history
  <2>. QED
    BY <2>1, <2>2
<1>3. CASE HandImage
  <2>1. /\ has_pending_image' = TRUE
        /\ images' = images + 1
        /\ UNCHANGED <<watchdogVars, tx, unit, recent, commanded, verdicts>>
    BY <1>3 DEF HandImage, QueueImageInput
  <2>2. TypeOK'
    BY <2>1 DEF TypeOK, watchdogVars
  <2>3. Counting'
    BY <2>1 DEF Counting, watchdogVars
  <2>4. OneVerdictPerImage'
    BY <2>1 DEF OneVerdictPerImage, TypeOK
  <2>. QED
    BY <2>2, <2>3, <2>4
<1>4. CASE UNCHANGED vars
  BY <1>4
  DEF vars, watchdogVars, visionVars, history, TypeOK, Counting, OneVerdictPerImage
<1>. QED
  BY <1>1, <1>2, <1>3, <1>4 DEF Next

(* The invariant always holds.                                             *)
LEMMA InvAlways == Spec => []Inv
BY InitInv, NextInv, PTL DEF Spec

-----------------------------------------------------------------------------
(* However often an inspection fails and is asked for again, every verdict *)
(* uses up an image of its own.                                            *)
THEOREM VerdictPerImage == Spec => []OneVerdictPerImage
<1>1. Inv => OneVerdictPerImage
  BY DEF Inv
<1>. QED
  BY InvAlways, <1>1, PTL

(* A device that is up remembers the last heartbeat among its latest       *)
(* timeout + 1 calls, so one that has heard none among them is down.       *)
THEOREM SilenceStops == Spec => []DeafDeviceStops
<1>1. ASSUME Inv PROVE DeafDeviceStops
  <2>1. SUFFICES ASSUME NEW d \in Devices, heartbeat_seen[d], Deaf(recent[d]),
                        ~shutdown_latched[d]
                 PROVE  FALSE
    BY DEF DeafDeviceStops
  <2>2. /\ heartbeat_misses[d] \in Nat
        /\ Len(recent[d]) \in Nat
        /\ Len(recent[d]) <= ControllerHeartbeatTimeoutTicks + 1
        /\ heartbeat_misses[d] < ControllerHeartbeatTimeoutTicks
        /\ LastBeat(recent[d], heartbeat_misses[d])
    BY <1>1, <2>1, LenProperties DEF Inv, TypeOK, Counting
  <2>3. Len(recent[d]) - heartbeat_misses[d] \in 2 .. Len(recent[d])
    BY <2>1, <2>2, WatchdogAssumption DEF Deaf
  <2>4. recent[d][Len(recent[d]) - heartbeat_misses[d]] = "beat"
    BY <2>2 DEF LastBeat
  <2>5. recent[d][Len(recent[d]) - heartbeat_misses[d]] = "tick"
    BY <2>1, <2>3 DEF Deaf
  <2>. QED
    BY <2>4, <2>5
<1>. QED
  BY InvAlways, <1>1, PTL

(* A device stops only on command or after the full timeout of silence.    *)
THEOREM CauseOfStop == Spec => StopsOnlyWithCause
<1>1. ASSUME Inv, [Next]_vars, NEW d \in Devices,
             ~shutdown_latched[d], shutdown_latched'[d]
      PROVE  d \in commanded' \/ (heartbeat_seen[d] /\ Deaf(recent'[d]))
  <2>1. Call
    BY <1>1
    DEF Next, Collect, HandImage, QueueImageInput, vars, watchdogVars
  <2>2. /\ unit \in Devices
        /\ shutdown_latched \in [Devices -> BOOLEAN]
        /\ heartbeat_misses[d] \in Nat
        /\ recent \in [Devices -> Seq({"tick", "beat"})]
    BY <1>1 DEF Inv, TypeOK
  <2>3. CASE Tick(unit)
    <3>1. d = unit /\ WatchdogExpires(d)
      BY <1>1, <2>2, <2>3, TickCounts DEF watchdogVars
    <3>2. recent'[d] = Kept(recent[d], "tick")
      BY <2>2, <2>3, <3>1 DEF Tick, Remember, Kept
    <3>3. /\ heartbeat_misses[d] < ControllerHeartbeatTimeoutTicks
          /\ Len(recent[d]) <= ControllerHeartbeatTimeoutTicks + 1
          /\ LastBeat(recent[d], heartbeat_misses[d])
          /\ heartbeat_seen[d]
          /\ heartbeat_misses[d] + 1 >= ControllerHeartbeatTimeoutTicks
      BY <1>1, <3>1 DEF Inv, Counting, WatchdogExpires
    <3>4. Deaf(Kept(recent[d], "tick"))
      BY <2>2, <3>3, TickKeepsCount
    <3>. QED
      BY <3>2, <3>3, <3>4
  <2>4. ASSUME NEW f \in Frame, Hear(unit, f) PROVE d \in commanded'
    <3>1. /\ Latch(unit) /\ unit \in commanded'
      BY <1>1, <2>2, <2>4, HearCounts DEF HearController, watchdogVars
    <3>2. d = unit
      BY <1>1, <2>2, <3>1 DEF Latch
    <3>. QED
      BY <3>1, <3>2
  <2>. QED
    BY <2>1, <2>3, <2>4 DEF Call
<1>2. Inv /\ [Next]_vars =>
        [\A d \in Devices :
           ~shutdown_latched[d] /\ shutdown_latched'[d] =>
             d \in commanded' \/ (heartbeat_seen[d] /\ Deaf(recent'[d]))]_vars
  BY <1>1
<1>. QED
  BY InvAlways, <1>2, PTL DEF Spec, StopsOnlyWithCause

(* Nothing wakes a device that was shut down, and it says at most its last *)
(* words.                                                                  *)
THEOREM ShutdownIsFinal == Spec => ShutDeviceStaysQuiet
<1>1. ASSUME Inv, [Next]_vars, NEW d \in Devices, shutdown_latched[d]
      PROVE  /\ shutdown_latched'[d]
             /\ \A i \in Len(tx[d]) + 1 .. Len(tx'[d]) : tx'[d][i] \in LastWords(d)
  <2>1. /\ unit \in Devices
        /\ shutdown_latched \in [Devices -> BOOLEAN]
        /\ tx \in [Devices -> Seq(Frame)]
        /\ Len(tx[d]) \in Nat
    BY <1>1, LenProperties DEF Inv, TypeOK
  <2>2. ASSUME UNCHANGED <<shutdown_latched, tx>>
        PROVE  /\ shutdown_latched'[d]
               /\ \A i \in Len(tx[d]) + 1 .. Len(tx'[d]) : tx'[d][i] \in LastWords(d)
    BY <1>1, <2>1, <2>2
  <2>3. CASE Call
    <3>1. shutdown_latched'[d]
      <4>1. CASE Tick(unit)
        BY <1>1, <2>1, <4>1, TickCounts DEF watchdogVars
      <4>2. ASSUME NEW f \in Frame, Hear(unit, f) PROVE shutdown_latched'[d]
        BY <1>1, <2>1, <4>2, HearCounts DEF HearController, Latch, watchdogVars
      <4>. QED
        BY <2>3, <4>1, <4>2 DEF Call
    <3>2. PICK fs : /\ Says(unit, fs)
                    /\ shutdown_latched[unit] =>
                         \A i \in 1 .. Len(fs) : fs[i] \in LastWords(unit)
      BY <1>1, <2>3, CallSays DEF Inv
    <3>3. CASE d = unit
      <4>1. Len(tx[d]) = 0 /\ tx'[d] = PushAll(<<>>, fs)
        BY <2>1, <2>3, <3>2, <3>3 DEF Call, Says
      <4>2. ASSUME NEW i \in 1 .. Len(PushAll(<<>>, fs))
            PROVE  PushAll(<<>>, fs)[i] \in LastWords(d)
        <5>1. i \in 1 .. Len(fs) /\ PushAll(<<>>, fs)[i] = fs[i]
          BY <3>2, PushToEmpty DEF Says
        <5>. QED
          BY <1>1, <3>2, <3>3, <5>1
      <4>. QED
        BY <3>1, <4>1, <4>2
    <3>4. CASE d # unit
      BY <2>1, <3>1, <3>2, <3>4 DEF Says
    <3>. QED
      BY <3>3, <3>4
  <2>4. CASE Collect(unit)
    <3>1. shutdown_latched' = shutdown_latched
      BY <2>4 DEF Collect, watchdogVars
    <3>2. tx'[d] = tx[d] \/ Len(tx'[d]) = 0
      BY <2>1, <2>4 DEF Collect
    <3>. QED
      BY <1>1, <2>1, <3>1, <3>2
  <2>5. CASE HandImage
    BY <2>2, <2>5 DEF HandImage, QueueImageInput, watchdogVars
  <2>6. CASE UNCHANGED vars
    BY <2>2, <2>6 DEF vars, watchdogVars
  <2>. QED
    BY <1>1, <2>3, <2>4, <2>5, <2>6 DEF Next
<1>2. Inv /\ [Next]_vars =>
        [\A d \in Devices : shutdown_latched[d] =>
           /\ shutdown_latched'[d]
           /\ \A i \in Len(tx[d]) + 1 .. Len(tx'[d]) : tx'[d][i] \in LastWords(d)]_vars
  BY <1>1
<1>. QED
  BY InvAlways, <1>2, PTL DEF Spec, ShutDeviceStaysQuiet

=============================================================================
