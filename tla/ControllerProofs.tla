-------------------------- MODULE ControllerProofs --------------------------
(***************************************************************************)
(* The safety of the controller on any bus, for every target, timeout and  *)
(* buffer capacity.                                                        *)
(*                                                                         *)
(* None of the properties is inductive: they bound counters, and what a    *)
(* step does to a counter depends on the phase.  The strengthening says    *)
(* what each phase knows about every counter (Progress), what a controller *)
(* that was stopped in the middle still knows (Interrupted), and that the  *)
(* fault latch, the phase and the shutdown commands go together (Latched). *)
(***************************************************************************)
EXTENDS ControllerEnv, SequenceTheorems, TLAPS

Requested == issued["conveyor.RequestPartArrived"]
Picks == issued["robot.Pick"]
Places == issued["robot.Place"]
Removals == issued["robot.RemoveReject"]

Counts(req, pick, place, remove) ==
  /\ Requested = processed + req
  /\ Picks = accepted + pick
  /\ Places = accepted + place
  /\ Removals = rejected + remove

(* What the phase of a controller that has not faulted says.               *)
Progress ==
  /\ phase = "Boot" => Counts(0, 0, 0, 0) /\ ~bootstrapped /\ processed = 0
  /\ phase = "WaitingInspection" => Counts(1, 0, 0, 0)
  /\ phase = "WaitingPickComplete" => Counts(1, 1, 0, 0)
  /\ phase = "WaitingPlaceComplete" => Counts(1, 1, 1, 0)
  /\ phase = "WaitingRejectRemoval" => Counts(1, 0, 0, 1)
  /\ phase = "Finished" => Counts(0, 0, 0, 0) /\ processed = RunLength
  /\ phase \notin {"Boot", "Faulted"} => bootstrapped
  /\ phase \notin {"Finished", "Faulted"} => processed < RunLength

(* What is left of it when a fault interrupts the part.                    *)
Interrupted ==
  LET req == Requested - processed
      pick == Picks - accepted
      place == Places - accepted
      remove == Removals - rejected
  IN  /\ req \in {0, 1} /\ pick \in {0, 1} /\ place \in {0, 1} /\ remove \in {0, 1}
      /\ place <= pick
      /\ pick + remove <= req

ShutdownCommands == {"conveyor.Shutdown", "robot.Shutdown", "vision.Shutdown"}

Latched ==
  /\ fault_latched <=> phase = "Faulted"
  /\ \A c \in ShutdownCommands :
       issued[c] = IF phase = "Faulted" THEN 1 ELSE 0

(* A heartbeat that is due is missed before the controller faults, never   *)
(* after it.                                                               *)
Watching ==
  phase # "Faulted" =>
    \A d \in Devices : device_misses[d] < DeviceHeartbeatTimeoutTicks

(* Every part that was processed is accounted for.                         *)
Counted == processed = accepted + rejected /\ processed <= RunLength

Inv ==
  /\ TypeOK
  /\ Counted
  /\ Progress
  /\ Interrupted
  /\ Latched
  /\ Watching

-----------------------------------------------------------------------------
(* What the controller sends.                                              *)

(* A command is a frame, and different commands are different frames.      *)
LEMMA CommandIsFrame ==
  /\ \A c \in Commands : Command(c) \in Frame
  /\ \A c, d \in Commands : Command(c) = Command(d) <=> c = d
  /\ ControllerHeartbeat \in Frame
  /\ \A c \in Commands : Command(c) # ControllerHeartbeat
BY DEF Frame, CommandFrames, Command, ControllerHeartbeat, NoStatus

(* Pushing frames into a buffer keeps it a sequence of frames within its   *)
(* capacity, and pushing none leaves it alone.                             *)
LEMMA PushAllTyped ==
  ASSUME NEW q \in Seq(Frame), Len(q) <= QueueCapacity, NEW fs \in Seq(Frame)
  PROVE  /\ PushAll(q, fs) \in Seq(Frame)
         /\ Len(PushAll(q, fs)) <= QueueCapacity
<1>. DEFINE room == QueueCapacity - Len(q)
            kept == IF Len(fs) <= room THEN Len(fs) ELSE room
<1>1. room \in Nat /\ kept \in Nat /\ kept <= Len(fs) /\ kept <= room
  BY QueueCapacityAssumption, LenProperties
<1>2. \A i \in 1 .. kept : fs[i] \in Frame
  BY <1>1, LenProperties, ElementOfSeq
<1>3. SubSeq(fs, 1, kept) \in Seq(Frame) /\ Len(SubSeq(fs, 1, kept)) <= room
  BY <1>1, <1>2, SubSeqProperties
<1>4. /\ q \o SubSeq(fs, 1, kept) \in Seq(Frame)
      /\ Len(q \o SubSeq(fs, 1, kept)) = Len(q) + Len(SubSeq(fs, 1, kept))
  BY <1>3, ConcatProperties
<1>5. PushAll(q, fs) = q \o SubSeq(fs, 1, kept)
  BY DEF PushAll
<1>. QED
  BY <1>1, <1>3, <1>4, <1>5, QueueCapacityAssumption, LenProperties

(* Pushing nothing leaves a queue alone.                                   *)
LEMMA PushNone ==
  ASSUME NEW q \in Seq(Frame), Len(q) <= QueueCapacity
  PROVE  PushAll(q, <<>>) = q
<1>1. SubSeq(<<>>, 1, 0) = <<>>
  BY SubSeqEmpty
<1>2. 0 <= QueueCapacity - Len(q)
  BY QueueCapacityAssumption, LenProperties
<1>. QED
  BY <1>1, <1>2, ConcatEmptySeq DEF PushAll

(* What is mentioned in a concatenation is mentioned in one of its parts.  *)
LEMMA MentionsConcat ==
  ASSUME NEW s \in Seq(Frame), NEW t \in Seq(Frame), NEW c
  PROVE  Mentions(s \o t, c) <=> Mentions(s, c) \/ Mentions(t, c)
<1>1. /\ s \o t \in Seq(Frame)
      /\ Len(s \o t) = Len(s) + Len(t)
      /\ \A i \in 1 .. Len(s) + Len(t) :
           (s \o t)[i] = IF i <= Len(s) THEN s[i] ELSE t[i - Len(s)]
  BY ConcatProperties
<1>2. /\ DOMAIN s = 1 .. Len(s) /\ Len(s) \in Nat
      /\ DOMAIN t = 1 .. Len(t) /\ Len(t) \in Nat
      /\ DOMAIN (s \o t) = 1 .. Len(s) + Len(t)
  BY <1>1, LenProperties
<1>3. ASSUME Mentions(s \o t, c) PROVE Mentions(s, c) \/ Mentions(t, c)
  <2>1. PICK i \in 1 .. Len(s) + Len(t) : (s \o t)[i] = Command(c)
    BY <1>2, <1>3 DEF Mentions
  <2>2. CASE i <= Len(s)
    BY <1>1, <1>2, <2>1, <2>2 DEF Mentions
  <2>3. CASE ~(i <= Len(s))
    <3>1. i - Len(s) \in 1 .. Len(t) /\ t[i - Len(s)] = Command(c)
      BY <1>1, <1>2, <2>1, <2>3
    <3>. QED BY <1>2, <3>1 DEF Mentions
  <2>. QED BY <2>2, <2>3
<1>4. ASSUME Mentions(s, c) PROVE Mentions(s \o t, c)
  <2>1. PICK i \in 1 .. Len(s) : s[i] = Command(c)
    BY <1>2, <1>4 DEF Mentions
  <2>2. i \in 1 .. Len(s) + Len(t) /\ (s \o t)[i] = Command(c)
    BY <1>1, <1>2, <2>1
  <2>. QED BY <1>2, <2>2 DEF Mentions
<1>5. ASSUME Mentions(t, c) PROVE Mentions(s \o t, c)
  <2>1. PICK i \in 1 .. Len(t) : t[i] = Command(c)
    BY <1>2, <1>5 DEF Mentions
  <2>2. i + Len(s) \in 1 .. Len(s) + Len(t) /\ (s \o t)[i + Len(s)] = Command(c)
    BY <1>1, <1>2, <2>1
  <2>. QED BY <1>2, <2>2 DEF Mentions
<1>. QED
  BY <1>3, <1>4, <1>5

(* A sequence with one frame more mentions that frame.                     *)
LEMMA MentionsAppend ==
  ASSUME NEW s \in Seq(Frame), NEW f \in Frame, NEW c
  PROVE  /\ Append(s, f) \in Seq(Frame)
         /\ Mentions(Append(s, f), c) <=> Mentions(s, c) \/ f = Command(c)
<1>1. <<f>> \in Seq(Frame) /\ Append(s, f) = s \o <<f>>
  BY AppendIsConcat
<1>2. Mentions(<<f>>, c) <=> f = Command(c)
  BY DEF Mentions
<1>. QED
  BY <1>1, <1>2, MentionsConcat, ConcatProperties

-----------------------------------------------------------------------------
(* The commands among the frames of each kind of call.                     *)

StopCommands == ShutdownCommands \cup {"robot.Stop", "conveyor.Stop"}

(* The shutdown sequence carries the stop commands and no others.          *)
LEMMA ShutdownFramesSent ==
  /\ ShutdownFrames \in Seq(Frame)
  /\ \A c \in Commands : Mentions(ShutdownFrames, c) <=> c \in StopCommands
<1>1. StopCommands \subseteq Commands
  BY DEF StopCommands, ShutdownCommands, Commands, ConveyorCommands,
     RobotCommands, VisionCommands
<1>2. ShutdownFrames \in Seq(Frame)
  BY <1>1, CommandIsFrame DEF ShutdownFrames, StopCommands, ShutdownCommands
<1>3. ASSUME NEW c \in Commands
      PROVE  Mentions(ShutdownFrames, c) <=> c \in StopCommands
  <2>1. Mentions(ShutdownFrames, c) <=>
          \/ Command("conveyor.Shutdown") = Command(c)
          \/ Command("robot.Shutdown") = Command(c)
          \/ Command("vision.Shutdown") = Command(c)
          \/ Command("robot.Stop") = Command(c)
          \/ Command("conveyor.Stop") = Command(c)
    BY DEF Mentions, ShutdownFrames
  <2>. QED
    BY <1>1, <2>1, CommandIsFrame DEF StopCommands, ShutdownCommands
<1>. QED
  BY <1>2, <1>3

(* A heartbeat is no command.                                              *)
LEMMA HeartbeatSent ==
  /\ <<ControllerHeartbeat>> \in Seq(Frame)
  /\ \A c \in Commands : ~Mentions(<<ControllerHeartbeat>>, c)
BY CommandIsFrame DEF Mentions

(* No frame mentions no command.                                           *)
LEMMA NothingSent ==
  /\ <<>> \in Seq(Frame)
  /\ \A c : ~Mentions(<<>>, c)
BY DEF Mentions

(* A command mentions itself alone.                                        *)
LEMMA CommandSent ==
  ASSUME NEW d \in Commands
  PROVE  /\ <<Command(d)>> \in Seq(Frame)
         /\ \A c \in Commands : Mentions(<<Command(d)>>, c) <=> c = d
BY CommandIsFrame DEF Mentions

BootCommands == {"robot.Home", "conveyor.Start"}

(* The first tick sends home and start, and no other command.              *)
LEMMA BootFramesSent ==
  LET fs == <<ControllerHeartbeat, Command("robot.Home"), Command("conveyor.Start")>>
  IN  /\ fs \in Seq(Frame)
      /\ \A c \in Commands : Mentions(fs, c) <=> c \in BootCommands
<1>1. BootCommands \subseteq Commands
  BY DEF BootCommands, Commands, ConveyorCommands, RobotCommands
<1>. DEFINE fs == <<ControllerHeartbeat, Command("robot.Home"), Command("conveyor.Start")>>
<1>2. fs \in Seq(Frame)
  BY <1>1, CommandIsFrame DEF BootCommands
<1>3. ASSUME NEW c \in Commands PROVE Mentions(fs, c) <=> c \in BootCommands
  <2>1. Mentions(fs, c) <=> \/ ControllerHeartbeat = Command(c)
                            \/ Command("robot.Home") = Command(c)
                            \/ Command("conveyor.Start") = Command(c)
    BY DEF Mentions
  <2>. QED
    BY <1>1, <2>1, CommandIsFrame DEF BootCommands
<1>. QED
  BY <1>2, <1>3

-----------------------------------------------------------------------------
(* The effect of sending frames that mention the commands in C: buffer and *)
(* history keep their types, and exactly the commands in C are counted.    *)
LEMMA Sending ==
  ASSUME TypeOK, NEW fs \in Seq(Frame), NEW C,
         \A c \in Commands : Mentions(fs, c) <=> c \in C,
         ControllerSend(fs)
  PROVE  /\ tx' \in [{"controller"} -> Seq(Frame)]
         /\ Len(tx'["controller"]) <= QueueCapacity
         /\ issued' \in [Commands -> Nat]
         /\ \A c \in Commands :
              issued'[c] = IF c \in C THEN issued[c] + 1 ELSE issued[c]
<1>1. tx["controller"] \in Seq(Frame) /\ Len(tx["controller"]) <= QueueCapacity
  BY DEF TypeOK
<1>2. /\ PushAll(tx["controller"], fs) \in Seq(Frame)
      /\ Len(PushAll(tx["controller"], fs)) <= QueueCapacity
  BY <1>1, PushAllTyped
<1>3. tx' = [tx EXCEPT !["controller"] = PushAll(@, fs)]
  BY DEF ControllerSend, Send
<1>4. issued' = [c \in Commands |-> IF c \in C THEN issued[c] + 1 ELSE issued[c]]
  BY DEF ControllerSend
<1>. QED
  BY <1>2, <1>3, <1>4 DEF TypeOK, ControllerTypeOK

LineCommands == {"conveyor.RequestPartArrived", "robot.Pick", "robot.Place",
                 "robot.RemoveReject"}

(* The commands the invariant counts, apart from one another.              *)
LEMMA CountedCommands ==
  /\ LineCommands \subseteq Commands
  /\ ShutdownCommands \subseteq Commands
  /\ StopCommands \subseteq Commands
  /\ BootCommands \subseteq Commands
  /\ LineCommands \cap (StopCommands \cup BootCommands) = {}
  /\ ShutdownCommands \cap (LineCommands \cup BootCommands \cup
                            {"robot.Stop", "conveyor.Stop"}) = {}
BY DEF LineCommands, ShutdownCommands, StopCommands, BootCommands, Commands,
   ConveyorCommands, RobotCommands, VisionCommands

(* Entering the fault, with frames that command nothing sent before.       *)
LEMMA FaultInv ==
  ASSUME Inv, NEW sent \in Seq(Frame), \A c \in Commands : ~Mentions(sent, c),
         EnterFault(sent),
         UNCHANGED <<bootstrapped, processed, accepted, rejected>>,
         device_misses' \in [Devices -> 0 .. DeviceHeartbeatTimeoutTicks]
  PROVE  Inv'
<1>. DEFINE fs == IF fault_latched THEN sent ELSE sent \o ShutdownFrames
            C == IF fault_latched THEN {} ELSE StopCommands
<1>1. fs \in Seq(Frame) /\ \A c \in Commands : Mentions(fs, c) <=> c \in C
  BY ShutdownFramesSent, MentionsConcat, ConcatProperties
<1>2. ControllerSend(fs)
  BY DEF EnterFault
<1>3. /\ tx' \in [{"controller"} -> Seq(Frame)]
      /\ Len(tx'["controller"]) <= QueueCapacity
      /\ issued' \in [Commands -> Nat]
      /\ \A c \in Commands :
           issued'[c] = IF c \in C THEN issued[c] + 1 ELSE issued[c]
  <2>. HIDE DEF fs, C
  <2>. QED BY <1>1, <1>2, Sending DEF Inv
<1>4. phase' = "Faulted" /\ fault_latched' = TRUE
  BY DEF EnterFault
<1>5. TypeOK'
  BY <1>3, <1>4 DEF Inv, TypeOK, ControllerTypeOK, Phases
<1>6. UNCHANGED <<Requested, Picks, Places, Removals>>
  BY <1>3, CountedCommands
  DEF Requested, Picks, Places, Removals, LineCommands, Inv, TypeOK, ControllerTypeOK
<1>7. Progress' /\ Interrupted'
  BY <1>4, <1>6 DEF Inv, Progress, Interrupted
<1>8. Latched'
  BY <1>3, <1>4, CountedCommands
  DEF Inv, Latched, StopCommands, TypeOK, ControllerTypeOK
<1>9. Counted' /\ Watching'
  BY <1>4 DEF Inv, Counted, RunLength, Watching
<1>. QED
  BY <1>5, <1>7, <1>8, <1>9 DEF Inv

(* What a phase knows covers what a fault leaves.                          *)
LEMMA ProgressInterrupted ==
  TypeOK /\ Progress /\ phase # "Faulted" => Interrupted
<1>. SUFFICES ASSUME TypeOK, Progress, phase # "Faulted" PROVE Interrupted
  OBVIOUS
<1>1. Requested \in Nat /\ Picks \in Nat /\ Places \in Nat /\ Removals \in Nat
  BY CountedCommands
  DEF LineCommands, Requested, Picks, Places, Removals, TypeOK, ControllerTypeOK
<1>2. \/ Counts(0, 0, 0, 0) \/ Counts(1, 0, 0, 0) \/ Counts(1, 1, 0, 0)
      \/ Counts(1, 1, 1, 0) \/ Counts(1, 0, 0, 1)
  BY DEF Progress, Phases, TypeOK, ControllerTypeOK
<1>. QED
  BY <1>1, <1>2 DEF Counts, Interrupted, TypeOK, ControllerTypeOK

(* The same of the next state.                                             *)
LEMMA ProgressInterruptedNext ==
  (TypeOK /\ Progress /\ phase # "Faulted" => Interrupted)'
BY ProgressInterrupted, PTL

(* A controller that sends without faulting: what is left to show is the   *)
(* progress of the phase it goes to.                                       *)
LEMMA SendInv ==
  ASSUME Inv, phase # "Faulted", phase' \in Phases \ {"Faulted"},
         NEW fs \in Seq(Frame), NEW C, C \cap ShutdownCommands = {},
         \A c \in Commands : Mentions(fs, c) <=> c \in C,
         ControllerSend(fs),
         bootstrapped' \in BOOLEAN, UNCHANGED fault_latched,
         processed' \in Nat, accepted' \in Nat, rejected' \in Nat, Counted',
         device_misses' \in [Devices -> 0 .. DeviceHeartbeatTimeoutTicks - 1],
         (\A c \in LineCommands :
            issued'[c] = IF c \in C THEN issued[c] + 1 ELSE issued[c])
           => Progress'
  PROVE  Inv'
<1>1. /\ tx' \in [{"controller"} -> Seq(Frame)]
      /\ Len(tx'["controller"]) <= QueueCapacity
      /\ issued' \in [Commands -> Nat]
      /\ \A c \in Commands :
           issued'[c] = IF c \in C THEN issued[c] + 1 ELSE issued[c]
  BY Sending DEF Inv
<1>2. Progress'
  BY <1>1, CountedCommands
<1>3. /\ device_misses' \in [Devices -> 0 .. DeviceHeartbeatTimeoutTicks]
      /\ \A d \in Devices : device_misses'[d] < DeviceHeartbeatTimeoutTicks
  <2>1. ASSUME NEW d \in Devices
        PROVE  /\ device_misses'[d] \in 0 .. DeviceHeartbeatTimeoutTicks
               /\ device_misses'[d] < DeviceHeartbeatTimeoutTicks
    <3>1. PICK n \in 0 .. DeviceHeartbeatTimeoutTicks - 1 : device_misses'[d] = n
      OBVIOUS
    <3>. QED BY <3>1, ControllerAssumption
  <2>. QED BY <2>1
<1>4. TypeOK' /\ Watching'
  BY <1>1, <1>3 DEF Inv, TypeOK, ControllerTypeOK, Watching
<1>5. Interrupted'
  BY <1>2, <1>4, ProgressInterruptedNext
<1>6. Latched'
  BY <1>1, CountedCommands DEF Inv, Latched
<1>. QED
  BY <1>2, <1>4, <1>5, <1>6 DEF Inv

-----------------------------------------------------------------------------
(* The initial state.                                                      *)
LEMMA InitInv == Init => Inv
<1>. SUFFICES ASSUME Init PROVE Inv
  OBVIOUS
<1>1. TypeOK /\ Watching
  <2>1. ControllerTypeOK /\ Watching
    <3>1. /\ 0 \in 0 .. DeviceHeartbeatTimeoutTicks
          /\ 0 < DeviceHeartbeatTimeoutTicks
      BY ControllerAssumption
    <3>2. /\ device_misses = [d \in Devices |-> 0]
          /\ issued = [c \in Commands |-> 0]
      BY DEF Init, ControllerInit
    <3>3. /\ device_misses \in [Devices -> 0 .. DeviceHeartbeatTimeoutTicks]
          /\ issued \in [Commands -> Nat]
          /\ \A d \in Devices : device_misses[d] < DeviceHeartbeatTimeoutTicks
      BY <3>1, <3>2
    <3>. QED
      BY <3>3 DEF Init, ControllerInit, ControllerTypeOK, Phases, Watching
  <2>2. tx["controller"] = <<>> /\ tx \in [{"controller"} -> Seq(Frame)]
    BY EmptySeq DEF Init
  <2>. QED
    BY <2>1, <2>2, QueueCapacityAssumption, EmptySeq DEF TypeOK
<1>2. \A c \in LineCommands \cup ShutdownCommands : issued[c] = 0
  BY CountedCommands DEF Init, ControllerInit
<1>3. Requested = 0 /\ Picks = 0 /\ Places = 0 /\ Removals = 0
  BY <1>2 DEF LineCommands, Requested, Picks, Places, Removals
<1>4. RunLength \in Nat /\ 0 < RunLength
  BY ControllerAssumption DEF RunLength
<1>5. Progress /\ Interrupted
  BY <1>3, <1>4 DEF Init, ControllerInit, Progress, Counts, Interrupted
<1>6. Latched
  BY <1>2 DEF Init, ControllerInit, Latched
<1>. QED
  BY <1>1, <1>4, <1>5, <1>6 DEF Inv, Counted, Init, ControllerInit

(* A step that leaves the controller alone, but for what it has sent.      *)
LEMMA IdleInv ==
  ASSUME Inv, UNCHANGED <<phase, bootstrapped, fault_latched, processed,
                          accepted, rejected, issued>>,
         TypeOK', Watching'
  PROVE  Inv'
BY DEF Inv, Progress, Counts, Counted, Interrupted, Latched, RunLength, Requested,
   Picks, Places, Removals

(* No watchdog of a controller that has not faulted is at its timeout.     *)
LEMMA MissesBelowTimeout ==
  ASSUME Inv, phase # "Faulted"
  PROVE  device_misses \in [Devices -> 0 .. DeviceHeartbeatTimeoutTicks - 1]
<1>1. ASSUME NEW d \in Devices
      PROVE  device_misses[d] \in 0 .. DeviceHeartbeatTimeoutTicks - 1
  <2>1. /\ device_misses[d] \in 0 .. DeviceHeartbeatTimeoutTicks
        /\ device_misses[d] < DeviceHeartbeatTimeoutTicks
    BY DEF Inv, TypeOK, ControllerTypeOK, Watching
  <2>. QED BY <2>1, ControllerAssumption
<1>. QED
  BY <1>1 DEF Inv, TypeOK, ControllerTypeOK

(* A tick of the controller: it watches the heartbeats, beats, and starts  *)
(* the line the first time.                                                *)
LEMMA TickInv == ASSUME Inv, RunningTick PROVE Inv'
<1>1. device_misses' = [d \in Devices |-> device_misses[d] + 1]
      /\ UNCHANGED <<processed, accepted, rejected>>
  BY DEF RunningTick
<1>2. phase \in Phases \ {"Finished", "Faulted"}
  BY DEF RunningTick, Stopped, Inv, TypeOK, ControllerTypeOK
<1>3. \A d \in Devices : device_misses[d] \in 0 .. DeviceHeartbeatTimeoutTicks - 1
  BY <1>2, MissesBelowTimeout
<1>4. CASE HeartbeatLost
  <2>1. EnterFault(<<ControllerHeartbeat>>) /\ UNCHANGED bootstrapped
    BY <1>4 DEF RunningTick
  <2>2. device_misses' \in [Devices -> 0 .. DeviceHeartbeatTimeoutTicks]
    BY <1>1, <1>3, ControllerAssumption
  <2>. QED
    BY <1>1, <2>1, <2>2, HeartbeatSent, FaultInv
<1>5. ASSUME ~HeartbeatLost
      PROVE  device_misses' \in [Devices -> 0 .. DeviceHeartbeatTimeoutTicks - 1]
  BY <1>1, <1>3, <1>5, ControllerAssumption DEF HeartbeatLost
<1>6. CASE ~HeartbeatLost /\ bootstrapped
  <2>1. ControllerSend(<<ControllerHeartbeat>>)
        /\ UNCHANGED <<phase, bootstrapped, fault_latched>>
    BY <1>6 DEF RunningTick
  <2>2. (\A c \in LineCommands : issued'[c] = issued[c]) => Progress'
    BY <1>1, <2>1 DEF Inv, Progress, Counts, LineCommands, Requested, Picks,
       Places, Removals, RunLength
  <2>. DEFINE C == {}
  <2>3. /\ C \cap ShutdownCommands = {}
        /\ \A c \in Commands : Mentions(<<ControllerHeartbeat>>, c) <=> c \in C
        /\ (\A c \in LineCommands :
              issued'[c] = IF c \in C THEN issued[c] + 1 ELSE issued[c])
             => Progress'
    BY <2>2, HeartbeatSent
  <2>4. /\ phase' \in Phases \ {"Faulted"} /\ bootstrapped' \in BOOLEAN
        /\ processed' \in Nat /\ accepted' \in Nat /\ rejected' \in Nat
        /\ Counted'
    BY <1>1, <1>2, <2>1 DEF Inv, TypeOK, ControllerTypeOK, Counted, RunLength
  <2>. HIDE DEF C
  <2>. QED
    BY <1>2, <1>5, <1>6, <2>1, <2>3, <2>4, HeartbeatSent, SendInv
<1>7. CASE ~HeartbeatLost /\ ~bootstrapped
  <2>. DEFINE C == BootCommands \cup {"conveyor.RequestPartArrived"}
              boot == <<ControllerHeartbeat, Command("robot.Home"),
                        Command("conveyor.Start")>>
              fs == Append(boot, Command("conveyor.RequestPartArrived"))
  <2>1. /\ ControllerSend(fs)
        /\ phase' = "WaitingInspection"
        /\ bootstrapped' = TRUE
        /\ UNCHANGED fault_latched
    BY <1>7 DEF RunningTick, RequestNextPart
  <2>2. "conveyor.RequestPartArrived" \in Commands
    BY CountedCommands DEF LineCommands
  <2>3. boot \in Seq(Frame)
        /\ \A c \in Commands : Mentions(boot, c) <=> c \in BootCommands
    BY BootFramesSent
  <2>4. fs \in Seq(Frame) /\ \A c \in Commands : Mentions(fs, c) <=> c \in C
    <3>. HIDE DEF boot
    <3>. QED BY <2>2, <2>3, MentionsAppend, CommandIsFrame
  <2>5. phase = "Boot"
    BY <1>2, <1>7 DEF Inv, Progress
  <2>6. (\A c \in LineCommands :
           issued'[c] = IF c \in C THEN issued[c] + 1 ELSE issued[c])
          => Progress'
    <3>. SUFFICES ASSUME \A c \in LineCommands :
                           issued'[c] = IF c \in C THEN issued[c] + 1 ELSE issued[c]
                  PROVE  Progress'
      OBVIOUS
    <3>1. Counts(0, 0, 0, 0) /\ processed < RunLength
      BY <2>5 DEF Inv, Progress
    <3>2. /\ issued'["conveyor.RequestPartArrived"] =
               issued["conveyor.RequestPartArrived"] + 1
          /\ UNCHANGED <<Picks, Places, Removals>>
      BY CountedCommands DEF LineCommands, BootCommands, Picks, Places, Removals
    <3>3. Counts(1, 0, 0, 0)' /\ (processed < RunLength)'
      BY <1>1, <3>1, <3>2
      DEF Counts, Requested, RunLength, Inv, TypeOK, ControllerTypeOK
    <3>. QED
      BY <2>1, <3>3 DEF Progress
  <2>7. C \cap ShutdownCommands = {}
    BY CountedCommands DEF LineCommands
  <2>8. /\ phase' \in Phases \ {"Faulted"} /\ bootstrapped' \in BOOLEAN
        /\ processed' \in Nat /\ accepted' \in Nat /\ rejected' \in Nat
        /\ Counted'
    BY <1>1, <2>1 DEF Inv, TypeOK, ControllerTypeOK, Phases, Counted, RunLength
  <2>. HIDE DEF C, fs
  <2>. QED
    BY <1>2, <1>5, <1>7, <2>1, <2>4, <2>6, <2>7, <2>8, SendInv
<1>. QED
  BY <1>4, <1>6, <1>7

-----------------------------------------------------------------------------
(* A sign of life from a device.                                           *)
LEMMA AliveInv == ASSUME Inv, NEW d \in Devices, DeviceAlive(d) PROVE Inv'
<1>1. /\ device_misses \in [Devices -> 0 .. DeviceHeartbeatTimeoutTicks]
      /\ device_misses' = [device_misses EXCEPT ![d] = 0]
      /\ UNCHANGED <<phase, bootstrapped, fault_latched, processed, accepted,
                     rejected, issued, tx>>
  BY DEF DeviceAlive, Inv, TypeOK, ControllerTypeOK
<1>2. 0 \in 0 .. DeviceHeartbeatTimeoutTicks /\ 0 < DeviceHeartbeatTimeoutTicks
  BY ControllerAssumption
<1>3. TypeOK' /\ Watching'
  BY <1>1, <1>2 DEF Inv, TypeOK, ControllerTypeOK, Watching
<1>. QED
  BY <1>1, <1>3, IdleInv

(* The report of a failure.                                                *)
LEMMA DeviceFaultInv == ASSUME Inv, DeviceFault PROVE Inv'
<1>1. /\ EnterFault(<<>>)
      /\ UNCHANGED <<bootstrapped, processed, accepted, rejected, device_misses>>
  BY DEF DeviceFault
<1>2. device_misses' \in [Devices -> 0 .. DeviceHeartbeatTimeoutTicks]
  BY <1>1 DEF Inv, TypeOK, ControllerTypeOK
<1>. QED
  BY <1>1, <1>2, NothingSent, FaultInv

(* A frame that is of no interest.                                         *)
LEMMA IgnoreInv == ASSUME Inv, Ignore PROVE Inv'
BY IdleInv DEF Ignore, controllerVars, Inv, TypeOK, ControllerTypeOK, Watching

(* The bus takes a frame out of the output buffer.                         *)
LEMMA DrainInv == ASSUME Inv, Drain PROVE Inv'
<1>1. /\ tx["controller"] \in Seq(Frame) /\ tx["controller"] # <<>>
      /\ Len(tx["controller"]) <= QueueCapacity
      /\ tx' = [tx EXCEPT !["controller"] = Tail(@)]
      /\ UNCHANGED controllerVars
  BY DEF Drain, Inv, TypeOK
<1>2. /\ Tail(tx["controller"]) \in Seq(Frame)
      /\ Len(Tail(tx["controller"])) <= QueueCapacity
  BY <1>1, HeadTailProperties, LenProperties, QueueCapacityAssumption
<1>3. TypeOK' /\ Watching'
  BY <1>1, <1>2 DEF controllerVars, Inv, TypeOK, ControllerTypeOK, Watching
<1>. QED
  BY <1>1, <1>3, IdleInv DEF controllerVars

(* The commands of a part, one for each phase it goes on to.               *)
LEMMA InstructInv ==
  ASSUME Inv, NEW command, NEW waiting, Instruct(command, waiting),
         \/ /\ phase = "WaitingInspection"
            /\ command = "robot.Pick" /\ waiting = "WaitingPickComplete"
         \/ /\ phase = "WaitingInspection"
            /\ command = "robot.RemoveReject" /\ waiting = "WaitingRejectRemoval"
         \/ /\ phase = "WaitingPickComplete"
            /\ command = "robot.Place" /\ waiting = "WaitingPlaceComplete"
  PROVE  Inv'
<1>. DEFINE fs == <<Command(command)>>
            C == {command}
<1>1. /\ ControllerSend(fs) /\ phase' = waiting
      /\ UNCHANGED <<bootstrapped, fault_latched, processed, accepted, rejected,
                     device_misses>>
  BY DEF Instruct
<1>2. command \in Commands /\ command \in LineCommands
  BY CountedCommands DEF LineCommands
<1>3. fs \in Seq(Frame) /\ \A c \in Commands : Mentions(fs, c) <=> c \in C
  BY <1>2, CommandSent
<1>4. C \cap ShutdownCommands = {}
  BY <1>2, CountedCommands
<1>5. (\A c \in LineCommands :
         issued'[c] = IF c \in C THEN issued[c] + 1 ELSE issued[c]) => Progress'
  <2>. SUFFICES ASSUME \A c \in LineCommands :
                         issued'[c] = IF c \in C THEN issued[c] + 1 ELSE issued[c]
                PROVE  Progress'
    OBVIOUS
  <2>1. /\ issued'["conveyor.RequestPartArrived"] =
             issued["conveyor.RequestPartArrived"]
        /\ issued'["robot.Pick"] =
             IF command = "robot.Pick" THEN issued["robot.Pick"] + 1
                                       ELSE issued["robot.Pick"]
        /\ issued'["robot.Place"] =
             IF command = "robot.Place" THEN issued["robot.Place"] + 1
                                        ELSE issued["robot.Place"]
        /\ issued'["robot.RemoveReject"] =
             IF command = "robot.RemoveReject" THEN issued["robot.RemoveReject"] + 1
                                               ELSE issued["robot.RemoveReject"]
    BY DEF LineCommands
  <2>2. Progress /\ processed \in Nat /\ accepted \in Nat /\ rejected \in Nat
    BY DEF Inv, TypeOK, ControllerTypeOK
  <2>. QED
    BY <1>1, <2>1, <2>2
    DEF Progress, Counts, RunLength, Requested, Picks, Places, Removals
<1>6. /\ phase # "Faulted" /\ phase' \in Phases \ {"Faulted"}
      /\ bootstrapped' \in BOOLEAN
      /\ processed' \in Nat /\ accepted' \in Nat /\ rejected' \in Nat
      /\ Counted'
  BY <1>1 DEF Inv, TypeOK, ControllerTypeOK, Phases, Counted, RunLength
<1>7. device_misses' \in [Devices -> 0 .. DeviceHeartbeatTimeoutTicks - 1]
  BY <1>1, <1>6, MissesBelowTimeout
<1>. HIDE DEF fs, C
<1>. QED
  BY <1>1, <1>3, <1>4, <1>5, <1>6, <1>7, SendInv

(* The last result of a part: one more is counted, and the run is over or  *)
(* the next part is requested.                                             *)
LEMMA CompleteInv ==
  ASSUME Inv, CompleteCycle,
         \/ /\ phase = "WaitingPlaceComplete"
            /\ accepted' = accepted + 1 /\ UNCHANGED rejected
         \/ /\ phase = "WaitingRejectRemoval"
            /\ rejected' = rejected + 1 /\ UNCHANGED accepted
  PROVE  Inv'
<1>1. /\ processed' = processed + 1
      /\ UNCHANGED <<bootstrapped, fault_latched, device_misses>>
  BY DEF CompleteCycle
<1>2. /\ phase # "Faulted" /\ bootstrapped' = TRUE
      /\ processed \in Nat /\ accepted \in Nat /\ rejected \in Nat
      /\ processed = accepted + rejected
      /\ processed < RunLength
      /\ Counts(1, 1, 1, 0) \/ Counts(1, 0, 0, 1)
      /\ phase = "WaitingPlaceComplete" => Counts(1, 1, 1, 0)
      /\ phase = "WaitingRejectRemoval" => Counts(1, 0, 0, 1)
  BY <1>1 DEF Inv, Progress, Counted, TypeOK, ControllerTypeOK
<1>3. Counted'
  BY <1>1, <1>2, ControllerAssumption DEF Counted, RunLength
<1>4. processed' \in Nat /\ accepted' \in Nat /\ rejected' \in Nat
  BY <1>1, <1>2
<1>5. device_misses' \in [Devices -> 0 .. DeviceHeartbeatTimeoutTicks - 1]
  BY <1>1, <1>2, MissesBelowTimeout
<1>6. CASE processed + 1 >= TargetCycles
  <2>. DEFINE fs == <<Command("conveyor.Stop")>>
              C == {"conveyor.Stop"}
  <2>1. ControllerSend(fs) /\ phase' = "Finished"
    BY <1>6 DEF CompleteCycle, FinishRun
  <2>2. fs \in Seq(Frame) /\ \A c \in Commands : Mentions(fs, c) <=> c \in C
    BY CommandSent, CountedCommands DEF StopCommands
  <2>3. C \cap ShutdownCommands = {} /\ C \cap LineCommands = {}
    BY CountedCommands DEF StopCommands
  <2>4. ASSUME \A c \in LineCommands :
                 issued'[c] = IF c \in C THEN issued[c] + 1 ELSE issued[c]
        PROVE  Progress'
    <3>1. /\ issued'["conveyor.RequestPartArrived"] =
               issued["conveyor.RequestPartArrived"]
          /\ issued'["robot.Pick"] = issued["robot.Pick"]
          /\ issued'["robot.Place"] = issued["robot.Place"]
          /\ issued'["robot.RemoveReject"] = issued["robot.RemoveReject"]
      BY <2>3, <2>4 DEF LineCommands
    <3>2. Counts(0, 0, 0, 0)'
      BY <1>1, <1>2, <3>1 DEF Counts, Requested, Picks, Places, Removals
    <3>3. processed' = RunLength /\ RunLength' = RunLength
      BY <1>1, <1>2, <1>6, ControllerAssumption DEF RunLength
    <3>. QED
      BY <1>2, <2>1, <3>2, <3>3 DEF Progress
  <2>5. phase' \in Phases \ {"Faulted"} /\ bootstrapped' \in BOOLEAN
    BY <1>2, <2>1 DEF Phases
  <2>. HIDE DEF fs, C
  <2>. QED
    BY <1>1, <1>2, <1>3, <1>4, <1>5, <2>1, <2>2, <2>3, <2>4, <2>5, SendInv
<1>7. CASE ~(processed + 1 >= TargetCycles)
  <2>. DEFINE fs == Append(<<>>, Command("conveyor.RequestPartArrived"))
              C == {"conveyor.RequestPartArrived"}
  <2>1. ControllerSend(fs) /\ phase' = "WaitingInspection"
    BY <1>7 DEF CompleteCycle, RequestNextPart
  <2>2. "conveyor.RequestPartArrived" \in Commands
    BY CountedCommands DEF LineCommands
  <2>3. fs \in Seq(Frame) /\ \A c \in Commands : Mentions(fs, c) <=> c \in C
    BY <2>2, NothingSent, MentionsAppend, CommandIsFrame
  <2>4. C \cap ShutdownCommands = {}
    BY CountedCommands DEF LineCommands
  <2>5. ASSUME \A c \in LineCommands :
                 issued'[c] = IF c \in C THEN issued[c] + 1 ELSE issued[c]
        PROVE  Progress'
    <3>1. /\ issued'["conveyor.RequestPartArrived"] =
               issued["conveyor.RequestPartArrived"] + 1
          /\ issued'["robot.Pick"] = issued["robot.Pick"]
          /\ issued'["robot.Place"] = issued["robot.Place"]
          /\ issued'["robot.RemoveReject"] = issued["robot.RemoveReject"]
      BY <2>5 DEF LineCommands
    <3>2. Counts(1, 0, 0, 0)'
      BY <1>1, <1>2, <3>1 DEF Counts, Requested, Picks, Places, Removals
    <3>3. (processed < RunLength)'
      BY <1>1, <1>2, <1>7, ControllerAssumption DEF RunLength
    <3>. QED
      BY <1>2, <2>1, <3>2, <3>3 DEF Progress
  <2>6. phase' \in Phases \ {"Faulted"} /\ bootstrapped' \in BOOLEAN
    BY <1>2, <2>1 DEF Phases
  <2>. HIDE DEF fs, C
  <2>. QED
    BY <1>1, <1>2, <1>3, <1>4, <1>5, <2>1, <2>3, <2>4, <2>5, <2>6, SendInv
<1>. QED
  BY <1>6, <1>7

(* Any frame, whoever sent it.                                             *)
LEMMA ReceiveInv == ASSUME Inv, NEW f \in Frame, ControllerReceive(f) PROVE Inv'
<1>1. ASSUME NEW m, HandleVisionStatus(m) PROVE Inv'
  <2>1. CASE DeviceAlive("vision")
    BY <2>1, AliveInv DEF Devices
  <2>2. CASE DeviceFault
    BY <2>2, DeviceFaultInv
  <2>3. CASE phase = "WaitingInspection" /\ Instruct("robot.Pick", "WaitingPickComplete")
    BY <2>3, InstructInv
  <2>4. CASE /\ phase = "WaitingInspection"
             /\ Instruct("robot.RemoveReject", "WaitingRejectRemoval")
    BY <2>4, InstructInv
  <2>5. CASE Ignore
    BY <2>5, IgnoreInv
  <2>. QED
    BY <1>1, <2>1, <2>2, <2>3, <2>4, <2>5 DEF HandleVisionStatus
<1>2. ASSUME NEW m, HandleRobotStatus(m) PROVE Inv'
  <2>1. CASE DeviceAlive("robot")
    BY <2>1, AliveInv DEF Devices
  <2>2. CASE DeviceFault
    BY <2>2, DeviceFaultInv
  <2>3. CASE phase = "WaitingPickComplete" /\ Instruct("robot.Place", "WaitingPlaceComplete")
    BY <2>3, InstructInv
  <2>4. CASE /\ phase = "WaitingPlaceComplete" /\ accepted' = accepted + 1
             /\ CompleteCycle /\ UNCHANGED rejected
    BY <2>4, CompleteInv
  <2>5. CASE /\ phase = "WaitingRejectRemoval" /\ rejected' = rejected + 1
             /\ CompleteCycle /\ UNCHANGED accepted
    BY <2>5, CompleteInv
  <2>6. CASE Ignore
    BY <2>6, IgnoreInv
  <2>. QED
    BY <1>2, <2>1, <2>2, <2>3, <2>4, <2>5, <2>6 DEF HandleRobotStatus
<1>3. ASSUME NEW m, HandleConveyorStatus(m) PROVE Inv'
  <2>1. CASE DeviceAlive("conveyor")
    BY <2>1, AliveInv DEF Devices
  <2>2. CASE DeviceFault
    BY <2>2, DeviceFaultInv
  <2>. QED
    BY <1>3, <2>1, <2>2 DEF HandleConveyorStatus
<1>4. ASSUME Ignore PROVE Inv'
  BY <1>4, IgnoreInv
<1>. QED
  BY <1>1, <1>2, <1>3, <1>4 DEF ControllerReceive

(* Every step preserves the invariant.                                     *)
LEMMA NextInv == Inv /\ [Next]_vars => Inv'
<1>. SUFFICES ASSUME Inv, [Next]_vars PROVE Inv'
  OBVIOUS
<1>1. CASE ControllerTick
  <2>1. CASE RunningTick
    BY <2>1, TickInv
  <2>2. CASE Ignore
    BY <2>2, IgnoreInv
  <2>. QED
    BY <1>1, <2>1, <2>2 DEF ControllerTick
<1>2. ASSUME NEW f \in Frame, ControllerReceive(f) PROVE Inv'
  BY <1>2, ReceiveInv
<1>3. CASE Drain
  BY <1>3, DrainInv
<1>4. CASE UNCHANGED vars
  BY <1>4, IgnoreInv DEF vars, Ignore
<1>. QED
  BY <1>1, <1>2, <1>3, <1>4 DEF Next

(* The invariant always holds.                                             *)
LEMMA InvAlways == Spec => []Inv
BY InitInv, NextInv, PTL DEF Spec

-----------------------------------------------------------------------------
(* Type correctness of the controller on any bus.                          *)
THEOREM ControllerTypeCorrect == Spec => []TypeOK
<1>1. Inv => TypeOK
  BY DEF Inv
<1>. QED
  BY InvAlways, <1>1, PTL

(* Every processed part was accepted or rejected, no run goes past its     *)
(* target, and a run is Finished exactly when it reached it.               *)
THEOREM PartsAccounted == Spec => []Accounting
<1>1. Inv => Accounting
  BY DEF Inv, Accounting, Counted, Progress
<1>. QED
  BY InvAlways, <1>1, PTL

(* No delivery whatever makes the controller command a part twice.         *)
THEOREM NoCommandTwice == Spec => []CommandsOncePerPart
<1>1. ASSUME Inv PROVE CommandsOncePerPart
  <2>1. /\ Requested \in Nat /\ Picks \in Nat /\ Places \in Nat /\ Removals \in Nat
        /\ processed \in Nat /\ accepted \in Nat /\ rejected \in Nat
        /\ processed = accepted + rejected
    BY <1>1, CountedCommands
    DEF Inv, TypeOK, ControllerTypeOK, Counted, LineCommands, Requested, Picks,
        Places, Removals
  <2>2. /\ Requested - processed \in {0, 1}
        /\ Picks - accepted \in {0, 1}
        /\ Places - accepted \in {0, 1}
        /\ Removals - rejected \in {0, 1}
        /\ Places - accepted <= Picks - accepted
        /\ (Picks - accepted) + (Removals - rejected) <= Requested - processed
    BY <1>1 DEF Inv, Interrupted
  <2>3. Places <= Picks /\ Picks + Removals <= Requested
    BY <2>1, <2>2
  <2>. QED
    BY <2>2, <2>3 DEF CommandsOncePerPart, Requested, Picks, Places, Removals
<1>. QED
  BY InvAlways, <1>1, PTL

(* A fault shuts every device down exactly once, and nothing else does.    *)
THEOREM ShutdownExactlyOnce == Spec => []ShutdownOncePerFault
<1>1. Inv => ShutdownOncePerFault
  BY DEF Inv, Latched, ShutdownOncePerFault, In, ShutdownCommands
<1>. QED
  BY InvAlways, <1>1, PTL

(* Once faulted, the controller stays faulted and sends nothing more.      *)
THEOREM FaultIsFinal == Spec => SilentAfterFault
<1>1. ASSUME Inv, [Next]_vars, phase = "Faulted"
      PROVE  phase' = "Faulted" /\ Len(tx'["controller"]) <= Len(tx["controller"])
  <2>1. /\ tx \in [{"controller"} -> Seq(Frame)] /\ fault_latched
        /\ tx["controller"] \in Seq(Frame)
        /\ Len(tx["controller"]) <= QueueCapacity
    BY <1>1 DEF Inv, TypeOK, Latched
  <2>2. ASSUME UNCHANGED <<phase, tx>>
        PROVE  phase' = "Faulted" /\ Len(tx'["controller"]) <= Len(tx["controller"])
    BY <1>1, <2>1, <2>2, LenProperties
  <2>3. ASSUME DeviceFault
        PROVE  phase' = "Faulted" /\ Len(tx'["controller"]) <= Len(tx["controller"])
    <3>1. phase' = "Faulted" /\ tx' = [tx EXCEPT !["controller"] = PushAll(@, <<>>)]
      BY <2>1, <2>3 DEF DeviceFault, EnterFault, ControllerSend, Send
    <3>2. tx'["controller"] = tx["controller"]
      BY <2>1, <3>1, PushNone
    <3>. QED
      BY <2>1, <3>1, <3>2, LenProperties
  <2>4. ASSUME NEW f \in Frame, ControllerReceive(f)
        PROVE  DeviceFault \/ UNCHANGED <<phase, tx>>
    BY <1>1, <2>4
    DEF ControllerReceive, HandleVisionStatus, HandleRobotStatus,
        HandleConveyorStatus, DeviceAlive, Ignore, controllerVars
  <2>5. CASE ControllerTick
    BY <1>1, <2>2, <2>5 DEF ControllerTick, RunningTick, Stopped, Ignore,
       controllerVars
  <2>6. ASSUME NEW f \in Frame, ControllerReceive(f)
        PROVE  phase' = "Faulted" /\ Len(tx'["controller"]) <= Len(tx["controller"])
    BY <2>2, <2>3, <2>4, <2>6
  <2>7. CASE Drain
    <3>1. /\ phase' = phase /\ tx["controller"] # <<>>
          /\ tx'["controller"] = Tail(tx["controller"])
      BY <2>1, <2>7 DEF Drain, controllerVars
    <3>2. /\ Len(Tail(tx["controller"])) = Len(tx["controller"]) - 1
          /\ Len(tx["controller"]) \in Nat
      BY <2>1, <3>1, HeadTailProperties, LenProperties
    <3>. QED
      BY <1>1, <3>1, <3>2
  <2>8. CASE UNCHANGED vars
    BY <2>2, <2>8 DEF vars, controllerVars
  <2>. QED
    BY <1>1, <2>5, <2>6, <2>7, <2>8 DEF Next
<1>. QED
  BY InvAlways, <1>1, PTL DEF Spec, SilentAfterFault

=============================================================================
