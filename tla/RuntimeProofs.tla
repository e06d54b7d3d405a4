--------------------------- MODULE RuntimeProofs ----------------------------
(***************************************************************************)
(* The journey of a part through the line, for every run length, timeout,  *)
(* buffer capacity, part id width and set of possible failures, and for    *)
(* every set of participants that is on the bus.                           *)
(*                                                                         *)
(* Nothing in a frame says which part it is about.  What keeps the parts   *)
(* apart is that one frame at most is in flight that can move a part on,   *)
(* and that it is one the phase of the controller waits for.  A full       *)
(* buffer loses frames and so does a participant that is off the bus:      *)
(* either may stall a part, none doubles a frame.  That is the first half  *)
(* of the module.                                                          *)
(*                                                                         *)
(* The second half is the line as a clockwork: timeouts of more than one   *)
(* tick, and buffers that hold what a pass can bring, as those of the code *)
(* do.                                                                     *)
(*                                                                         *)
(* A pass delivers what was sent before it, all of it and to everyone: so  *)
(* a heartbeat is heard in the tick it was sent in, the frame of the part  *)
(* makes one hop per pass, and what the controller says last reaches the   *)
(* three devices in the same pass or none of them.  In this order:         *)
(*   Booked      what a participant owes the others in a pass is bounded,  *)
(*               so no buffer ever gets full        (NothingIsLost);       *)
(*   Beating     a watchdog's count is 0 or 1       (NoAlarmIsFalse);      *)
(*   Latching    all of them stop in the same pass  (ShutdownIsWhole);     *)
(*   Journeying  where the part is in which pass    (LineInLockstep,       *)
(*               ExactlyOneFrame);                                         *)
(*   Clockwork   the four together, from which every step of the line is   *)
(*               a step of ProductionLine or none   (RuntimeIsLine).       *)
(***************************************************************************)
EXTENDS RuntimeProperties, SequenceTheorems, FiniteSetTheorems, TLAPS

-----------------------------------------------------------------------------
(* The frames of a journey, phase by phase.                                *)
Requests == {Command("conveyor.RequestPartArrived"), ConveyorStatus("PartArrived")}
Refusals == {ConveyorStatus("ConveyorFault"), VisionStatus("VisionFault"),
             VisionStatus("VisionTimeout")}
Accepting == VisionStatus("PartAccepted")
Rejecting == VisionStatus("RejectDetected")

Journey(p) ==
  CASE p = "WaitingInspection" -> Requests \cup Refusals \cup {Accepting, Rejecting}
    [] p = "WaitingPickComplete" ->
         {Command("robot.Pick"), RobotStatus("PickCompleted"), RobotStatus("PickFailed")}
    [] p = "WaitingPlaceComplete" ->
         {Command("robot.Place"), RobotStatus("PlaceCompleted"), RobotStatus("MotionFailed")}
    [] p = "WaitingRejectRemoval" ->
         {Command("robot.RemoveReject"), RobotStatus("RejectRemoved"), RobotStatus("PickFailed")}
    [] OTHER -> {}

(* Frames that would make up a journey of their own, which nobody sends.   *)
Strays == {Command("conveyor.InjectFault"), Command("vision.InjectFault"),
           Command("vision.InjectTimeout"), Command("vision.ProcessTick"),
           RobotStatus("RobotFault")}

(* For whom a frame is; everybody else ignores it.                         *)
For(p) ==
  CASE p = "conveyor" ->
         {Command("conveyor.RequestPartArrived"), Command("conveyor.InjectFault")}
    [] p = "vision" ->
         {ConveyorStatus("PartArrived"), Command("vision.InjectFault"),
          Command("vision.InjectTimeout"), Command("vision.ProcessTick")}
    [] p = "robot" ->
         {Command("robot.Pick"), Command("robot.Place"), Command("robot.RemoveReject")}
    [] OTHER ->
         Refusals \cup {Accepting, Rejecting, RobotStatus("PickCompleted"),
                        RobotStatus("PickFailed"), RobotStatus("PlaceCompleted"),
                        RobotStatus("MotionFailed"), RobotStatus("RejectRemoved"),
                        RobotStatus("RobotFault")}

Tracked == UNION {For(p) : p \in Participants}

-----------------------------------------------------------------------------
(* How many of the frames in H are in flight.                              *)
HowMany(q, H) == Cardinality({i \in DOMAIN q : q[i] \in H})

Entry(H) == [source : Participants, frame : H]

Sending(H) ==
  HowMany(tx["controller"], H) + HowMany(tx["conveyor"], H)
  + HowMany(tx["vision"], H) + HowMany(tx["robot"], H)

Arriving(H) ==
  HowMany(rx["controller"], H \cap For("controller"))
  + HowMany(rx["conveyor"], H \cap For("conveyor"))
  + HowMany(rx["vision"], H \cap For("vision"))
  + HowMany(rx["robot"], H \cap For("robot"))

Flying(H) == Sending(H) + HowMany(bus, Entry(H)) + Arriving(H)

NoStrays == Flying(Strays) = 0

(* At most one, and one that the phase waits for.                          *)
OneOfThisPart ==
  phase # "Faulted" => Flying(Tracked) <= 1 /\ Flying(Tracked \ Journey(phase)) = 0

-----------------------------------------------------------------------------
(* The parts counted so far, by the controller and by the sensor.          *)
Tally ==
  /\ processed = accepted + rejected
  /\ processed <= RunLength
  /\ phase = "Finished" => processed = RunLength
  /\ phase # "Finished" => processed < RunLength
  /\ phase = "Boot" => processed = 0
  /\ phase \notin {"Boot", "Faulted"} => bootstrapped

SeenAfter(n) == IF n = 0 THEN 0 ELSE PartIdOf(n)

Inspected(n, good) ==
  /\ input_part_counter = SeenAfter(n)
  /\ last_result.part_id = PartIdOf(n)
  /\ good <=> last_result.verdict = "Valid"

(* What a frame in flight, and the phase, say of the sensor's records.     *)
FrameKnows(f) ==
  /\ f \in Requests => input_part_counter = SeenAfter(processed)
  /\ f = Accepting => Inspected(processed + 1, TRUE)
  /\ f = Rejecting => Inspected(processed + 1, FALSE)

PhaseKnows ==
  /\ phase = "Boot" => input_part_counter = 0
  /\ phase \in {"WaitingPickComplete", "WaitingPlaceComplete"} => Inspected(processed + 1, TRUE)
  /\ phase = "WaitingRejectRemoval" => Inspected(processed + 1, FALSE)

Abreast ==
  phase # "Faulted" =>
    PhaseKnows /\ \A f \in Tracked : Flying({f}) > 0 => FrameKnows(f)

NoTwice == \A i, j \in DOMAIN devices : devices[i] = devices[j] => i = j

TypeOK ==
  /\ phase \in Phases
  /\ processed \in Nat /\ accepted \in Nat /\ rejected \in Nat
  /\ input_part_counter \in PartIds
  /\ last_result \in [part_id : PartIds, verdict : Verdicts]
  /\ devices \in Seq(Participants)
  /\ tx \in [Participants -> Seq(Frame)]
  /\ rx \in [Participants -> Seq(Frame)]
  /\ bus \in Seq(Entry(Frame))

Inv == TypeOK /\ NoTwice /\ NoStrays /\ OneOfThisPart /\ Tally /\ Abreast

-----------------------------------------------------------------------------
(* Counting in a sequence.                                                 *)

(* 1 if f is one of H, 0 if not.                                           *)
Is(f, H) == IF f \in H THEN 1 ELSE 0

(* What is counted is finite.                                              *)
LEMMA CountFinite ==
  ASSUME NEW S, NEW q \in Seq(S), NEW H
  PROVE  /\ IsFiniteSet({i \in DOMAIN q : q[i] \in H})
         /\ HowMany(q, H) \in Nat
<1>1. DOMAIN q = 1 .. Len(q) /\ Len(q) \in Nat
  BY LenProperties
<1>2. IsFiniteSet(1 .. Len(q))
  BY <1>1, FS_Interval
<1>3. {i \in DOMAIN q : q[i] \in H} \in SUBSET (1 .. Len(q))
  BY <1>1
<1>. QED
  BY <1>2, <1>3, FS_Subset, FS_CardinalityType DEF HowMany

(* Nothing is counted where there is nothing to count, ...                 *)
LEMMA CountNone ==
  ASSUME NEW q, NEW H, \A i \in DOMAIN q : q[i] \notin H
  PROVE  HowMany(q, H) = 0
<1>1. {i \in DOMAIN q : q[i] \in H} = {}
  OBVIOUS
<1>. QED
  BY <1>1, FS_EmptySet DEF HowMany

(* ... and something where there is something.                             *)
LEMMA CountSome ==
  ASSUME NEW S, NEW q \in Seq(S), NEW H, NEW i \in DOMAIN q, q[i] \in H
  PROVE  HowMany(q, H) >= 1
<1>. DEFINE A == {j \in DOMAIN q : q[j] \in H}
<1>1. IsFiniteSet(A) /\ {i} \in SUBSET A
  BY CountFinite
<1>2. HowMany(q, H) = Cardinality(A)
  BY DEF HowMany
<1>. HIDE DEF A
<1>3. Cardinality({i}) <= Cardinality(A)
  BY <1>1, FS_Subset
<1>4. Cardinality({i}) = 1 /\ Cardinality(A) \in Nat
  BY <1>1, FS_Singleton, FS_CardinalityType
<1>. QED
  BY <1>2, <1>3, <1>4

(* Frames of two kinds are as many as those of either kind.                *)
LEMMA CountSplit ==
  ASSUME NEW S, NEW q \in Seq(S), NEW G, NEW H, G \cap H = {}
  PROVE  HowMany(q, G \cup H) = HowMany(q, G) + HowMany(q, H)
<1>. DEFINE A == {i \in DOMAIN q : q[i] \in G}
            C == {i \in DOMAIN q : q[i] \in H}
<1>1. IsFiniteSet(A) /\ IsFiniteSet(C)
  BY CountFinite
<1>2. A \cap C = {} /\ A \cup C = {i \in DOMAIN q : q[i] \in G \cup H}
  OBVIOUS
<1>3. /\ HowMany(q, G) = Cardinality(A) /\ HowMany(q, H) = Cardinality(C)
      /\ HowMany(q, G \cup H) = Cardinality(A \cup C)
  BY <1>2 DEF HowMany
<1>. HIDE DEF A, C
<1>4. Cardinality(A \cup C) = Cardinality(A) + Cardinality(C) - Cardinality(A \cap C)
  BY <1>1, FS_Union
<1>5. Cardinality(A) \in Nat /\ Cardinality(C) \in Nat /\ Cardinality(A \cap C) = 0
  BY <1>1, <1>2, FS_CardinalityType, FS_EmptySet
<1>. QED
  BY <1>3, <1>4, <1>5

(* A sequence with one frame in H, at place k.                             *)
LEMMA CountOne ==
  ASSUME NEW q, NEW H, NEW k \in DOMAIN q,
         \A i \in DOMAIN q : i # k => q[i] \notin H
  PROVE  HowMany(q, H) = Is(q[k], H)
<1>1. CASE q[k] \in H
  <2>1. {i \in DOMAIN q : q[i] \in H} = {k}
    BY <1>1
  <2>. QED
    BY <1>1, <2>1, FS_Singleton DEF HowMany, Is
<1>2. CASE q[k] \notin H
  BY <1>2, CountNone DEF Is
<1>. QED
  BY <1>1, <1>2

(* Counting goes on where a sequence is continued.                         *)
LEMMA CountConcat ==
  ASSUME NEW S, NEW s \in Seq(S), NEW t \in Seq(S), NEW H
  PROVE  HowMany(s \o t, H) = HowMany(s, H) + HowMany(t, H)
<1>. DEFINE n == Len(s)
            A == {i \in DOMAIN s : s[i] \in H}
            C == {i \in DOMAIN t : t[i] \in H}
            D == {n + i : i \in C}
<1>1. /\ s \o t \in Seq(S) /\ Len(s \o t) = n + Len(t)
      /\ \A i \in 1 .. n + Len(t) : (s \o t)[i] = IF i <= n THEN s[i] ELSE t[i - n]
  BY ConcatProperties
<1>2. /\ n \in Nat /\ DOMAIN s = 1 .. n
      /\ Len(t) \in Nat /\ DOMAIN t = 1 .. Len(t)
      /\ DOMAIN (s \o t) = 1 .. n + Len(t)
  BY <1>1, LenProperties
<1>3. IsFiniteSet(A) /\ IsFiniteSet(C)
  BY CountFinite
<1>4. IsFiniteSet(D) /\ Cardinality(D) = Cardinality(C)
  <2>. DEFINE f == [i \in C |-> n + i]
  <2>1. f \in Bijection(C, D)
    <3>1. f \in [C -> D] /\ \A i, j \in C : f[i] = f[j] => i = j
      BY <1>2
    <3>2. \A d \in D : \E i \in C : f[i] = d
      OBVIOUS
    <3>. QED
      BY <3>1, <3>2 DEF Bijection, Injection, Surjection, IsInjective
  <2>. QED
    BY <1>3, <2>1, FS_Bijection DEF ExistsBijection
<1>5. A \cap D = {}
  BY <1>2
<1>6. A \cup D = {i \in DOMAIN (s \o t) : (s \o t)[i] \in H}
  <2>1. ASSUME NEW i \in A PROVE i \in DOMAIN (s \o t) /\ (s \o t)[i] \in H
    BY <1>1, <1>2
  <2>2. ASSUME NEW i \in C PROVE n + i \in DOMAIN (s \o t) /\ (s \o t)[n + i] \in H
    BY <1>1, <1>2
  <2>3. ASSUME NEW i \in DOMAIN (s \o t), (s \o t)[i] \in H PROVE i \in A \cup D
    <3>1. CASE i <= n
      BY <1>1, <1>2, <2>3, <3>1
    <3>2. CASE ~(i <= n)
      <4>1. i - n \in C /\ i = n + (i - n)
        BY <1>1, <1>2, <2>3, <3>2
      <4>. QED
        BY <4>1
    <3>. QED
      BY <3>1, <3>2
  <2>. QED
    BY <2>1, <2>2, <2>3
<1>7. /\ HowMany(s, H) = Cardinality(A) /\ HowMany(t, H) = Cardinality(C)
      /\ HowMany(s \o t, H) = Cardinality(A \cup D)
  BY <1>6 DEF HowMany
<1>. HIDE DEF A, C, D
<1>8. Cardinality(A \cup D) = Cardinality(A) + Cardinality(D) - Cardinality(A \cap D)
  BY <1>3, <1>4, FS_Union
<1>9. Cardinality(A) \in Nat /\ Cardinality(C) \in Nat /\ Cardinality(A \cap D) = 0
  BY <1>3, <1>5, FS_CardinalityType, FS_EmptySet
<1>. QED
  BY <1>4, <1>7, <1>8, <1>9

(* One frame, ...                                                          *)
LEMMA CountSingle ==
  ASSUME NEW f, NEW H
  PROVE  HowMany(<<f>>, H) = Is(f, H)
<1>1. DOMAIN <<f>> = {1} /\ <<f>>[1] = f
  OBVIOUS
<1>. QED
  BY <1>1, CountOne

(* ... one more at the end, ...                                            *)
LEMMA CountAppend ==
  ASSUME NEW S, NEW q \in Seq(S), NEW f \in S, NEW H
  PROVE  HowMany(Append(q, f), H) = HowMany(q, H) + Is(f, H)
<1>1. <<f>> \in Seq(S) /\ Append(q, f) = q \o <<f>>
  BY AppendIsConcat
<1>2. HowMany(q \o <<f>>, H) = HowMany(q, H) + HowMany(<<f>>, H)
  BY <1>1, CountConcat
<1>3. HowMany(<<f>>, H) = Is(f, H)
  BY CountSingle
<1>. QED
  BY <1>1, <1>2, <1>3

(* ... and one less at the front.                                          *)
LEMMA CountTail ==
  ASSUME NEW S, NEW q \in Seq(S), q # <<>>, NEW H
  PROVE  HowMany(q, H) = Is(Head(q), H) + HowMany(Tail(q), H)
<1>1. /\ Head(q) \in S /\ Tail(q) \in Seq(S) /\ Len(Tail(q)) = Len(q) - 1
      /\ \A i \in 1 .. Len(Tail(q)) : Tail(q)[i] = q[i + 1]
  BY HeadTailProperties
<1>2. <<Head(q)>> \in Seq(S) /\ Len(<<Head(q)>>) = 1 /\ <<Head(q)>>[1] = Head(q)
  BY <1>1
<1>3. q = <<Head(q)>> \o Tail(q)
  <2>1. /\ <<Head(q)>> \o Tail(q) \in Seq(S)
        /\ Len(<<Head(q)>> \o Tail(q)) = 1 + Len(Tail(q))
        /\ \A i \in 1 .. 1 + Len(Tail(q)) :
             (<<Head(q)>> \o Tail(q))[i] = IF i <= 1 THEN <<Head(q)>>[i] ELSE Tail(q)[i - 1]
    BY <1>1, <1>2, ConcatProperties
  <2>2. Len(q) \in Nat /\ Head(q) = q[1]
    BY LenProperties
  <2>3. ASSUME NEW i \in 1 .. Len(q) PROVE q[i] = (<<Head(q)>> \o Tail(q))[i]
    <3>1. CASE i = 1
      BY <1>1, <1>2, <2>1, <2>2, <3>1
    <3>2. CASE i # 1
      <4>1. i - 1 \in 1 .. Len(Tail(q)) /\ (i - 1) + 1 = i
        BY <1>1, <2>2, <3>2
      <4>. QED
        BY <1>1, <2>1, <2>2, <3>2, <4>1
    <3>. QED
      BY <3>1, <3>2
  <2>4. Len(q) = Len(<<Head(q)>> \o Tail(q))
    BY <1>1, <2>1, <2>2
  <2>. QED
    BY <2>1, <2>3, <2>4, SeqEqual
<1>4. HowMany(<<Head(q)>> \o Tail(q), H) = HowMany(<<Head(q)>>, H) + HowMany(Tail(q), H)
  BY <1>1, <1>2, CountConcat
<1>5. HowMany(<<Head(q)>>, H) = Is(Head(q), H)
  BY CountSingle
<1>. QED
  BY <1>3, <1>4, <1>5

(* A buffer takes of what is pushed as much as fits.                       *)
LEMMA CountPushAll ==
  ASSUME NEW S, NEW q \in Seq(S), NEW fs \in Seq(S), NEW H
  PROVE  /\ PushAll(q, fs) \in Seq(S)
         /\ HowMany(PushAll(q, fs), H) <= HowMany(q, H) + HowMany(fs, H)
<1>. DEFINE room == QueueCapacity - Len(q)
            kept == IF Len(fs) <= room THEN Len(fs) ELSE room
            t == SubSeq(fs, 1, kept)
<1>1. Len(fs) \in Nat /\ room \in Int /\ kept \in Int /\ kept <= Len(fs)
  BY QueueCapacityAssumption, LenProperties
<1>2. \A i \in 1 .. kept : fs[i] \in S
  BY <1>1, ElementOfSeq
<1>3. /\ t \in Seq(S)
      /\ Len(t) = IF 1 <= kept THEN kept - 1 + 1 ELSE 0
      /\ \A i \in 1 .. kept - 1 + 1 : t[i] = fs[1 + i - 1]
  BY <1>1, <1>2, SubSeqProperties
<1>4. PushAll(q, fs) = q \o t
  BY DEF PushAll
<1>. HIDE DEF t, kept
<1>5. HowMany(t, H) <= HowMany(fs, H)
  <2>1. DOMAIN t = 1 .. Len(t) /\ Len(t) <= Len(fs) /\ Len(t) \in Nat
    BY <1>1, <1>3, LenProperties
  <2>2. \A i \in DOMAIN t : i \in DOMAIN fs /\ t[i] = fs[i]
    BY <1>1, <1>3, <2>1, LenProperties
  <2>. DEFINE A == {i \in DOMAIN t : t[i] \in H}
              C == {i \in DOMAIN fs : fs[i] \in H}
  <2>3. A \in SUBSET C /\ IsFiniteSet(C)
    BY <2>2, CountFinite
  <2>4. HowMany(t, H) = Cardinality(A) /\ HowMany(fs, H) = Cardinality(C)
    BY DEF HowMany
  <2>. HIDE DEF A, C
  <2>. QED
    BY <2>3, <2>4, FS_Subset
<1>6. /\ q \o t \in Seq(S)
      /\ HowMany(q \o t, H) = HowMany(q, H) + HowMany(t, H)
  BY <1>3, CountConcat, ConcatProperties
<1>7. HowMany(q, H) \in Nat /\ HowMany(t, H) \in Nat /\ HowMany(fs, H) \in Nat
  BY <1>3, CountFinite
<1>. QED
  BY <1>4, <1>5, <1>6, <1>7

-----------------------------------------------------------------------------
(* Counting what is in flight.                                             *)

(* A frame is for one participant.                                         *)
LEMMA ForOne ==
  ASSUME NEW p \in Participants, NEW r \in Participants, p # r
  PROVE  For(p) \cap For(r) = {}
BY DEF For, Participants, Devices, Refusals, Accepting, Rejecting, Command, NoStatus,
   ConveyorStatus, VisionStatus, RobotStatus

(* All the counts that make up Flying are numbers.                         *)
LEMMA CountsNat ==
  ASSUME TypeOK, NEW H
  PROVE  /\ \A p \in Participants : HowMany(tx[p], H) \in Nat /\ HowMany(rx[p], H) \in Nat
         /\ HowMany(bus, H) \in Nat
<1>1. ASSUME NEW p \in Participants PROVE HowMany(tx[p], H) \in Nat /\ HowMany(rx[p], H) \in Nat
  <2>1. tx[p] \in Seq(Frame) /\ rx[p] \in Seq(Frame)
    BY DEF TypeOK
  <2>. QED
    BY <2>1, CountFinite
<1>2. bus \in Seq(Entry(Frame))
  BY DEF TypeOK
<1>. QED
  BY <1>1, <1>2, CountFinite

(* And so are their sums.                                                  *)
LEMMA FlyingNat ==
  ASSUME TypeOK, NEW H
  PROVE  Sending(H) \in Nat /\ Arriving(H) \in Nat /\ Flying(H) \in Nat
BY CountsNat DEF Sending, Arriving, Flying, Participants, Devices

(* Frames of two kinds are as many as those of either kind, ...            *)
LEMMA FlyingSplit ==
  ASSUME TypeOK, NEW G, NEW H, G \cap H = {}
  PROVE  Flying(G \cup H) = Flying(G) + Flying(H)
<1>1. ASSUME NEW p \in Participants
      PROVE  /\ HowMany(tx[p], G \cup H) = HowMany(tx[p], G) + HowMany(tx[p], H)
             /\ HowMany(rx[p], (G \cup H) \cap For(p))
                  = HowMany(rx[p], G \cap For(p)) + HowMany(rx[p], H \cap For(p))
  <2>1. tx[p] \in Seq(Frame) /\ rx[p] \in Seq(Frame)
    BY DEF TypeOK
  <2>2. /\ (G \cup H) \cap For(p) = (G \cap For(p)) \cup (H \cap For(p))
        /\ (G \cap For(p)) \cap (H \cap For(p)) = {}
    OBVIOUS
  <2>3. HowMany(tx[p], G \cup H) = HowMany(tx[p], G) + HowMany(tx[p], H)
    BY <2>1, CountSplit
  <2>4. HowMany(rx[p], (G \cap For(p)) \cup (H \cap For(p)))
          = HowMany(rx[p], G \cap For(p)) + HowMany(rx[p], H \cap For(p))
    BY <2>1, <2>2, CountSplit
  <2>. QED
    BY <2>2, <2>3, <2>4
<1>2. HowMany(bus, Entry(G \cup H)) = HowMany(bus, Entry(G)) + HowMany(bus, Entry(H))
  <2>1. Entry(G \cup H) = Entry(G) \cup Entry(H) /\ Entry(G) \cap Entry(H) = {}
    BY DEF Entry
  <2>2. bus \in Seq(Entry(Frame))
    BY DEF TypeOK
  <2>3. HowMany(bus, Entry(G) \cup Entry(H)) = HowMany(bus, Entry(G)) + HowMany(bus, Entry(H))
    BY <2>1, <2>2, CountSplit
  <2>. QED
    BY <2>1, <2>3
<1>. QED
  BY <1>1, <1>2, CountsNat DEF Sending, Arriving, Flying, Participants, Devices

(* ... and those of a kind no fewer than those of part of the kind.        *)
LEMMA FlyingPart ==
  ASSUME TypeOK, NEW H, NEW G \in SUBSET H
  PROVE  Flying(G) <= Flying(H)
<1>1. G \cup (H \ G) = H /\ G \cap (H \ G) = {}
  OBVIOUS
<1>2. Flying(G \cup (H \ G)) = Flying(G) + Flying(H \ G)
  BY <1>1, FlyingSplit
<1>. QED
  BY <1>1, <1>2, FlyingNat

(* A change of one buffer changes the counts by what it changes there.     *)
LEMMA SendingOf ==
  ASSUME TypeOK, TypeOK', NEW p \in Participants, NEW H,
         \A d \in Participants \ {p} : tx'[d] = tx[d]
  PROVE  /\ Sending(H)' + HowMany(tx[p], H) = Sending(H) + HowMany(tx'[p], H)
         /\ Sending(H)' \in Nat
<1>1. \A d \in Participants : HowMany(tx[d], H) \in Nat /\ HowMany(tx'[d], H) \in Nat
  <2>1. ASSUME NEW d \in Participants PROVE tx[d] \in Seq(Frame) /\ tx'[d] \in Seq(Frame)
    BY DEF TypeOK
  <2>. QED
    BY <2>1, CountFinite
<1>2. \A d \in Participants : d # p => HowMany(tx'[d], H) = HowMany(tx[d], H)
  OBVIOUS
<1>3. Sending(H)' = HowMany(tx'["controller"], H) + HowMany(tx'["conveyor"], H)
                    + HowMany(tx'["vision"], H) + HowMany(tx'["robot"], H)
  BY DEF Sending
<1>. QED
  BY <1>1, <1>2, <1>3 DEF Sending, Participants, Devices

(* The same on the way in.                                                 *)
LEMMA ArrivingOf ==
  ASSUME TypeOK, TypeOK', NEW p \in Participants, NEW H,
         \A d \in Participants \ {p} : rx'[d] = rx[d]
  PROVE  /\ Arriving(H)' + HowMany(rx[p], H \cap For(p))
              = Arriving(H) + HowMany(rx'[p], H \cap For(p))
         /\ Arriving(H)' \in Nat
<1>1. \A d \in Participants : /\ HowMany(rx[d], H \cap For(d)) \in Nat
                              /\ HowMany(rx'[d], H \cap For(d)) \in Nat
  <2>1. ASSUME NEW d \in Participants PROVE rx[d] \in Seq(Frame) /\ rx'[d] \in Seq(Frame)
    BY DEF TypeOK
  <2>. QED
    BY <2>1, CountFinite
<1>2. \A d \in Participants :
        d # p => HowMany(rx'[d], H \cap For(d)) = HowMany(rx[d], H \cap For(d))
  OBVIOUS
<1>3. Arriving(H)' = HowMany(rx'["controller"], H \cap For("controller"))
                     + HowMany(rx'["conveyor"], H \cap For("conveyor"))
                     + HowMany(rx'["vision"], H \cap For("vision"))
                     + HowMany(rx'["robot"], H \cap For("robot"))
  BY DEF Arriving, For
<1>. DEFINE a(d) == HowMany(rx[d], H \cap For(d))
            b(d) == HowMany(rx'[d], H \cap For(d))
<1>4. /\ Arriving(H) = a("controller") + a("conveyor") + a("vision") + a("robot")
      /\ Arriving(H)' = b("controller") + b("conveyor") + b("vision") + b("robot")
      /\ \A d \in Participants : a(d) \in Nat /\ b(d) \in Nat /\ (d # p => a(d) = b(d))
  BY <1>1, <1>2, <1>3 DEF Arriving
<1>. HIDE DEF a, b
<1>5. Arriving(H)' + a(p) = Arriving(H) + b(p) /\ Arriving(H)' \in Nat
  BY <1>4 DEF Participants, Devices
<1>. QED
  BY <1>5 DEF a, b

(* What a call of p has p send: no more of the frames counted than g.      *)
Says(p, fs, g) ==
  /\ fs \in Seq(Frame)
  /\ tx' = [tx EXCEPT ![p] = PushAll(@, fs)]
  /\ \A H \in SUBSET Tracked : HowMany(fs, H) <= Is(g, H)

(* The output buffers still hold frames, ...                               *)
LEMMA SaysTyped ==
  ASSUME TypeOK, NEW p \in Participants, NEW fs, NEW g, Says(p, fs, g)
  PROVE  tx' \in [Participants -> Seq(Frame)]
<1>1. PushAll(tx[p], fs) \in Seq(Frame)
  <2>1. tx[p] \in Seq(Frame) /\ fs \in Seq(Frame)
    BY DEF TypeOK, Says
  <2>. QED
    BY <2>1, CountPushAll
<1>. QED
  BY <1>1 DEF Says, TypeOK

(* ... and of those counted one more at most, if it is g.                  *)
LEMMA SaysCount ==
  ASSUME TypeOK, TypeOK', NEW p \in Participants, NEW fs, NEW g, Says(p, fs, g),
         NEW H \in SUBSET Tracked
  PROVE  Sending(H)' <= Sending(H) + Is(g, H)
<1>1. tx[p] \in Seq(Frame) /\ fs \in Seq(Frame) /\ tx'[p] = PushAll(tx[p], fs)
      /\ tx'[p] \in Seq(Frame) /\ \A d \in Participants \ {p} : tx'[d] = tx[d]
  BY DEF Says, TypeOK
<1>2. HowMany(tx'[p], H) <= HowMany(tx[p], H) + HowMany(fs, H)
  BY <1>1, CountPushAll
<1>3. /\ Sending(H)' + HowMany(tx[p], H) = Sending(H) + HowMany(tx'[p], H)
      /\ Sending(H)' \in Nat
  BY <1>1, SendingOf
<1>4. HowMany(fs, H) <= Is(g, H)
  BY DEF Says
<1>5. /\ HowMany(tx[p], H) \in Nat /\ HowMany(tx'[p], H) \in Nat
      /\ HowMany(fs, H) \in Nat /\ Is(g, H) \in Nat
  BY <1>1, CountFinite DEF Is
<1>6. Sending(H) \in Nat
  BY FlyingNat
<1>. QED
  BY <1>2, <1>3, <1>4, <1>5, <1>6

-----------------------------------------------------------------------------
(* What the steps do to what is in flight.                                 *)

(* A call that receives nothing.                                           *)
LEMMA TickCount ==
  ASSUME TypeOK, TypeOK', NEW p \in Participants, NEW fs, NEW g, Says(p, fs, g),
         UNCHANGED <<rx, bus>>, NEW H \in SUBSET Tracked
  PROVE  Flying(H)' <= Flying(H) + Is(g, H)
<1>1. Sending(H)' <= Sending(H) + Is(g, H)
  BY SaysCount
<1>2. Flying(H)' = Sending(H)' + HowMany(bus, Entry(H)) + Arriving(H)
  BY DEF Flying, Arriving, HowMany, For, Entry
<1>3. /\ Sending(H) \in Nat /\ Arriving(H) \in Nat
      /\ HowMany(bus, Entry(H)) \in Nat /\ Is(g, H) \in Nat
  BY FlyingNat, CountsNat DEF Is
<1>4. Sending(H)' \in Nat
  <2>1. \A d \in Participants \ {p} : tx'[d] = tx[d]
    BY DEF Says, TypeOK
  <2>. QED
    BY <2>1, SendingOf
<1>. QED
  BY <1>1, <1>2, <1>3, <1>4 DEF Flying

(* If q loses h, so does a that has q as a part, ...                       *)
LEMMA PartLost ==
  ASSUME NEW a \in Nat, NEW a1 \in Nat, NEW q \in Nat, NEW q1 \in Nat, NEW h \in Nat,
         q = h + q1, a1 + q = a + q1
  PROVE  a1 + h = a
OBVIOUS

(* ... and so does a sum that a is a term of, while another may gain g.    *)
LEMMA SumLost ==
  ASSUME NEW a \in Nat, NEW a1 \in Nat, NEW b \in Nat, NEW s \in Nat, NEW s1 \in Nat,
         NEW h \in Nat, NEW g \in Nat, a1 + h = a, s1 <= s + g
  PROVE  s1 + b + a1 + h <= s + b + a + g
OBVIOUS

(* A call that receives the frame at the head of the input buffer.         *)
LEMMA HandleCount ==
  ASSUME TypeOK, TypeOK', NEW p \in Participants, NEW fs, NEW g, Says(p, fs, g),
         rx[p] # <<>>, rx' = [rx EXCEPT ![p] = Tail(@)], UNCHANGED bus,
         NEW H \in SUBSET Tracked
  PROVE  Flying(H)' + Is(Head(rx[p]), H \cap For(p)) <= Flying(H) + Is(g, H)
<1>1. Sending(H)' <= Sending(H) + Is(g, H)
  BY SaysCount
<1>2. Sending(H)' \in Nat
  <2>1. \A d \in Participants \ {p} : tx'[d] = tx[d]
    BY DEF Says, TypeOK
  <2>. QED
    BY <2>1, SendingOf
<1>3. rx[p] \in Seq(Frame) /\ rx'[p] = Tail(rx[p]) /\ rx'[p] \in Seq(Frame)
      /\ \A d \in Participants \ {p} : rx'[d] = rx[d]
  BY DEF TypeOK
<1>4. HowMany(rx[p], H \cap For(p))
        = Is(Head(rx[p]), H \cap For(p)) + HowMany(rx'[p], H \cap For(p))
  BY <1>3, CountTail
<1>5. /\ Arriving(H)' + HowMany(rx[p], H \cap For(p))
           = Arriving(H) + HowMany(rx'[p], H \cap For(p))
      /\ Arriving(H)' \in Nat
  BY <1>3, ArrivingOf
<1>6. /\ HowMany(rx[p], H \cap For(p)) \in Nat /\ HowMany(rx'[p], H \cap For(p)) \in Nat
      /\ Is(Head(rx[p]), H \cap For(p)) \in Nat /\ Is(g, H) \in Nat
  BY <1>3, CountFinite DEF Is
<1>7. Flying(H)' = Sending(H)' + HowMany(bus, Entry(H)) + Arriving(H)'
  BY DEF Flying, HowMany, Entry
<1>8. Sending(H) \in Nat /\ Arriving(H) \in Nat /\ HowMany(bus, Entry(H)) \in Nat
  BY FlyingNat, CountsNat
<1>9. Arriving(H)' + Is(Head(rx[p]), H \cap For(p)) = Arriving(H)
  <2>. DEFINE a == Arriving(H)
              a1 == Arriving(H)'
              q == HowMany(rx[p], H \cap For(p))
              q1 == HowMany(rx'[p], H \cap For(p))
              h == Is(Head(rx[p]), H \cap For(p))
  <2>1. /\ a \in Nat /\ a1 \in Nat /\ q \in Nat /\ q1 \in Nat /\ h \in Nat
        /\ q = h + q1 /\ a1 + q = a + q1
    BY <1>4, <1>5, <1>6, <1>8, Zenon
  <2>. HIDE DEF a, a1, q, q1, h
  <2>2. a1 + h = a
    BY <2>1, PartLost
  <2>. QED
    BY <2>2 DEF a, a1, h
<1>10. Flying(H) = Sending(H) + HowMany(bus, Entry(H)) + Arriving(H)
  BY DEF Flying
<1>. QED
  <2>. DEFINE s == Sending(H)
              s1 == Sending(H)'
              b == HowMany(bus, Entry(H))
              a == Arriving(H)
              a1 == Arriving(H)'
              h == Is(Head(rx[p]), H \cap For(p))
              i == Is(g, H)
  <2>1. /\ s \in Nat /\ s1 \in Nat /\ b \in Nat /\ a \in Nat /\ a1 \in Nat /\ h \in Nat
        /\ i \in Nat /\ a1 + h = a /\ s1 <= s + i
    BY <1>1, <1>2, <1>5, <1>6, <1>8, <1>9, Zenon
  <2>2. Flying(H)' = s1 + b + a1 /\ Flying(H) = s + b + a
    BY <1>7, <1>10, Zenon
  <2>. HIDE DEF s, s1, b, a, a1, h, i
  <2>3. s1 + b + a1 + h <= s + b + a + i
    BY <2>1, SumLost
  <2>. QED
    BY <2>2, <2>3 DEF h, i

(* The head of an input buffer is in flight.                               *)
LEMMA HeadFlies ==
  ASSUME TypeOK, NEW p \in Participants, rx[p] # <<>>, NEW H, Head(rx[p]) \in H \cap For(p)
  PROVE  Flying(H) >= 1
<1>1. rx[p] \in Seq(Frame)
  BY DEF TypeOK
<1>2. 1 \in DOMAIN rx[p] /\ rx[p][1] = Head(rx[p])
  BY <1>1, EmptySeq, LenProperties
<1>3. HowMany(rx[p], H \cap For(p)) >= 1
  BY <1>1, <1>2, CountSome
<1>4. \A d \in Participants : HowMany(rx[d], H \cap For(d)) \in Nat
  BY CountsNat
<1>5. Arriving(H) >= 1
  <2>. DEFINE a(d) == HowMany(rx[d], H \cap For(d))
  <2>1. /\ Arriving(H) = a("controller") + a("conveyor") + a("vision") + a("robot")
        /\ \A d \in Participants : a(d) \in Nat
        /\ a(p) >= 1
    BY <1>3, <1>4 DEF Arriving
  <2>. HIDE DEF a
  <2>. QED
    BY <2>1 DEF Participants, Devices
<1>. QED
  BY <1>5, FlyingNat, CountsNat DEF Flying

(* A frame that goes from an output buffer onto the bus, or is lost.       *)
LEMMA DrainCount ==
  ASSUME TypeOK, NEW p \in Participants, DrainFrame(p), UNCHANGED rx
  PROVE  /\ tx' \in [Participants -> Seq(Frame)] /\ bus' \in Seq(Entry(Frame))
         /\ TypeOK' => \A H : Flying(H)' <= Flying(H)
<1>. DEFINE f == Head(tx[p])
            e == [source |-> p, frame |-> f]
<1>1. tx[p] \in Seq(Frame) /\ tx[p] # <<>> /\ bus \in Seq(Entry(Frame))
  BY DEF TypeOK, DrainFrame, Turn
<1>2. f \in Frame /\ Tail(tx[p]) \in Seq(Frame) /\ e \in Entry(Frame)
  BY <1>1, HeadTailProperties DEF Entry
<1>3. tx' = [tx EXCEPT ![p] = Tail(@)] /\ bus' = Push(bus, e, BusCapacity)
  BY DEF DrainFrame, Transmit
<1>4. tx' \in [Participants -> Seq(Frame)] /\ tx'[p] = Tail(tx[p])
      /\ \A d \in Participants \ {p} : tx'[d] = tx[d]
  BY <1>2, <1>3 DEF TypeOK
<1>5. bus' = bus \/ bus' = Append(bus, e)
  BY <1>3 DEF Push
<1>6. bus' \in Seq(Entry(Frame))
  BY <1>1, <1>2, <1>5, AppendProperties
<1>7. ASSUME TypeOK', NEW H PROVE Flying(H)' <= Flying(H)
  <2>1. Is(e, Entry(H)) = Is(f, H)
    BY DEF Is, Entry
  <2>2. HowMany(bus', Entry(H)) <= HowMany(bus, Entry(H)) + Is(f, H)
    <3>1. HowMany(Append(bus, e), Entry(H)) = HowMany(bus, Entry(H)) + Is(e, Entry(H))
      BY <1>1, <1>2, CountAppend
    <3>2. HowMany(bus, Entry(H)) \in Nat /\ Is(f, H) \in Nat
      BY CountsNat DEF Is
    <3>. HIDE DEF e, f
    <3>3. CASE bus' = bus
      BY <3>2, <3>3
    <3>4. CASE bus' = Append(bus, e)
      BY <2>1, <3>1, <3>2, <3>4
    <3>. QED
      BY <1>5, <3>3, <3>4
  <2>3. HowMany(tx[p], H) = Is(f, H) + HowMany(tx'[p], H)
    BY <1>1, <1>4, CountTail
  <2>4. /\ Sending(H)' + HowMany(tx[p], H) = Sending(H) + HowMany(tx'[p], H)
        /\ Sending(H)' \in Nat
    BY <1>4, <1>7, SendingOf
  <2>5. Flying(H)' = Sending(H)' + HowMany(bus', Entry(H)) + Arriving(H)
    BY DEF Flying, Arriving, HowMany, For, Entry
  <2>6. /\ Sending(H) \in Nat /\ Arriving(H) \in Nat /\ HowMany(bus, Entry(H)) \in Nat
        /\ HowMany(bus', Entry(H)) \in Nat /\ Is(f, H) \in Nat
        /\ HowMany(tx[p], H) \in Nat /\ HowMany(tx'[p], H) \in Nat
    BY <1>2, <1>4, <1>6, FlyingNat, CountsNat, CountFinite DEF Is
  <2>. QED
    BY <2>2, <2>3, <2>4, <2>5, <2>6 DEF Flying
<1>. QED
  BY <1>4, <1>6, <1>7

(* A participant that is registered once receives a frame once.            *)
LEMMA CopiesOnce ==
  ASSUME TypeOK, NoTwice, NEW d
  PROVE  Copies(d) \in {0, 1}
<1>. DEFINE A == {i \in DOMAIN devices : devices[i] = d}
<1>1. A = {} \/ \E i : A = {i}
  BY DEF NoTwice
<1>. QED
  BY <1>1, FS_EmptySet, FS_Singleton DEF Copies

(* A frame that goes from the bus into the input buffers: into one of a    *)
(* participant it is for, at most.                                         *)
LEMMA DistributeCount ==
  ASSUME TypeOK, NoTwice, DistributeFrame
  PROVE  /\ rx' \in [Participants -> Seq(Frame)] /\ bus' \in Seq(Entry(Frame))
         /\ TypeOK' => \A H : Flying(H)' <= Flying(H)
<1>. DEFINE e == Head(bus)
            f == e.frame
<1>1. bus \in Seq(Entry(Frame)) /\ bus # <<>> /\ bus' = Tail(bus) /\ UNCHANGED tx
  BY DEF TypeOK, DistributeFrame
<1>2. e \in Entry(Frame) /\ f \in Frame /\ bus' \in Seq(Entry(Frame))
  <2>1. Head(bus) \in Entry(Frame) /\ Tail(bus) \in Seq(Entry(Frame))
    BY <1>1, HeadTailProperties
  <2>. QED
    BY <1>1, <2>1 DEF Entry
<1>3. ASSUME NEW d \in Participants
      PROVE  /\ rx'[d] \in Seq(Frame)
             /\ \A K : HowMany(rx'[d], K) <= HowMany(rx[d], K) + Is(f, K)
  <2>. DEFINE fs == [i \in 1 .. Copies(d) |-> f]
  <2>1. rx[d] \in Seq(Frame)
    BY DEF TypeOK
  <2>2. fs \in Seq(Frame) /\ \A K : HowMany(fs, K) <= Is(f, K)
    <3>1. CASE Copies(d) = 0
      <4>1. fs \in Seq(Frame) /\ DOMAIN fs = {}
        BY <3>1
      <4>. HIDE DEF fs
      <4>2. \A K : HowMany(fs, K) = 0
        BY <4>1, CountNone
      <4>. QED
        BY <4>1, <4>2 DEF Is
    <3>2. CASE Copies(d) = 1
      <4>1. fs \in Seq(Frame) /\ DOMAIN fs = {1} /\ fs[1] = f
        BY <1>2, <3>2
      <4>. HIDE DEF fs
      <4>2. \A K : HowMany(fs, K) = Is(f, K)
        BY <4>1, CountOne
      <4>. QED
        BY <4>1, <4>2 DEF Is
    <3>. QED
      BY <3>1, <3>2, CopiesOnce
  <2>3. rx'[d] = rx[d] \/ rx'[d] = PushAll(rx[d], fs)
    BY DEF DistributeFrame, Deliver, TypeOK
  <2>. HIDE DEF fs
  <2>4. PushAll(rx[d], fs) \in Seq(Frame)
    BY <2>1, <2>2, CountPushAll
  <2>5. ASSUME NEW K PROVE HowMany(rx'[d], K) <= HowMany(rx[d], K) + Is(f, K)
    <3>1. HowMany(PushAll(rx[d], fs), K) <= HowMany(rx[d], K) + HowMany(fs, K)
      BY <2>1, <2>2, CountPushAll
    <3>2. HowMany(fs, K) <= Is(f, K)
      BY <2>2
    <3>3. HowMany(rx[d], K) \in Nat /\ HowMany(fs, K) \in Nat /\ Is(f, K) \in Nat
          /\ HowMany(PushAll(rx[d], fs), K) \in Nat
      BY <2>1, <2>2, <2>4, CountFinite DEF Is
    <3>. QED
      BY <2>3, <3>1, <3>2, <3>3
  <2>. QED
    BY <2>1, <2>3, <2>4, <2>5
<1>4. rx' \in [Participants -> Seq(Frame)]
  <2>1. DOMAIN rx = Participants /\ rx' = Deliver(e)
    BY DEF TypeOK, DistributeFrame
  <2>2. rx' = [d \in Participants |-> rx'[d]]
    BY <2>1 DEF Deliver
  <2>. QED
    BY <1>3, <2>2
<1>5. ASSUME TypeOK', NEW H PROVE Flying(H)' <= Flying(H)
  <2>. DEFINE a(d) == HowMany(rx[d], H \cap For(d))
              b(d) == HowMany(rx'[d], H \cap For(d))
              o(d) == Is(f, H \cap For(d))
  <2>1. \A d \in Participants : a(d) \in Nat /\ b(d) \in Nat /\ b(d) <= a(d) + o(d)
    <3>1. ASSUME NEW d \in Participants PROVE a(d) \in Nat /\ b(d) \in Nat /\ b(d) <= a(d) + o(d)
      <4>1. rx[d] \in Seq(Frame) /\ rx'[d] \in Seq(Frame)
        BY <1>3 DEF TypeOK
      <4>. QED
        BY <1>3, <4>1, CountFinite
    <3>. QED
      BY <3>1
  <2>2. o("controller") + o("conveyor") + o("vision") + o("robot") <= Is(f, H)
    BY ForOne DEF Is, Participants, Devices
  <2>3. \A d : o(d) \in Nat
    BY DEF Is
  <2>4. /\ Arriving(H) = a("controller") + a("conveyor") + a("vision") + a("robot")
        /\ Arriving(H)' = b("controller") + b("conveyor") + b("vision") + b("robot")
    BY DEF Arriving, For
  <2>. HIDE DEF a, b, o
  <2>5. Arriving(H)' <= Arriving(H) + Is(f, H) /\ Arriving(H)' \in Nat
    BY <2>1, <2>2, <2>3, <2>4 DEF Participants, Devices, Is
  <2>6. HowMany(bus, Entry(H)) = Is(e, Entry(H)) + HowMany(bus', Entry(H))
    BY <1>1, CountTail
  <2>7. Is(e, Entry(H)) = Is(f, H)
    BY <1>2 DEF Is, Entry
  <2>8. Flying(H)' = Sending(H) + HowMany(bus', Entry(H)) + Arriving(H)'
    BY <1>1 DEF Flying, Sending, HowMany, Entry
  <2>9. /\ Sending(H) \in Nat /\ Arriving(H) \in Nat /\ HowMany(bus, Entry(H)) \in Nat
        /\ HowMany(bus', Entry(H)) \in Nat /\ Is(f, H) \in Nat
    BY <1>2, FlyingNat, CountsNat, CountFinite DEF Is
  <2>. QED
    BY <2>5, <2>6, <2>7, <2>8, <2>9 DEF Flying
<1>. QED
  BY <1>2, <1>4, <1>5

-----------------------------------------------------------------------------
(* What the calls send.                                                    *)

RobotResults == {"PickCompleted", "PlaceCompleted", "RejectRemoved"} \cup RobotFailures
LineCommands == {"conveyor.RequestPartArrived", "robot.Pick", "robot.Place",
                 "robot.RemoveReject"}

(* What is tracked, and what is not.                                       *)
LEMMA TrackedFrames ==
  /\ Tracked = Requests \cup Refusals \cup {Accepting, Rejecting} \cup Strays
               \cup {RobotStatus(m) : m \in RobotResults}
               \cup {Command(c) : c \in LineCommands}
  /\ Tracked = For("controller") \cup For("conveyor") \cup For("vision") \cup For("robot")
<1>1. Tracked = For("controller") \cup For("conveyor") \cup For("vision") \cup For("robot")
  BY DEF Tracked, Participants, Devices
<1>. QED
  BY <1>1 DEF For, Requests, Strays, RobotResults, RobotFailures, LineCommands

(* Nothing else makes up a journey.                                        *)
LEMMA JourneyTracked ==
  \A p : Journey(p) \subseteq Tracked
BY TrackedFrames DEF Journey, RobotResults, RobotFailures, LineCommands

(* Heartbeats, reports and commands that only start or stop a device.      *)
LEMMA Untracked ==
  /\ ControllerHeartbeat \notin Tracked
  /\ \A c \in Commands \ LineCommands : Command(c) \notin Tracked \ Strays
  /\ \A m \in RobotMessages \ RobotResults : RobotStatus(m) \notin Tracked
  /\ \A m \in ConveyorMessages \ {"PartArrived", "ConveyorFault"} : ConveyorStatus(m) \notin Tracked
  /\ VisionStatus("VisionHeartbeat") \notin Tracked
BY TrackedFrames
DEF Requests, Refusals, Accepting, Rejecting, Strays, RobotResults, RobotFailures, LineCommands,
    Command, NoStatus, ConveyorStatus, VisionStatus, RobotStatus, ControllerHeartbeat, Commands,
    RobotCommands, ConveyorCommands, VisionCommands, RobotMessages, ConveyorMessages

(* Commands and statuses are frames, and a command is known by its id.     *)
LEMMA FramesAre ==
  /\ ControllerHeartbeat \in Frame
  /\ \A c \in Commands : Command(c) \in Frame
  /\ \A m \in RobotMessages : RobotStatus(m) \in Frame
  /\ \A m \in ConveyorMessages : ConveyorStatus(m) \in Frame
  /\ \A m \in VisionMessages : VisionStatus(m) \in Frame
BY DEF Frame, CommandFrames, StatusFrames

(* Being a frame, it has no status.                                        *)
LEMMA FrameOfCommand ==
  ASSUME NEW f \in Frame, f.id \in Commands PROVE f = Command(f.id)
BY DEF Frame, CommandFrames, StatusFrames, ControllerHeartbeat, Command,
   RobotStatus, ConveyorStatus, VisionStatus, Commands, RobotCommands,
   ConveyorCommands, VisionCommands

(* A call that sends none of the frames counted, ...                       *)
LEMMA SaysNone ==
  ASSUME NEW p, NEW fs \in Seq(Frame), \A i \in DOMAIN fs : fs[i] \notin Tracked, Send(p, fs), NEW g
  PROVE  Says(p, fs, g)
<1>1. ASSUME NEW H \in SUBSET Tracked PROVE HowMany(fs, H) <= Is(g, H)
  <2>1. HowMany(fs, H) = 0
    BY CountNone
  <2>. QED
    BY <2>1 DEF Is
<1>. QED
  BY <1>1 DEF Says, Send

(* ... such as a single frame that is not tracked, ...                     *)
LEMMA SaysAside ==
  ASSUME NEW p, NEW f \in Frame \ Tracked, Send(p, <<f>>), NEW g
  PROVE  Says(p, <<f>>, g)
<1>1. <<f>> \in Seq(Frame) /\ \A i \in DOMAIN <<f>> : <<f>>[i] \notin Tracked
  OBVIOUS
<1>. QED
  BY <1>1, SaysNone

(* ... one of them, ...                                                    *)
LEMMA SaysOne ==
  ASSUME NEW p, NEW fs \in Seq(Frame), NEW k \in DOMAIN fs,
         \A i \in DOMAIN fs : i # k => fs[i] \notin Tracked, Send(p, fs)
  PROVE  Says(p, fs, fs[k])
<1>1. ASSUME NEW H \in SUBSET Tracked PROVE HowMany(fs, H) <= Is(fs[k], H)
  <2>1. HowMany(fs, H) = Is(fs[k], H)
    BY CountOne
  <2>. QED
    BY <2>1 DEF Is
<1>. QED
  BY <1>1 DEF Says, Send

(* ... or nothing.                                                         *)
LEMMA SaysNothing ==
  ASSUME TypeOK, NEW p \in Participants, UNCHANGED tx, NEW g
  PROVE  Says(p, <<>>, g)
<1>1. tx[p] \in Seq(Frame) /\ tx \in [Participants -> Seq(Frame)]
  BY DEF TypeOK
<1>2. PushAll(tx[p], <<>>) = tx[p]
  <2>1. Len(tx[p]) \in Nat
    BY <1>1, LenProperties
  <2>2. \A k \in Int : k < 1 => SubSeq(<<>>, 1, k) = <<>>
    BY SubSeqEmpty
  <2>3. tx[p] \o <<>> = tx[p]
    BY <1>1, ConcatEmptySeq
  <2>. DEFINE room == QueueCapacity - Len(tx[p])
              kept == IF Len(<<>>) <= room THEN Len(<<>>) ELSE room
  <2>4. kept \in Int /\ kept < 1
    BY <2>1, QueueCapacityAssumption
  <2>5. PushAll(tx[p], <<>>) = tx[p] \o SubSeq(<<>>, 1, kept)
    BY DEF PushAll
  <2>. HIDE DEF kept
  <2>. QED
    BY <2>2, <2>3, <2>4, <2>5
<1>3. tx' = [tx EXCEPT ![p] = PushAll(@, <<>>)]
  BY <1>1, <1>2
<1>4. <<>> \in Seq(Frame) /\ \A i \in DOMAIN <<>> : <<>>[i] \notin Tracked
  OBVIOUS
<1>. QED
  BY <1>3, <1>4, SaysNone DEF Send

-----------------------------------------------------------------------------
(* A conveyor that is asked for a part sends it on, or reports a fault.    *)
LEMMA ConveyorSays ==
  ASSUME TypeOK, NEW f \in Frame, f \notin Strays \cap For("conveyor"), ConveyorReceive(f)
  PROVE  \E fs, g : /\ Says("conveyor", fs, g)
                    /\ \/ g \notin Tracked
                       \/ /\ f = Command("conveyor.RequestPartArrived")
                          /\ g \in {ConveyorStatus("PartArrived"), ConveyorStatus("ConveyorFault")}
<1>1. "conveyor" \in Participants
  BY DEF Participants, Devices
<1>2. CASE UNCHANGED tx
  BY <1>1, <1>2, SaysNothing, Untracked
<1>3. ASSUME NEW m \in ConveyorMessages \ {"PartArrived", "ConveyorFault"},
             Send("conveyor", <<ConveyorStatus(m)>>)
      PROVE  Says("conveyor", <<ConveyorStatus(m)>>, ControllerHeartbeat)
  BY <1>3, FramesAre, Untracked, SaysAside
<1>4. ASSUME NEW m \in ConveyorMessages, Send("conveyor", <<ConveyorStatus(m)>>)
      PROVE  Says("conveyor", <<ConveyorStatus(m)>>, ConveyorStatus(m))
  <2>. DEFINE fs == <<ConveyorStatus(m)>>
  <2>1. fs \in Seq(Frame) /\ 1 \in DOMAIN fs /\ fs[1] = ConveyorStatus(m)
        /\ \A i \in DOMAIN fs : i = 1
    BY FramesAre
  <2>2. Send("conveyor", fs)
    BY <1>4
  <2>. HIDE DEF fs
  <2>. QED
    BY <2>1, <2>2, SaysOne DEF fs
<1>5. \/ UNCHANGED tx
      \/ \E m \in ConveyorMessages \ {"PartArrived", "ConveyorFault"} :
           Send("conveyor", <<ConveyorStatus(m)>>)
      \/ \E m \in {"PartArrived", "ConveyorFault"} :
           /\ Send("conveyor", <<ConveyorStatus(m)>>)
           /\ f.id \in {"conveyor.RequestPartArrived", "conveyor.InjectFault"}
  BY DEF ConveyorReceive, MovePart, HearController, ConveyorStart, ConveyorPublish, Publish,
     ConveyorShutdown, Quiet, ConveyorMessages, watchdogVars
<1>6. f.id \in {"conveyor.RequestPartArrived", "conveyor.InjectFault"} =>
        f = Command("conveyor.RequestPartArrived")
  BY FrameOfCommand DEF Strays, For, Commands, ConveyorCommands
<1>. QED
  BY <1>2, <1>3, <1>4, <1>5, <1>6, Untracked DEF ConveyorMessages

(* A sensor that gets a part sends one result, and remembers the verdict.  *)
LEMMA VisionSays ==
  ASSUME TypeOK, NEW f \in Frame, f \notin Strays \cap For("vision"), VisionReceive(f)
  PROVE  \E fs, g :
           /\ Says("vision", fs, g)
           /\ \/ g \notin Tracked /\ UNCHANGED <<input_part_counter, last_result>>
              \/ /\ f = ConveyorStatus("PartArrived")
                 /\ input_part_counter' = NextPartId(input_part_counter)
                 /\ \/ g \in Refusals /\ UNCHANGED last_result
                    \/ \E v \in Verdicts :
                         /\ last_result' = [part_id |-> input_part_counter', verdict |-> v]
                         /\ g = IF v = "Valid" THEN Accepting ELSE Rejecting
<1>1. "vision" \in Participants
  BY DEF Participants, Devices
<1>2. ASSUME UNCHANGED tx PROVE Says("vision", <<>>, ControllerHeartbeat)
  BY <1>1, <1>2, SaysNothing
<1>3. ASSUME Send("vision", <<VisionStatus("VisionHeartbeat")>>)
      PROVE  Says("vision", <<VisionStatus("VisionHeartbeat")>>, ControllerHeartbeat)
  BY <1>3, FramesAre, Untracked, SaysAside DEF VisionMessages
<1>4. ASSUME NEW m \in VisionMessages,
             Send("vision", <<VisionStatus(m), VisionStatus("VisionHeartbeat")>>)
      PROVE  Says("vision", <<VisionStatus(m), VisionStatus("VisionHeartbeat")>>, VisionStatus(m))
  <2>. DEFINE fs == <<VisionStatus(m), VisionStatus("VisionHeartbeat")>>
  <2>1. fs \in Seq(Frame) /\ 1 \in DOMAIN fs /\ fs[1] = VisionStatus(m)
        /\ \A i \in DOMAIN fs : i # 1 => fs[i] = VisionStatus("VisionHeartbeat")
    BY FramesAre DEF VisionMessages
  <2>2. Send("vision", fs)
    BY <1>4
  <2>. HIDE DEF fs
  <2>. QED
    BY <2>1, <2>2, SaysOne, Untracked DEF fs
<1>5. f.id \notin {"vision.ProcessTick", "vision.InjectFault", "vision.InjectTimeout"}
  BY FrameOfCommand DEF Strays, For, Commands, VisionCommands
<1>6. CASE UNCHANGED <<tx, visionVars>>
  <2>1. Says("vision", <<>>, ControllerHeartbeat) /\ UNCHANGED <<input_part_counter, last_result>>
    BY <1>2, <1>6 DEF visionVars
  <2>. QED
    BY <2>1, Untracked
<1>7. CASE Send("vision", <<VisionStatus("VisionHeartbeat")>>) /\ UNCHANGED visionVars
  <2>1. UNCHANGED <<input_part_counter, last_result>>
    BY <1>7 DEF visionVars
  <2>. QED
    BY <1>3, <1>7, <2>1, Untracked
<1>8. CASE f = ConveyorStatus("PartArrived") /\ \E image \in Verdicts : PartArrives(image)
  <2>1. PICK v \in Verdicts : PartArrives(v)
    BY <1>8
  <2>2. input_part_counter' = NextPartId(input_part_counter)
    BY <2>1 DEF PartArrives
  <2>3. \/ \E m \in {"VisionFault", "VisionTimeout"} : VisionPublish(m) /\ UNCHANGED last_result
        \/ /\ VisionPublish(VerdictMessage(v))
           /\ last_result' = [part_id |-> input_part_counter', verdict |-> v]
    BY <2>1 DEF PartArrives, RunInspectionCycle
  <2>4. ASSUME NEW m \in {"VisionFault", "VisionTimeout"}, VisionPublish(m)
        PROVE  \E fs : Says("vision", fs, VisionStatus(m)) /\ VisionStatus(m) \in Refusals
    BY <1>4, <2>4 DEF VisionPublish, Publish, Refusals, VisionMessages
  <2>5. ASSUME VisionPublish(VerdictMessage(v))
        PROVE  \E fs : Says("vision", fs, IF v = "Valid" THEN Accepting ELSE Rejecting)
    BY <1>4, <2>5 DEF VisionPublish, Publish, VerdictMessage, VisionMessages, Accepting, Rejecting
  <2>. QED
    BY <1>8, <2>2, <2>3, <2>4, <2>5
<1>9. \/ UNCHANGED <<tx, visionVars>>
      \/ Send("vision", <<VisionStatus("VisionHeartbeat")>>) /\ UNCHANGED visionVars
      \/ f = ConveyorStatus("PartArrived") /\ \E image \in Verdicts : PartArrives(image)
  BY <1>5 DEF VisionReceive, VisionObey, HearController, VisionShutdown, Quiet, Publish
<1>. QED
  BY <1>6, <1>7, <1>8, <1>9

(* A robot that is given a motion reports one result of that motion.       *)
Results(f) ==
  CASE f = Command("robot.Pick") -> {RobotStatus("PickCompleted"), RobotStatus("PickFailed")}
    [] f = Command("robot.Place") -> {RobotStatus("PlaceCompleted"), RobotStatus("MotionFailed")}
    [] f = Command("robot.RemoveReject") ->
         {RobotStatus("RejectRemoved"), RobotStatus("PickFailed")}
    [] OTHER -> {}

(* A report of the robot without a result, ...                             *)
LEMMA ReportNone ==
  ASSUME NEW ms \in Seq(RobotMessages \ RobotResults), Send("robot", RobotReport(ms)), NEW g
  PROVE  Says("robot", RobotReport(ms), g)
<1>1. Len(ms) \in Nat /\ \A i \in 1 .. Len(ms) : ms[i] \in RobotMessages \ RobotResults
  BY ElementOfSeq, LenProperties
<1>2. RobotReport(ms) \in Seq(Frame) /\ DOMAIN RobotReport(ms) = 1 .. Len(ms)
  BY <1>1, FramesAre, IsASeq DEF RobotReport
<1>3. \A i \in 1 .. Len(ms) : RobotReport(ms)[i] \notin Tracked
  BY <1>1, Untracked DEF RobotReport
<1>. QED
  BY <1>2, <1>3, SaysNone

(* ... and one with a result amid its other messages.                      *)
LEMMA ReportOne ==
  ASSUME NEW first \in Seq(RobotMessages \ RobotResults), NEW m \in RobotMessages,
         Send("robot", RobotReport(first \o <<m, "RobotReady", "RobotHeartbeat">>))
  PROVE  \E fs : Says("robot", fs, RobotStatus(m))
<1>. DEFINE rest == <<m, "RobotReady", "RobotHeartbeat">>
            ms == first \o rest
            k == Len(first) + 1
<1>1. first \in Seq(RobotMessages) /\ rest \in Seq(RobotMessages) /\ Len(rest) = 3
  <2>1. RobotMessages \ RobotResults \subseteq RobotMessages
    OBVIOUS
  <2>. QED
    BY <2>1, SeqMonotonic DEF RobotMessages
<1>2. /\ ms \in Seq(RobotMessages) /\ Len(ms) = Len(first) + Len(rest)
      /\ \A i \in 1 .. Len(first) + Len(rest) :
           ms[i] = IF i <= Len(first) THEN first[i] ELSE rest[i - Len(first)]
  BY <1>1, ConcatProperties
<1>3. Len(first) \in Nat /\ \A i \in 1 .. Len(first) : first[i] \in RobotMessages \ RobotResults
  BY ElementOfSeq, LenProperties
<1>4. rest[1] = m /\ \A j \in {2, 3} : rest[j] \in RobotMessages \ RobotResults
  BY DEF RobotMessages, RobotResults, RobotFailures
<1>5. \A i \in 1 .. Len(ms) : ms[i] \in RobotMessages
  BY <1>2, ElementOfSeq
<1>6. k \in 1 .. Len(ms) /\ ms[k] = m
      /\ \A i \in 1 .. Len(ms) : i # k => ms[i] \in RobotMessages \ RobotResults
  <2>1. k \in 1 .. Len(ms) /\ ms[k] = m
    BY <1>1, <1>2, <1>3, <1>4
  <2>2. ASSUME NEW i \in 1 .. Len(ms), i # k PROVE ms[i] \in RobotMessages \ RobotResults
    <3>1. CASE i <= Len(first)
      BY <1>1, <1>2, <1>3, <3>1
    <3>2. CASE ~(i <= Len(first))
      <4>1. i - Len(first) \in {2, 3}
        BY <1>1, <1>2, <1>3, <2>2, <3>2
      <4>. QED
        BY <1>1, <1>2, <1>3, <1>4, <3>2, <4>1
    <3>. QED
      BY <3>1, <3>2
  <2>. QED
    BY <2>1, <2>2
<1>. HIDE DEF ms, k
<1>7. Len(ms) \in Nat
  BY <1>2, LenProperties
<1>8. RobotReport(ms) \in Seq(Frame) /\ DOMAIN RobotReport(ms) = 1 .. Len(ms)
      /\ RobotReport(ms)[k] = RobotStatus(m)
      /\ \A i \in 1 .. Len(ms) : i # k => RobotReport(ms)[i] \notin Tracked
  <2>1. RobotReport(ms) \in Seq(Frame)
    BY <1>5, <1>7, FramesAre, IsASeq DEF RobotReport
  <2>. QED
    BY <1>6, <2>1, Untracked DEF RobotReport
<1>9. Send("robot", RobotReport(ms))
  BY DEF ms
<1>. QED
  BY <1>6, <1>8, <1>9, SaysOne

(* The other messages.                                                     *)
LEMMA RobotTexts ==
  LET Plain == RobotMessages \ RobotResults
  IN  /\ HomeMessages \in Seq(Plain) /\ StopMessages \in Seq(Plain) /\ ParkMessages \in Seq(Plain)
      /\ <<"RobotBusy", "PickStarted">> \in Seq(Plain) /\ <<"RobotBusy">> \in Seq(Plain)
      /\ <<"RobotIdle", "RobotHeartbeat">> \in Seq(Plain) /\ <<"RobotHeartbeat">> \in Seq(Plain)
<1>. DEFINE Plain == RobotMessages \ RobotResults
<1>1. /\ HomeMessages \in Seq(Plain) /\ StopMessages \in Seq(Plain)
      /\ <<"RobotBusy", "PickStarted">> \in Seq(Plain) /\ <<"RobotBusy">> \in Seq(Plain)
      /\ <<"RobotIdle", "RobotHeartbeat">> \in Seq(Plain) /\ <<"RobotHeartbeat">> \in Seq(Plain)
  BY DEF HomeMessages, StopMessages, RobotMessages, RobotResults, RobotFailures
<1>2. ParkMessages \in Seq(Plain)
  BY <1>1, ConcatProperties DEF ParkMessages
<1>. QED
  BY <1>1, <1>2

(* Whatever frame the robot gets.                                          *)
LEMMA RobotSays ==
  ASSUME TypeOK, NEW f \in Frame, RobotReceive(f)
  PROVE  \E fs, g : Says("robot", fs, g) /\ (g \notin Tracked \/ g \in Results(f))
<1>1. "robot" \in Participants
  BY DEF Participants, Devices
<1>2. CASE UNCHANGED tx
  BY <1>1, <1>2, SaysNothing, Untracked
<1>3. ASSUME NEW ms \in Seq(RobotMessages \ RobotResults), Send("robot", RobotReport(ms))
      PROVE  Says("robot", RobotReport(ms), ControllerHeartbeat)
  BY <1>3, ReportNone
<1>4. CASE f.id = "robot.Pick" /\ Pick
  <2>1. f = Command("robot.Pick")
    BY <1>4, FrameOfCommand DEF Commands, RobotCommands
  <2>2. \E m \in {"PickCompleted", "PickFailed"} :
          Send("robot", RobotReport(<<"RobotBusy", "PickStarted">>
                                    \o <<m, "RobotReady", "RobotHeartbeat">>))
    BY <1>4 DEF Pick, Motion, RobotPublish, Publish
  <2>3. \E m \in {"PickCompleted", "PickFailed"} : \E fs : Says("robot", fs, RobotStatus(m))
    BY <2>2, ReportOne, RobotTexts DEF RobotMessages
  <2>. QED
    BY <2>1, <2>3 DEF Results, Command
<1>5. CASE f.id = "robot.Place" /\ Place
  <2>1. f = Command("robot.Place")
    BY <1>5, FrameOfCommand DEF Commands, RobotCommands
  <2>2. \E m \in {"PlaceCompleted", "MotionFailed"} :
          Send("robot", RobotReport(<<"RobotBusy">> \o <<m, "RobotReady", "RobotHeartbeat">>))
    BY <1>5 DEF Place, Motion, RobotPublish, Publish
  <2>3. \E m \in {"PlaceCompleted", "MotionFailed"} : \E fs : Says("robot", fs, RobotStatus(m))
    BY <2>2, ReportOne, RobotTexts DEF RobotMessages
  <2>. QED
    BY <2>1, <2>3 DEF Results, Command
<1>6. CASE f.id = "robot.RemoveReject" /\ RemoveReject
  <2>1. f = Command("robot.RemoveReject")
    BY <1>6, FrameOfCommand DEF Commands, RobotCommands
  <2>2. \E m \in {"RejectRemoved", "PickFailed"} :
          Send("robot", RobotReport(<<"RobotBusy", "PickStarted">>
                                    \o <<m, "RobotReady", "RobotHeartbeat">>))
    BY <1>6 DEF RemoveReject, Motion, RobotPublish, Publish
  <2>3. \E m \in {"RejectRemoved", "PickFailed"} : \E fs : Says("robot", fs, RobotStatus(m))
    BY <2>2, ReportOne, RobotTexts DEF RobotMessages
  <2>. QED
    BY <2>1, <2>3 DEF Results, Command
<1>7. CASE \E ms \in {HomeMessages, StopMessages, <<"RobotIdle", "RobotHeartbeat">>, ParkMessages} :
             Send("robot", RobotReport(ms))
  <2>1. \E ms \in Seq(RobotMessages \ RobotResults) : Send("robot", RobotReport(ms))
    BY <1>7, RobotTexts
  <2>. QED
    BY <1>3, <2>1, Untracked
<1>8. \/ UNCHANGED tx
      \/ f.id = "robot.Pick" /\ Pick
      \/ f.id = "robot.Place" /\ Place
      \/ f.id = "robot.RemoveReject" /\ RemoveReject
      \/ \E ms \in {HomeMessages, StopMessages, <<"RobotIdle", "RobotHeartbeat">>, ParkMessages} :
           Send("robot", RobotReport(ms))
  BY DEF RobotReceive, RobotObey, RobotShutdown, RobotPublish, Publish, HearController, Quiet
<1>. QED
  BY <1>2, <1>4, <1>5, <1>6, <1>7, <1>8

(* Between frames, no device moves a part on.                              *)
LEMMA DeviceTickSays ==
  ASSUME TypeOK, DeviceStep
  PROVE  \E p \in Participants : \E fs, g : Says(p, fs, g) /\ g \notin Tracked
<1>1. {"conveyor", "vision", "robot"} \subseteq Participants
  BY DEF Participants, Devices
<1>2. CASE ConveyorTick
  <2>1. \/ UNCHANGED tx
        \/ \E m \in {"ConveyorHeartbeat", "ConveyorStopped"} :
             Send("conveyor", <<ConveyorStatus(m)>>)
    BY <1>2 DEF ConveyorTick, WatchdogTick
  <2>2. ASSUME NEW m \in {"ConveyorHeartbeat", "ConveyorStopped"},
               Send("conveyor", <<ConveyorStatus(m)>>)
        PROVE  Says("conveyor", <<ConveyorStatus(m)>>, ControllerHeartbeat)
    BY <2>2, FramesAre, Untracked, SaysAside DEF ConveyorMessages
  <2>. QED
    BY <1>1, <2>1, <2>2, SaysNothing, Untracked
<1>3. CASE VisionTick
  <2>1. UNCHANGED tx \/ Send("vision", <<VisionStatus("VisionHeartbeat")>>) \/ Send("vision", <<>>)
    BY <1>3 DEF VisionTick, WatchdogTick
  <2>2. ASSUME Send("vision", <<VisionStatus("VisionHeartbeat")>>)
        PROVE  Says("vision", <<VisionStatus("VisionHeartbeat")>>, ControllerHeartbeat)
    BY <2>2, FramesAre, Untracked, SaysAside DEF VisionMessages
  <2>3. ASSUME Send("vision", <<>>) PROVE Says("vision", <<>>, ControllerHeartbeat)
    <3>1. <<>> \in Seq(Frame) /\ DOMAIN <<>> = {}
      OBVIOUS
    <3>. QED
      BY <2>3, <3>1, SaysNone
  <2>. QED
    BY <1>1, <2>1, <2>2, <2>3, SaysNothing, Untracked
<1>4. CASE RobotTick
  <2>1. \/ UNCHANGED tx
        \/ \E ms \in {<<"RobotHeartbeat">>, ParkMessages} : Send("robot", RobotReport(ms))
    BY <1>4 DEF RobotTick, WatchdogTick
  <2>2. UNCHANGED tx \/ \E ms \in Seq(RobotMessages \ RobotResults) : Send("robot", RobotReport(ms))
    BY <2>1, RobotTexts
  <2>. QED
    BY <1>1, <2>2, ReportNone, SaysNothing, Untracked
<1>. QED
  BY <1>2, <1>3, <1>4 DEF DeviceStep

-----------------------------------------------------------------------------
(* The controller.                                                         *)

progress == <<processed, accepted, rejected>>

(* None of these moves a part on.                                          *)
LEMMA ControllerFrames ==
  /\ <<>> \in Seq(Frame)
  /\ \A i \in DOMAIN <<>> : <<>>[i] \notin Tracked
  /\ <<ControllerHeartbeat>> \in Seq(Frame)
  /\ \A i \in DOMAIN <<ControllerHeartbeat>> : <<ControllerHeartbeat>>[i] \notin Tracked
  /\ ShutdownFrames \in Seq(Frame)
  /\ \A i \in DOMAIN ShutdownFrames : ShutdownFrames[i] \notin Tracked
<1>. DEFINE Stops == {"conveyor.Shutdown", "robot.Shutdown", "vision.Shutdown", "robot.Stop",
                      "conveyor.Stop"}
<1>1. \A c \in Stops : Command(c) \in Frame /\ Command(c) \notin Tracked
  <2>1. Stops \subseteq Commands \ LineCommands
    BY DEF Commands, LineCommands, RobotCommands, ConveyorCommands, VisionCommands
  <2>2. \A c \in Stops : Command(c) \notin Strays
    BY DEF Strays, Command, NoStatus, RobotStatus
  <2>. QED
    BY <2>1, <2>2, FramesAre, Untracked
<1>2. /\ ShutdownFrames \in Seq(Frame)
      /\ \A i \in DOMAIN ShutdownFrames : ShutdownFrames[i] \notin Tracked
  BY <1>1 DEF ShutdownFrames
<1>3. ControllerHeartbeat \in Frame /\ ControllerHeartbeat \notin Tracked
  BY FramesAre, Untracked
<1>. QED
  BY <1>2, <1>3

(* What Append does, index by index.                                       *)
LEMMA Appended ==
  ASSUME NEW S, NEW s \in Seq(S), NEW f \in S
  PROVE  /\ Append(s, f) \in Seq(S) /\ Len(Append(s, f)) = Len(s) + 1
         /\ \A i \in 1 .. Len(s) : Append(s, f)[i] = s[i]
         /\ Append(s, f)[Len(s) + 1] = f
BY AppendProperties

(* A controller that faults moves no part on.                              *)
LEMMA FaultSays ==
  ASSUME NEW sent \in {<<>>, <<ControllerHeartbeat>>}, EnterFault(sent)
  PROVE  phase' = "Faulted" /\ \E fs : Says("controller", fs, ControllerHeartbeat)
<1>. DEFINE fs == IF fault_latched THEN sent ELSE sent \o ShutdownFrames
<1>1. sent \in Seq(Frame) /\ \A i \in DOMAIN sent : sent[i] \notin Tracked
  BY ControllerFrames
<1>2. sent \o ShutdownFrames \in Seq(Frame)
      /\ \A i \in DOMAIN (sent \o ShutdownFrames) : (sent \o ShutdownFrames)[i] \notin Tracked
  <2>. DEFINE t == ShutdownFrames
  <2>1. /\ t \in Seq(Frame) /\ DOMAIN t = 1 .. Len(t) /\ Len(t) \in Nat
        /\ DOMAIN sent = 1 .. Len(sent) /\ Len(sent) \in Nat
        /\ \A i \in DOMAIN t : t[i] \notin Tracked
    BY <1>1, ControllerFrames, LenProperties
  <2>. HIDE DEF t
  <2>2. /\ sent \o t \in Seq(Frame) /\ Len(sent \o t) = Len(sent) + Len(t)
        /\ \A i \in 1 .. Len(sent) + Len(t) :
             (sent \o t)[i] = IF i <= Len(sent) THEN sent[i] ELSE t[i - Len(sent)]
    BY <1>1, <2>1, ConcatProperties
  <2>3. DOMAIN (sent \o t) = 1 .. Len(sent) + Len(t)
    BY <2>2, LenProperties
  <2>4. ASSUME NEW i \in 1 .. Len(sent) + Len(t) PROVE (sent \o t)[i] \notin Tracked
    <3>1. CASE i <= Len(sent)
      BY <1>1, <2>1, <2>2, <3>1
    <3>2. CASE ~(i <= Len(sent))
      <4>1. i - Len(sent) \in 1 .. Len(t)
        BY <2>1, <3>2
      <4>. QED
        BY <2>1, <2>2, <3>2, <4>1
    <3>. QED
      BY <3>1, <3>2
  <2>. QED
    BY <2>2, <2>3, <2>4 DEF t
<1>3. fs \in Seq(Frame) /\ \A i \in DOMAIN fs : fs[i] \notin Tracked
  BY <1>1, <1>2
<1>4. Send("controller", fs) /\ phase' = "Faulted"
  BY DEF EnterFault, ControllerSend
<1>. HIDE DEF fs
<1>. QED
  BY <1>3, <1>4, SaysNone

Request == Command("conveyor.RequestPartArrived")

(* A tick of the controller requests the first part, once, or none.        *)
LEMMA ControllerTickSays ==
  ASSUME TypeOK, ControllerTick
  PROVE  \E fs, g :
           /\ Says("controller", fs, g)
           /\ UNCHANGED progress
           /\ \/ g \notin Tracked /\ UNCHANGED <<phase, bootstrapped>>
              \/ g \notin Tracked /\ ~Stopped /\ phase' = "Faulted"
              \/ /\ g = Request
                 /\ ~Stopped /\ ~bootstrapped
                 /\ bootstrapped' = TRUE /\ phase' = "WaitingInspection"
<1>1. CASE Stopped /\ Ignore
  <2>1. UNCHANGED <<phase, bootstrapped, progress, tx>> /\ "controller" \in Participants
    BY <1>1 DEF Ignore, controllerVars, progress, Participants
  <2>. QED
    BY <2>1, SaysNothing, Untracked
<1>2. CASE RunningTick
  <2>1. UNCHANGED progress /\ ~Stopped
    BY <1>2 DEF RunningTick, progress
  <2>2. CASE EnterFault(<<ControllerHeartbeat>>)
    BY <2>1, <2>2, FaultSays, Untracked
  <2>3. CASE ControllerSend(<<ControllerHeartbeat>>) /\ UNCHANGED <<phase, bootstrapped>>
    <3>1. Send("controller", <<ControllerHeartbeat>>)
      BY <2>3 DEF ControllerSend
    <3>2. Says("controller", <<ControllerHeartbeat>>, ControllerHeartbeat)
      BY <3>1, ControllerFrames, SaysNone
    <3>. QED
      BY <2>1, <2>3, <3>2, Untracked
  <2>4. CASE /\ ~bootstrapped /\ bootstrapped' = TRUE
             /\ RequestNextPart(<<ControllerHeartbeat, Command("robot.Home"),
                                  Command("conveyor.Start")>>)
    <3>. DEFINE s == <<ControllerHeartbeat, Command("robot.Home"), Command("conveyor.Start")>>
                fs == Append(s, Request)
    <3>1. Command("robot.Home") \notin Tracked /\ Command("conveyor.Start") \notin Tracked
      <4>1. {"robot.Home", "conveyor.Start"} \subseteq Commands \ LineCommands
        BY DEF Commands, LineCommands, RobotCommands, ConveyorCommands
      <4>2. Command("robot.Home") \notin Strays /\ Command("conveyor.Start") \notin Strays
        BY DEF Strays, Command, NoStatus, RobotStatus
      <4>. QED
        BY <4>1, <4>2, Untracked
    <3>2. s \in Seq(Frame) /\ Len(s) = 3 /\ Request \in Frame
          /\ \A i \in 1 .. 3 : s[i] \notin Tracked
      BY <3>1, FramesAre, Untracked DEF Commands, RobotCommands, ConveyorCommands, Request
    <3>. HIDE DEF s
    <3>3. /\ fs \in Seq(Frame) /\ Len(fs) = 4 /\ fs[4] = Request
          /\ \A i \in 1 .. 3 : fs[i] \notin Tracked
      <4>1. s \in Seq(Frame) /\ Request \in Frame
        BY <3>2
      <4>. HIDE DEF Request
      <4>3. /\ fs \in Seq(Frame) /\ Len(fs) = Len(s) + 1
            /\ \A i \in 1 .. Len(s) : fs[i] = s[i]
            /\ fs[Len(s) + 1] = Request
        BY <4>1, Appended
      <4>2. Len(s) = 3 /\ Len(s) + 1 = 4
        BY <3>2
      <4>. QED
        BY <3>2, <4>2, <4>3
    <3>4. Send("controller", fs) /\ phase' = "WaitingInspection"
      BY <2>4 DEF RequestNextPart, ControllerSend, s, Request
    <3>. HIDE DEF fs
    <3>5. DOMAIN fs = 1 .. 4
      BY <3>3, LenProperties
    <3>6. 4 \in DOMAIN fs /\ \A i \in DOMAIN fs : i # 4 => fs[i] \notin Tracked
      BY <3>3, <3>5
    <3>7. Says("controller", fs, Request)
      BY <3>3, <3>4, <3>6, SaysOne
    <3>. QED
      BY <2>1, <2>4, <3>4, <3>7
  <2>. QED
    BY <1>2, <2>2, <2>3, <2>4 DEF RunningTick
<1>. QED
  BY <1>1, <1>2 DEF ControllerTick

(* One command.                                                            *)
LEMMA CommandSays ==
  ASSUME NEW c \in Commands, ControllerSend(<<Command(c)>>)
  PROVE  Says("controller", <<Command(c)>>, Command(c))
<1>. DEFINE fs == <<Command(c)>>
<1>1. fs \in Seq(Frame) /\ 1 \in DOMAIN fs /\ fs[1] = Command(c) /\ \A i \in DOMAIN fs : i = 1
  BY FramesAre
<1>2. Send("controller", fs)
  BY DEF ControllerSend
<1>. HIDE DEF fs
<1>. QED
  BY <1>1, <1>2, SaysOne DEF fs

Faults == Refusals \cup {RobotStatus(m) : m \in RobotFailures}

(* What the next command of the part is.                                   *)
Moves(f, from, g, to) == <<f, from, g, to>> \in
  {<<Accepting, "WaitingInspection", Command("robot.Pick"), "WaitingPickComplete">>,
   <<Rejecting, "WaitingInspection", Command("robot.RemoveReject"), "WaitingRejectRemoval">>,
   <<RobotStatus("PickCompleted"), "WaitingPickComplete", Command("robot.Place"),
     "WaitingPlaceComplete">>}

(* A part is done.                                                         *)
Done(f) ==
  /\ processed' = processed + 1
  /\ \/ /\ f = RobotStatus("PlaceCompleted") /\ phase = "WaitingPlaceComplete"
        /\ accepted' = accepted + 1 /\ UNCHANGED rejected
     \/ /\ f = RobotStatus("RejectRemoved") /\ phase = "WaitingRejectRemoval"
        /\ rejected' = rejected + 1 /\ UNCHANGED accepted
  /\ UNCHANGED bootstrapped

(* A status is known by its message.                                       *)
LEMMA FrameOfStatus ==
  ASSUME NEW f \in Frame
  PROVE  /\ f.id = "VisionStatus" => f = VisionStatus(f.status)
         /\ f.id = "RoboticArmStatus" => f = RobotStatus(f.status)
         /\ f.id = "ConveyorStatus" => f = ConveyorStatus(f.status)
BY DEF Frame, CommandFrames, StatusFrames, ControllerHeartbeat, Command,
   RobotStatus, ConveyorStatus, VisionStatus, Commands, RobotCommands,
   ConveyorCommands, VisionCommands

(* What a frame makes the controller do: nothing, fault, take the part to the *)
(* next phase with one command, or count it and ask for another.           *)
LEMMA ControllerReceiveSays ==
  ASSUME TypeOK, NEW f \in Frame, ControllerReceive(f)
  PROVE  \E fs, g :
           /\ Says("controller", fs, g)
           /\ \/ g \notin Tracked /\ UNCHANGED <<phase, bootstrapped, progress>>
              \/ /\ g \notin Tracked /\ f \in Faults
                 /\ phase' = "Faulted" /\ UNCHANGED progress
              \/ Moves(f, phase, g, phase') /\ UNCHANGED <<bootstrapped, progress>>
              \/ /\ Done(f)
                 /\ IF processed + 1 >= TargetCycles
                    THEN g \notin Tracked /\ phase' = "Finished"
                    ELSE g = Request /\ phase' = "WaitingInspection"
<1>1. CASE UNCHANGED <<phase, bootstrapped, progress, tx>>
  <2>1. "controller" \in Participants
    BY DEF Participants
  <2>. QED
    BY <1>1, <2>1, SaysNothing, Untracked
<1>2. CASE DeviceFault /\ f \in Faults
  <2>1. EnterFault(<<>>) /\ UNCHANGED progress
    BY <1>2 DEF DeviceFault, progress
  <2>. QED
    BY <1>2, <2>1, FaultSays, Untracked
<1>3. CASE \E c \in {"robot.Pick", "robot.Place", "robot.RemoveReject"}, p \in Phases :
             /\ Moves(f, phase, Command(c), p)
             /\ Instruct(c, p)
  <2>1. PICK c \in {"robot.Pick", "robot.Place", "robot.RemoveReject"}, p \in Phases :
          Moves(f, phase, Command(c), p) /\ Instruct(c, p)
    BY <1>3
  <2>2. ControllerSend(<<Command(c)>>) /\ phase' = p /\ UNCHANGED <<bootstrapped, progress>>
    BY <2>1 DEF Instruct, progress
  <2>3. Says("controller", <<Command(c)>>, Command(c))
    BY <2>2, CommandSays DEF Commands, RobotCommands
  <2>. QED
    BY <2>1, <2>2, <2>3
<1>4. CASE Done(f) /\ CompleteCycle
  <2>1. CASE processed + 1 >= TargetCycles
    <3>1. ControllerSend(<<Command("conveyor.Stop")>>) /\ phase' = "Finished"
      BY <1>4, <2>1 DEF CompleteCycle, FinishRun
    <3>2. Says("controller", <<Command("conveyor.Stop")>>, Command("conveyor.Stop"))
      BY <3>1, CommandSays DEF Commands, ConveyorCommands
    <3>3. Command("conveyor.Stop") \notin Tracked
      <4>1. "conveyor.Stop" \in Commands \ LineCommands
        BY DEF Commands, LineCommands, ConveyorCommands
      <4>2. Command("conveyor.Stop") \notin Strays
        BY DEF Strays, Command, NoStatus, RobotStatus
      <4>. QED
        BY <4>1, <4>2, Untracked
    <3>. QED
      BY <1>4, <2>1, <3>1, <3>2, <3>3
  <2>2. CASE ~(processed + 1 >= TargetCycles)
    <3>1. ControllerSend(Append(<<>>, Request)) /\ phase' = "WaitingInspection"
      BY <1>4, <2>2 DEF CompleteCycle, RequestNextPart, Request
    <3>2. Append(<<>>, Request) = <<Request>>
      OBVIOUS
    <3>3. Says("controller", <<Request>>, Request)
      BY <3>1, <3>2, CommandSays DEF Commands, ConveyorCommands, Request
    <3>. QED
      BY <1>4, <2>2, <3>1, <3>3
  <2>. QED
    BY <2>1, <2>2
<1>5. ASSUME f.id = "VisionStatus", HandleVisionStatus(f.status)
      PROVE  \/ UNCHANGED <<phase, bootstrapped, progress, tx>>
             \/ DeviceFault /\ f \in Faults
             \/ \E c \in {"robot.Pick", "robot.Place", "robot.RemoveReject"}, p \in Phases :
                  Moves(f, phase, Command(c), p) /\ Instruct(c, p)
  <2>1. f = VisionStatus(f.status)
    BY <1>5, FrameOfStatus
  <2>. QED
    BY <1>5, <2>1 DEF HandleVisionStatus, DeviceAlive, Ignore, controllerVars, progress, Faults,
       Refusals, Moves, Accepting, Rejecting, Phases
<1>6. ASSUME f.id = "RoboticArmStatus", HandleRobotStatus(f.status)
      PROVE  \/ UNCHANGED <<phase, bootstrapped, progress, tx>>
             \/ DeviceFault /\ f \in Faults
             \/ \E c \in {"robot.Pick", "robot.Place", "robot.RemoveReject"}, p \in Phases :
                  Moves(f, phase, Command(c), p) /\ Instruct(c, p)
             \/ Done(f) /\ CompleteCycle
  <2>1. f = RobotStatus(f.status)
    BY <1>6, FrameOfStatus
  <2>. QED
    BY <1>6, <2>1 DEF HandleRobotStatus, DeviceAlive, Ignore, controllerVars, progress, Faults,
       Moves, Phases, Done, CompleteCycle
<1>7. ASSUME f.id = "ConveyorStatus", HandleConveyorStatus(f.status)
      PROVE  UNCHANGED <<phase, bootstrapped, progress, tx>> \/ (DeviceFault /\ f \in Faults)
  <2>1. f = ConveyorStatus(f.status)
    BY <1>7, FrameOfStatus
  <2>. QED
    BY <1>7, <2>1 DEF HandleConveyorStatus, DeviceAlive, progress, Faults, Refusals
<1>8. Ignore => UNCHANGED <<phase, bootstrapped, progress, tx>>
  BY DEF Ignore, controllerVars, progress
<1>. QED
  BY <1>1, <1>2, <1>3, <1>4, <1>5, <1>6, <1>7, <1>8 DEF ControllerReceive

-----------------------------------------------------------------------------
(* The numbers of the parts.                                               *)

(* Quotient and remainder make up the number, ...                          *)
LEMMA Division ==
  ASSUME NEW n \in Nat, NEW m \in Nat \ {0}
  PROVE  n = m * (n \div m) + (n % m)
BY SMTT(30)

(* ... the remainder is small, ...                                         *)
LEMMA RemainderRange ==
  ASSUME NEW n \in Nat, NEW m \in Nat \ {0}
  PROVE  n % m \in 0 .. m - 1 /\ n \div m \in Int
OBVIOUS

(* ... and it is the only such number.                                     *)
LEMMA Remainder ==
  ASSUME NEW m \in Nat \ {0}, NEW q \in Int, NEW r \in 0 .. m - 1
  PROVE  (m * q + r) % m = r
BY SMT

(* Remainders go round.                                                    *)
LEMMA NextRemainder ==
  ASSUME NEW n \in Nat, NEW m \in Nat \ {0}
  PROVE  (n + 1) % m = IF (n % m) = m - 1 THEN 0 ELSE (n % m) + 1
<1>. DEFINE q == n \div m
            r == n % m
<1>1. n = m * q + r /\ r \in 0 .. m - 1 /\ q \in Int
  BY Division, RemainderRange
<1>. HIDE DEF q, r
<1>2. CASE r = m - 1
  <2>1. n + 1 = m * (q + 1) + 0 /\ q + 1 \in Int /\ 0 \in 0 .. m - 1
    BY <1>1, <1>2
  <2>2. (m * (q + 1) + 0) % m = 0
    BY <1>1, <2>1, Remainder
  <2>. QED
    BY <1>2, <2>1, <2>2 DEF r
<1>3. CASE r # m - 1
  <2>1. n + 1 = m * q + (r + 1) /\ r + 1 \in 0 .. m - 1
    BY <1>1, <1>3
  <2>2. (m * q + (r + 1)) % m = r + 1
    BY <1>1, <2>1, Remainder
  <2>. QED
    BY <1>3, <2>1, <2>2 DEF r
<1>. QED
  BY <1>2, <1>3

(* The sensor's counter gives the parts the numbers PartIdOf does.         *)
LEMMA NextSeen ==
  ASSUME NEW n \in Nat
  PROVE  /\ NextPartId(SeenAfter(n)) = PartIdOf(n + 1)
         /\ SeenAfter(n + 1) = PartIdOf(n + 1)
         /\ PartIdOf(n + 1) \in PartIds
<1>. DEFINE m == PartIdLimit - 1
<1>1. m \in Nat /\ m > 0 /\ PartIdLimit = m + 1 /\ PartIdLimit > 1 /\ PartIdLimit \in Nat
  BY VisionAssumption
<1>2. \A k \in Nat : k < PartIdLimit => k % PartIdLimit = k
  BY <1>1
<1>3. PartIdLimit % PartIdLimit = 0
  BY <1>1
<1>4. (n + 1) - 1 = n /\ PartIdOf(n + 1) = (n % m) + 1
  BY DEF PartIdOf
<1>5. n % m \in 0 .. m - 1
  BY <1>1, Division, RemainderRange
<1>6. SeenAfter(n + 1) = PartIdOf(n + 1) /\ PartIdOf(n + 1) \in PartIds
  BY <1>1, <1>4, <1>5 DEF SeenAfter, PartIds
<1>7. CASE n = 0
  <2>1. 0 % m = 0
    BY <1>1
  <2>2. NextPartId(0) = 1
    BY <1>1, <1>2 DEF NextPartId
  <2>. QED
    BY <1>4, <1>6, <1>7, <2>1, <2>2 DEF SeenAfter
<1>8. CASE n # 0
  <2>. DEFINE k == n - 1
              r == k % m
  <2>1. k \in Nat /\ n = k + 1
    BY <1>8
  <2>2. r \in 0 .. m - 1 /\ n % m = IF r = m - 1 THEN 0 ELSE r + 1
    BY <1>1, <2>1, RemainderRange, NextRemainder
  <2>3. SeenAfter(n) = r + 1
    BY <1>8 DEF SeenAfter, PartIdOf
  <2>. HIDE DEF r
  <2>4. NextPartId(r + 1) = IF r = m - 1 THEN 1 ELSE r + 2
    <3>1. CASE r = m - 1
      <4>1. (r + 1) + 1 = PartIdLimit
        BY <1>1, <2>2, <3>1
      <4>. QED
        BY <1>3, <3>1, <4>1 DEF NextPartId
    <3>2. CASE r # m - 1
      <4>1. (r + 1) + 1 \in Nat /\ (r + 1) + 1 < PartIdLimit /\ (r + 1) + 1 = r + 2
        BY <1>1, <2>2, <3>2
      <4>2. ((r + 1) + 1) % PartIdLimit = r + 2 /\ r + 2 # 0
        BY <1>2, <2>2, <4>1
      <4>. QED
        BY <3>2, <4>2 DEF NextPartId
    <3>. QED
      BY <3>1, <3>2
  <2>. QED
    BY <1>4, <1>6, <2>2, <2>3, <2>4
<1>. QED
  BY <1>7, <1>8

-----------------------------------------------------------------------------
(* The frame of the part.                                                  *)

(* How many are in flight is a number, before a step and after it.         *)
LEMMA FlyingTyped == TypeOK => \A H : Flying(H) \in Nat
BY FlyingNat

(* And after a step.                                                       *)
LEMMA FlyingNext == (TypeOK => \A H : Flying(H) \in Nat)'
BY FlyingTyped, PTL

(* A frame of a part that is in flight is the only one, ...                *)
LEMMA OnlyFrame ==
  ASSUME TypeOK, OneOfThisPart, phase # "Faulted", NEW f \in Tracked, Flying({f}) > 0
  PROVE  f \in Journey(phase) /\ \A H \in SUBSET Tracked : Flying(H) <= Is(f, H)
<1>1. Flying(Tracked) <= 1 /\ Flying(Tracked \ Journey(phase)) = 0
  BY DEF OneOfThisPart
<1>2. \A H : Flying(H) \in Nat
  BY FlyingTyped
<1>3. f \in Journey(phase)
  <2>1. CASE f \notin Journey(phase)
    <3>1. {f} \in SUBSET (Tracked \ Journey(phase))
      BY <2>1
    <3>2. Flying({f}) <= Flying(Tracked \ Journey(phase))
      BY <3>1, FlyingPart
    <3>. QED
      BY <1>1, <1>2, <3>2
  <2>. QED
    BY <2>1
<1>4. ASSUME NEW H \in SUBSET Tracked PROVE Flying(H) <= Is(f, H)
  <2>1. CASE f \in H
    <3>1. Flying(H) <= Flying(Tracked)
      BY FlyingPart
    <3>. QED
      BY <1>1, <1>2, <2>1, <3>1 DEF Is
  <2>2. CASE f \notin H
    <3>1. Flying(H \cup {f}) = Flying(H) + Flying({f})
      BY <2>2, FlyingSplit
    <3>2. Flying(H \cup {f}) <= Flying(Tracked)
      <4>1. H \cup {f} \in SUBSET Tracked
        OBVIOUS
      <4>. QED
        BY <4>1, FlyingPart
    <3>. QED
      BY <1>1, <1>2, <2>2, <3>1, <3>2 DEF Is
  <2>. QED
    BY <2>1, <2>2
<1>. QED
  BY <1>3, <1>4

(* ... and the one that answers it is the only one after it.               *)
LEMMA Replaced ==
  ASSUME TypeOK, TypeOK', OneOfThisPart, phase # "Faulted", NEW p \in Participants,
         NEW fs, NEW g, Says(p, fs, g), rx[p] # <<>>, rx' = [rx EXCEPT ![p] = Tail(@)],
         UNCHANGED bus, Head(rx[p]) \in For(p)
  PROVE  /\ Head(rx[p]) \in Journey(phase) /\ Flying({Head(rx[p])}) > 0
         /\ \A H \in SUBSET Tracked : Flying(H)' <= Is(g, H)
<1>. DEFINE f == Head(rx[p])
<1>1. f \in Tracked /\ f \in {f} \cap For(p)
  BY DEF Tracked
<1>2. Flying({f}) \in Nat /\ Flying({f}) >= 1
  BY <1>1, HeadFlies, FlyingTyped
<1>3. f \in Journey(phase) /\ \A H \in SUBSET Tracked : Flying(H) <= Is(f, H)
  BY <1>1, <1>2, OnlyFrame
<1>4. ASSUME NEW H \in SUBSET Tracked PROVE Flying(H)' <= Is(g, H)
  <2>1. Flying(H)' + Is(f, H \cap For(p)) <= Flying(H) + Is(g, H)
    BY HandleCount
  <2>2. Flying(H) <= Is(f, H) /\ Is(f, H) = Is(f, H \cap For(p))
    BY <1>3 DEF Is
  <2>3. Flying(H) \in Nat /\ Flying(H)' \in Nat /\ Is(f, H) \in Nat /\ Is(g, H) \in Nat
    BY FlyingTyped, FlyingNext DEF Is
  <2>. QED
    BY <2>1, <2>2, <2>3
<1>. QED
  BY <1>2, <1>3, <1>4

(* Nobody sends what would start a journey of its own.                     *)
LEMMA StraysStayAway ==
  ASSUME TypeOK', NoStrays, Flying(Strays)' <= Flying(Strays)
  PROVE  NoStrays'
BY FlyingNext DEF NoStrays

(* Nothing that concerns the part is sent or received.                     *)
LEMMA StayInv ==
  ASSUME TypeOK, TypeOK', OneOfThisPart, Abreast,
         UNCHANGED <<phase, processed, input_part_counter, last_result>>,
         \A H \in SUBSET Tracked : Flying(H)' <= Flying(H)
  PROVE  OneOfThisPart' /\ Abreast'
<1>1. \A H : Flying(H) \in Nat /\ Flying(H)' \in Nat
  BY FlyingTyped, FlyingNext
<1>2. OneOfThisPart'
  <2>1. Flying(Tracked)' <= Flying(Tracked)
    OBVIOUS
  <2>2. Flying(Tracked \ Journey(phase))' <= Flying(Tracked \ Journey(phase))
    OBVIOUS
  <2>3. Journey(phase)' = Journey(phase)
    BY DEF Journey
  <2>. QED
    BY <1>1, <2>1, <2>2, <2>3 DEF OneOfThisPart
<1>3. Abreast'
  <2>1. ASSUME NEW f \in Tracked, (Flying({f}) > 0)' PROVE Flying({f}) > 0
    BY <1>1, <2>1
  <2>2. PhaseKnows => PhaseKnows'
    BY DEF PhaseKnows, Inspected
  <2>3. \A f : FrameKnows(f) => FrameKnows(f)'
    BY DEF FrameKnows, Inspected
  <2>4. Tracked' = Tracked
    BY DEF Tracked, For
  <2>. QED
    BY <2>1, <2>2, <2>3, <2>4 DEF Abreast
<1>. QED
  BY <1>2, <1>3

(* All there was is gone, and g at most has been sent.                     *)
LEMMA FrameInv ==
  ASSUME TypeOK', NEW g, g \in Tracked => g \in Journey(phase') /\ FrameKnows(g)',
         PhaseKnows', \A H \in SUBSET Tracked : Flying(H)' <= Is(g, H)
  PROVE  OneOfThisPart' /\ Abreast'
<1>1. \A H : Flying(H)' \in Nat
  BY FlyingNext
<1>2. OneOfThisPart'
  <2>1. Flying(Tracked)' <= 1
    BY <1>1 DEF Is
  <2>2. \A H \in SUBSET Tracked : g \notin H => Flying(H)' = 0
    BY <1>1 DEF Is
  <2>3. Flying(Tracked \ Journey(phase))' = 0
    <3>1. g \notin (Tracked \ Journey(phase))'
      BY DEF Tracked, For, Journey
    <3>2. (Tracked \ Journey(phase))' \in SUBSET Tracked
      BY DEF Tracked, For, Journey
    <3>. QED
      BY <2>2, <3>1, <3>2
  <2>. QED
    BY <2>1, <2>3 DEF OneOfThisPart
<1>3. Abreast'
  <2>1. ASSUME NEW f \in Tracked, (Flying({f}) > 0)' PROVE f = g
    <3>1. Flying({f})' <= Is(g, {f})
      OBVIOUS
    <3>. QED
      BY <1>1, <2>1, <3>1 DEF Is
  <2>. QED
    BY <2>1 DEF Abreast
<1>. QED
  BY <1>2, <1>3

-----------------------------------------------------------------------------
(* The invariant, step by step.                                            *)

(* What Inv is about.                                                      *)
lineVars == <<phase, bootstrapped, progress, input_part_counter, last_result,
              devices, tx, rx, bus>>

(* A step that changes who is registered, and nothing else of it.          *)
LEMMA RegisteredInv ==
  ASSUME Inv, devices' \in Seq(Participants), NoTwice',
         UNCHANGED <<phase, bootstrapped, progress, input_part_counter, last_result, tx, rx, bus>>
  PROVE  Inv'
<1>1. TypeOK' /\ Tally'
  BY DEF Inv, TypeOK, Tally, progress
<1>2. \A H : Flying(H)' = Flying(H)
  BY DEF Flying, Sending, Arriving
<1>3. NoStrays'
  BY <1>2 DEF Inv, NoStrays
<1>4. \A H \in SUBSET Tracked : Flying(H)' <= Flying(H)
  <2>1. \A H : Flying(H) \in Nat
    BY FlyingTyped DEF Inv
  <2>. QED
    BY <1>2, <2>1
<1>5. OneOfThisPart' /\ Abreast'
  BY <1>1, <1>4, StayInv DEF Inv, progress
<1>. QED
  BY <1>1, <1>3, <1>5 DEF Inv

(* A step that touches none of it.                                         *)
LEMMA UnmovedInv ==
  ASSUME Inv, UNCHANGED lineVars PROVE Inv'
<1>1. devices' \in Seq(Participants) /\ NoTwice'
  BY DEF Inv, TypeOK, NoTwice, lineVars
<1>. QED
  BY <1>1, RegisteredInv DEF lineVars

(* What is sent is none of the part's frames.                              *)
LEMMA NothingSent ==
  ASSUME NEW g, g \notin Tracked, NEW H \in SUBSET Tracked PROVE Is(g, H) = 0
BY DEF Is

(* A step that adds no frame of a part, and may make the controller fault. *)
LEMMA AsideInv ==
  ASSUME Inv, TypeOK', UNCHANGED <<devices, progress, input_part_counter, last_result>>,
         \A H \in SUBSET Tracked : Flying(H)' <= Flying(H),
         \/ UNCHANGED <<phase, bootstrapped>>
         \/ phase' = "Faulted" /\ (phase = "Faulted" \/ ~Stopped)
  PROVE  Inv'
<1>1. NoTwice'
  BY DEF Inv, NoTwice
<1>2. NoStrays'
  BY TrackedFrames, StraysStayAway DEF Inv
<1>3. CASE UNCHANGED <<phase, bootstrapped>>
  <2>1. Tally'
    BY <1>3 DEF Inv, Tally, progress
  <2>2. OneOfThisPart' /\ Abreast'
    BY <1>3, StayInv DEF Inv, progress
  <2>. QED
    BY <1>1, <1>2, <2>1, <2>2 DEF Inv
<1>4. CASE phase' = "Faulted" /\ (phase = "Faulted" \/ ~Stopped)
  <2>1. Tally'
    BY <1>4 DEF Inv, Tally, progress, Stopped
  <2>2. OneOfThisPart' /\ Abreast'
    BY <1>4 DEF OneOfThisPart, Abreast
  <2>. QED
    BY <1>1, <1>2, <2>1, <2>2 DEF Inv
<1>. QED
  BY <1>3, <1>4

(* The controller ticks.                                                   *)
LEMMA ControllerStepInv ==
  ASSUME Inv, ControllerStep PROVE Inv'
<1>0. ControllerTick /\ UNCHANGED <<input_part_counter, last_result, devices, rx, bus>>
      /\ "controller" \in Participants
  BY DEF ControllerStep, visionVars, Participants
<1>1. PICK fs, g :
        /\ Says("controller", fs, g)
        /\ UNCHANGED progress
        /\ \/ g \notin Tracked /\ UNCHANGED <<phase, bootstrapped>>
           \/ g \notin Tracked /\ ~Stopped /\ phase' = "Faulted"
           \/ /\ g = Request
              /\ ~Stopped /\ ~bootstrapped
              /\ bootstrapped' = TRUE /\ phase' = "WaitingInspection"
  BY <1>0, ControllerTickSays DEF Inv
<1>2. TypeOK'
  <2>1. tx' \in [Participants -> Seq(Frame)]
    BY <1>0, <1>1, SaysTyped DEF Inv
  <2>. QED
    BY <1>0, <1>1, <2>1 DEF Inv, TypeOK, progress, Phases
<1>3. ASSUME NEW H \in SUBSET Tracked
      PROVE  Flying(H)' <= Flying(H) + Is(g, H) /\ Flying(H) \in Nat /\ Flying(H)' \in Nat
  BY <1>0, <1>1, <1>2, TickCount, FlyingTyped, FlyingNext DEF Inv
<1>4. CASE /\ g \notin Tracked
           /\ UNCHANGED <<phase, bootstrapped>> \/ (~Stopped /\ phase' = "Faulted")
  <2>1. \A H \in SUBSET Tracked : Flying(H)' <= Flying(H)
    BY <1>3, <1>4, NothingSent
  <2>. QED
    BY <1>0, <1>1, <1>2, <1>4, <2>1, AsideInv
<1>5. CASE /\ g = Request /\ ~Stopped /\ ~bootstrapped
           /\ bootstrapped' = TRUE /\ phase' = "WaitingInspection"
  <2>1. phase = "Boot" /\ processed = 0 /\ input_part_counter = 0
    BY <1>5 DEF Inv, Tally, Stopped, Abreast, PhaseKnows
  <2>2. NoTwice'
    BY <1>0 DEF Inv, NoTwice
  <2>3. Flying(Strays)' <= Flying(Strays)
    <3>1. Request \notin Strays /\ Strays \in SUBSET Tracked
      BY TrackedFrames DEF Request, Strays, Command, RobotStatus, NoStatus
    <3>2. Is(g, Strays) = 0
      BY <1>5, <3>1 DEF Is
    <3>. QED
      BY <1>3, <3>1, <3>2
  <2>4. Tally'
    BY <1>1, <1>5, <2>1 DEF Inv, Tally, progress
  <2>5. ASSUME NEW H \in SUBSET Tracked PROVE Flying(H)' <= Is(g, H)
    <3>1. Journey(phase) = {}
      BY <2>1 DEF Journey
    <3>2. Tracked \ Journey(phase) = Tracked
      BY <3>1
    <3>3. Flying(Tracked) = 0
      BY <2>1, <3>2 DEF Inv, OneOfThisPart
    <3>4. Flying(H) <= Flying(Tracked)
      BY FlyingPart DEF Inv
    <3>. QED
      BY <1>3, <3>3, <3>4 DEF Is
  <2>6. PhaseKnows'
    BY <1>5 DEF PhaseKnows
  <2>7. g \in Journey(phase') /\ FrameKnows(g)'
    <3>1. g \in Requests /\ g # Accepting /\ g # Rejecting
      BY <1>5 DEF Request, Requests, Accepting, Rejecting, Command, VisionStatus, NoStatus
    <3>2. input_part_counter' = SeenAfter(processed')
      BY <1>0, <1>1, <2>1 DEF SeenAfter, progress
    <3>. QED
      BY <1>5, <3>1, <3>2 DEF Journey, FrameKnows
  <2>8. OneOfThisPart' /\ Abreast'
    BY <1>2, <2>5, <2>6, <2>7, FrameInv
  <2>. QED
    BY <1>2, <2>2, <2>3, <2>4, <2>8, StraysStayAway DEF Inv
<1>. QED
  BY <1>1, <1>4, <1>5

(* A device ticks.                                                         *)
LEMMA DeviceStepInv ==
  ASSUME Inv, DeviceStep PROVE Inv'
<1>1. UNCHANGED <<phase, bootstrapped, progress, input_part_counter, last_result,
                  devices, rx, bus>>
  BY DEF DeviceStep, VisionTick, controllerVars, visionVars, progress
<1>2. PICK p \in Participants : \E fs, g : Says(p, fs, g) /\ g \notin Tracked
  BY DeviceTickSays DEF Inv
<1>3. PICK fs, g : Says(p, fs, g) /\ g \notin Tracked
  BY <1>2
<1>4. TypeOK'
  <2>1. tx' \in [Participants -> Seq(Frame)]
    BY <1>3, SaysTyped DEF Inv
  <2>. QED
    BY <1>1, <2>1 DEF Inv, TypeOK, progress
<1>5. ASSUME NEW H \in SUBSET Tracked PROVE Flying(H)' <= Flying(H)
  BY <1>1, <1>3, <1>4, TickCount, FlyingTyped, FlyingNext, NothingSent DEF Inv
<1>. QED
  BY <1>1, <1>4, <1>5, AsideInv

(* A frame goes onto the bus or off it.                                    *)
LEMMA TransportInv ==
  ASSUME Inv, Transport PROVE Inv'
<1>1. UNCHANGED <<phase, bootstrapped, progress, input_part_counter, last_result, devices>>
  BY DEF Transport, controllerVars, visionVars, progress
<1>2. CASE UNCHANGED <<tx, rx, bus>>
  BY <1>1, <1>2, UnmovedInv DEF lineVars
<1>3. ASSUME NEW p \in Participants, DrainFrame(p) PROVE Inv'
  <2>1. UNCHANGED rx
    BY <1>3 DEF DrainFrame
  <2>2. /\ tx' \in [Participants -> Seq(Frame)] /\ bus' \in Seq(Entry(Frame))
        /\ TypeOK' => \A H : Flying(H)' <= Flying(H)
    BY <1>3, <2>1, DrainCount DEF Inv
  <2>3. TypeOK'
    BY <1>1, <2>1, <2>2 DEF Inv, TypeOK, progress
  <2>. QED
    BY <1>1, <2>2, <2>3, AsideInv
<1>4. CASE DistributeFrame
  <2>1. /\ rx' \in [Participants -> Seq(Frame)] /\ bus' \in Seq(Entry(Frame))
        /\ TypeOK' => \A H : Flying(H)' <= Flying(H)
    BY <1>4, DistributeCount DEF Inv
  <2>2. TypeOK'
    BY <1>1, <1>4, <2>1 DEF Inv, TypeOK, progress, DistributeFrame
  <2>. QED
    BY <1>1, <2>1, <2>2, AsideInv
<1>. QED
  BY <1>2, <1>3, <1>4 DEF Transport, DrainDone, DistributeDone

(* A pass ends.                                                            *)
LEMMA EndPassInv ==
  ASSUME Inv, EndPass PROVE Inv'
BY UnmovedInv DEF EndPass, ProcessDone, lineVars, controllerVars, visionVars, progress

-----------------------------------------------------------------------------
(* What is received.                                                       *)

(* A participant handles the frame it received.                            *)
LEMMA ReceiveInv ==
  ASSUME Inv, NEW p \in Participants, Receive(p) PROVE Inv'
<1>. DEFINE f == Head(rx[p])
<1>1. /\ rx[p] # <<>> /\ rx' = [rx EXCEPT ![p] = Tail(@)]
      /\ UNCHANGED <<bus, devices>>
  BY DEF Receive, TakeFrame, Turn
<1>2. f \in Frame /\ rx' \in [Participants -> Seq(Frame)]
  <2>1. rx[p] \in Seq(Frame) /\ rx \in [Participants -> Seq(Frame)]
    BY DEF Inv, TypeOK
  <2>2. Head(rx[p]) \in Frame /\ Tail(rx[p]) \in Seq(Frame)
    BY <1>1, <2>1, HeadTailProperties
  <2>. QED
    BY <1>1, <2>1, <2>2
<1>3. f \notin Strays \cap For(p)
  <2>1. f \in Strays \cap For(p) => Flying(Strays) >= 1
    BY <1>1, HeadFlies DEF Inv
  <2>. QED
    BY <2>1, FlyingTyped DEF Inv, NoStrays
(* Answered with none of the part's frames.                                *)
<1>4. ASSUME NEW fs, NEW g, Says(p, fs, g), g \notin Tracked, TypeOK',
             NEW H \in SUBSET Tracked
      PROVE  Flying(H)' <= Flying(H)
  <2>1. Flying(H)' + Is(f, H \cap For(p)) <= Flying(H) + Is(g, H)
    BY <1>1, <1>4, HandleCount DEF Inv
  <2>2. Is(g, H) = 0 /\ Is(f, H \cap For(p)) \in Nat
    BY <1>4, NothingSent DEF Is
  <2>3. Flying(H) \in Nat /\ Flying(H)' \in Nat
    BY <1>4, FlyingTyped, FlyingNext DEF Inv
  <2>. QED
    BY <2>1, <2>2, <2>3
(* Answered with one of them.                                              *)
<1>5. ASSUME NEW fs, NEW g, Says(p, fs, g), g \notin Strays, TypeOK' PROVE NoStrays'
  <2>1. Flying(Strays)' + Is(f, Strays \cap For(p)) <= Flying(Strays) + Is(g, Strays)
    BY <1>1, <1>5, HandleCount, TrackedFrames DEF Inv
  <2>2. Is(g, Strays) = 0 /\ Is(f, Strays \cap For(p)) \in Nat
    BY <1>5 DEF Is
  <2>3. Flying(Strays) \in Nat /\ Flying(Strays)' \in Nat
    BY <1>5, FlyingTyped, FlyingNext DEF Inv
  <2>. QED
    BY <1>5, <2>1, <2>2, <2>3, StraysStayAway DEF Inv
<1>6. ASSUME NEW fs, NEW g, Says(p, fs, g), phase # "Faulted", f \in For(p), TypeOK'
      PROVE  /\ f \in Journey(phase) /\ f \in Tracked /\ FrameKnows(f) /\ PhaseKnows
             /\ \A H \in SUBSET Tracked : Flying(H)' <= Is(g, H)
  <2>1. /\ f \in Journey(phase) /\ Flying({f}) > 0
        /\ \A H \in SUBSET Tracked : Flying(H)' <= Is(g, H)
    BY <1>1, <1>6, Replaced DEF Inv
  <2>2. f \in Tracked
    BY <1>6 DEF Tracked
  <2>. QED
    BY <1>6, <2>1, <2>2 DEF Inv, Abreast
<1>7. NoTwice'
  BY <1>1 DEF Inv, NoTwice
(* A device answers.                                                       *)
<1>8. ASSUME NEW fs, NEW g, Says(p, fs, g), g \in Tracked \ Strays, f \in For(p), TypeOK',
             UNCHANGED <<phase, bootstrapped, progress>>,
             phase # "Faulted" /\ f \in Journey(phase) /\ FrameKnows(f) /\ PhaseKnows
               => g \in Journey(phase) /\ FrameKnows(g)' /\ PhaseKnows'
      PROVE  Inv'
  <2>1. Tally'
    BY <1>8 DEF Inv, Tally, progress
  <2>2. OneOfThisPart' /\ Abreast'
    <3>1. CASE phase = "Faulted"
      BY <1>8, <3>1 DEF OneOfThisPart, Abreast
    <3>2. CASE phase # "Faulted"
      BY <1>6, <1>8, <3>2, FrameInv
    <3>. QED
      BY <3>1, <3>2
  <2>. QED
    BY <1>5, <1>7, <1>8, <2>1, <2>2 DEF Inv
<1>9. CASE p = "conveyor"
  <2>1. ConveyorReceive(f) /\ UNCHANGED <<controllerVars, visionVars>>
    BY <1>9 DEF Receive
  <2>2. UNCHANGED <<phase, bootstrapped, progress, input_part_counter, last_result>>
    BY <2>1 DEF controllerVars, visionVars, progress
  <2>3. PICK fs, g : /\ Says(p, fs, g)
                     /\ \/ g \notin Tracked
                        \/ /\ f = Command("conveyor.RequestPartArrived")
                           /\ g \in {ConveyorStatus("PartArrived"), ConveyorStatus("ConveyorFault")}
    BY <1>2, <1>3, <1>9, <2>1, ConveyorSays DEF Inv
  <2>4. TypeOK'
    BY <1>1, <1>2, <2>2, <2>3, SaysTyped DEF Inv, TypeOK, progress
  <2>5. CASE g \notin Tracked
    BY <1>1, <1>4, <2>2, <2>3, <2>4, <2>5, AsideInv
  <2>6. CASE g \in Tracked
    <3>. DEFINE r == Command("conveyor.RequestPartArrived")
    <3>1. f = r /\ g \in {ConveyorStatus("PartArrived"), ConveyorStatus("ConveyorFault")}
      BY <2>3, <2>6
    <3>2. f \in For(p) /\ f \in Requests /\ g \notin Strays
      BY <1>9, <3>1 DEF For, Requests, Strays, Command, ConveyorStatus, RobotStatus, NoStatus
    <3>3. \A q \in Phases : f \in Journey(q) => q = "WaitingInspection"
      BY <3>1 DEF Journey, Phases, Command, RobotStatus, NoStatus
    <3>4. g \in Journey("WaitingInspection") /\ g # Accepting /\ g # Rejecting
      BY <3>1 DEF Journey, Requests, Refusals, Accepting, Rejecting, ConveyorStatus, VisionStatus
    <3>5. phase \in Phases
      BY DEF Inv, TypeOK
    <3>6. FrameKnows(f) => FrameKnows(g)'
      BY <2>2, <3>2, <3>4 DEF FrameKnows, progress
    <3>7. PhaseKnows => PhaseKnows'
      BY <2>2 DEF PhaseKnows, Inspected, progress
    <3>. QED
      BY <1>8, <2>2, <2>3, <2>4, <2>6, <3>2, <3>3, <3>4, <3>5, <3>6, <3>7
  <2>. QED
    BY <2>5, <2>6
<1>10. CASE p = "robot"
  <2>1. RobotReceive(f) /\ UNCHANGED <<controllerVars, visionVars>>
    BY <1>10 DEF Receive
  <2>2. UNCHANGED <<phase, bootstrapped, progress, input_part_counter, last_result>>
    BY <2>1 DEF controllerVars, visionVars, progress
  <2>3. PICK fs, g : Says(p, fs, g) /\ (g \notin Tracked \/ g \in Results(f))
    BY <1>2, <1>10, <2>1, RobotSays DEF Inv
  <2>4. TypeOK'
    BY <1>1, <1>2, <2>2, <2>3, SaysTyped DEF Inv, TypeOK, progress
  <2>5. CASE g \notin Tracked
    BY <1>1, <1>4, <2>2, <2>3, <2>4, <2>5, AsideInv
  <2>6. CASE g \in Tracked
    <3>1. g \in Results(f)
      BY <2>3, <2>6
    <3>2. /\ f \in {Command("robot.Pick"), Command("robot.Place"), Command("robot.RemoveReject")}
          /\ f \in For(p)
      BY <1>10, <3>1 DEF Results, For
    <3>3. g \notin Strays /\ g \notin Requests /\ g # Accepting /\ g # Rejecting
      BY <3>1, <3>2 DEF Results, Strays, Requests, Accepting, Rejecting, Command, ConveyorStatus,
         VisionStatus, RobotStatus, NoStatus
    <3>4. \A q \in Phases : f \in Journey(q) => g \in Journey(q)
      BY <3>1, <3>2 DEF Results, Journey, Phases, Requests, Refusals, Accepting, Rejecting,
         Command, ConveyorStatus, VisionStatus, RobotStatus, NoStatus
    <3>5. phase \in Phases
      BY DEF Inv, TypeOK
    <3>6. FrameKnows(g)'
      BY <3>3 DEF FrameKnows
    <3>7. PhaseKnows => PhaseKnows'
      BY <2>2 DEF PhaseKnows, Inspected, progress
    <3>. QED
      BY <1>8, <2>2, <2>3, <2>4, <2>6, <3>2, <3>3, <3>4, <3>5, <3>6, <3>7
  <2>. QED
    BY <2>5, <2>6
<1>11. CASE p = "vision"
  <2>1. VisionReceive(f) /\ UNCHANGED controllerVars
    BY <1>11 DEF Receive
  <2>2. UNCHANGED <<phase, bootstrapped, progress>>
    BY <2>1 DEF controllerVars, progress
  <2>3. PICK fs, g :
          /\ Says(p, fs, g)
          /\ \/ g \notin Tracked /\ UNCHANGED <<input_part_counter, last_result>>
             \/ /\ f = ConveyorStatus("PartArrived")
                /\ input_part_counter' = NextPartId(input_part_counter)
                /\ \/ g \in Refusals /\ UNCHANGED last_result
                   \/ \E v \in Verdicts :
                        /\ last_result' = [part_id |-> input_part_counter', verdict |-> v]
                        /\ g = IF v = "Valid" THEN Accepting ELSE Rejecting
    BY <1>2, <1>3, <1>11, <2>1, VisionSays DEF Inv
  <2>4. TypeOK'
    <3>1. \A n \in PartIds : NextPartId(n) \in PartIds
      BY VisionAssumption DEF PartIds, NextPartId
    <3>2. tx' \in [Participants -> Seq(Frame)]
      BY <2>3, SaysTyped DEF Inv
    <3>3. /\ input_part_counter' \in PartIds
          /\ last_result' \in [part_id : PartIds, verdict : Verdicts]
      BY <2>3, <3>1 DEF Inv, TypeOK
    <3>. QED
      BY <1>1, <1>2, <2>2, <3>2, <3>3 DEF Inv, TypeOK, progress
  <2>5. CASE g \notin Tracked
    <3>1. Accepting \in Tracked /\ Rejecting \in Tracked /\ Refusals \subseteq Tracked
      BY TrackedFrames
    <3>2. UNCHANGED <<input_part_counter, last_result>>
      BY <2>3, <2>5, <3>1
    <3>. QED
      BY <1>1, <1>4, <2>2, <2>3, <2>4, <2>5, <3>2, AsideInv
  <2>6. CASE g \in Tracked
    <3>1. /\ f = ConveyorStatus("PartArrived")
          /\ input_part_counter' = NextPartId(input_part_counter)
          /\ \/ g \in Refusals
             \/ \E v \in Verdicts :
                  /\ last_result' = [part_id |-> input_part_counter', verdict |-> v]
                  /\ g = IF v = "Valid" THEN Accepting ELSE Rejecting
      BY <2>3, <2>6
    <3>2. f \in For(p) /\ f \in Requests
      BY <1>11, <3>1 DEF For, Requests
    <3>3. \A q \in Phases : f \in Journey(q) => q = "WaitingInspection"
      BY <3>1 DEF Journey, Phases, Command, RobotStatus, ConveyorStatus, NoStatus
    <3>4. g \in Journey("WaitingInspection") /\ g \notin Strays /\ g \notin Requests
      BY <3>1 DEF Journey, Strays, Requests, Refusals, Accepting, Rejecting, Command,
         ConveyorStatus, VisionStatus, RobotStatus, NoStatus
    <3>5. phase \in Phases /\ processed \in Nat /\ processed + 1 # 0
      BY DEF Inv, TypeOK
    <3>6. FrameKnows(f) => FrameKnows(g)'
      <4>1. ASSUME FrameKnows(f)
            PROVE  input_part_counter' = PartIdOf(processed + 1)
                   /\ input_part_counter' = SeenAfter(processed + 1)
        BY <3>1, <3>2, <3>5, <4>1, NextSeen DEF FrameKnows
      <4>2. \A r \in Refusals : r # Accepting /\ r # Rejecting
        BY DEF Refusals, Accepting, Rejecting, ConveyorStatus, VisionStatus
      <4>3. Accepting # Rejecting
        BY DEF Accepting, Rejecting, VisionStatus
      <4>. QED
        BY <2>2, <3>1, <3>4, <4>1, <4>2, <4>3 DEF FrameKnows, Inspected, progress
    <3>7. phase = "WaitingInspection" => PhaseKnows'
      BY <2>2 DEF PhaseKnows
    <3>. QED
      BY <1>8, <2>2, <2>3, <2>4, <2>6, <3>2, <3>3, <3>4, <3>5, <3>6, <3>7
  <2>. QED
    BY <2>5, <2>6
<1>12. CASE p = "controller"
  <2>1. ControllerReceive(f) /\ UNCHANGED <<input_part_counter, last_result>>
    BY <1>12 DEF Receive, visionVars, Devices
  <2>2. PICK fs, g :
          /\ Says(p, fs, g)
          /\ \/ g \notin Tracked /\ UNCHANGED <<phase, bootstrapped, progress>>
             \/ /\ g \notin Tracked /\ f \in Faults
                /\ phase' = "Faulted" /\ UNCHANGED progress
             \/ Moves(f, phase, g, phase') /\ UNCHANGED <<bootstrapped, progress>>
             \/ /\ Done(f)
                /\ IF processed + 1 >= TargetCycles
                   THEN g \notin Tracked /\ phase' = "Finished"
                   ELSE g = Request /\ phase' = "WaitingInspection"
    BY <1>2, <1>12, <2>1, ControllerReceiveSays DEF Inv
  <2>3. tx' \in [Participants -> Seq(Frame)]
    BY <2>2, SaysTyped DEF Inv
  <2>4. CASE g \notin Tracked /\ UNCHANGED <<phase, bootstrapped, progress>>
    <3>1. TypeOK'
      BY <1>1, <1>2, <2>1, <2>3, <2>4 DEF Inv, TypeOK, progress
    <3>. QED
      BY <1>1, <1>4, <2>1, <2>2, <2>4, <3>1, AsideInv
  <2>5. CASE g \notin Tracked /\ f \in Faults /\ phase' = "Faulted" /\ UNCHANGED progress
    <3>1. TypeOK'
      BY <1>1, <1>2, <2>1, <2>3, <2>5 DEF Inv, TypeOK, progress, Phases
    <3>2. f \in For(p)
      BY <1>12, <2>5 DEF Faults, For, RobotFailures
    <3>3. phase # "Faulted" => phase # "Finished"
      BY <1>6, <2>2, <3>1, <3>2 DEF Journey
    <3>. QED
      BY <1>1, <1>4, <2>1, <2>2, <2>5, <3>1, <3>3, AsideInv DEF Stopped
  <2>6. CASE Moves(f, phase, g, phase') /\ UNCHANGED <<bootstrapped, progress>>
    <3>1. /\ phase \in {"WaitingInspection", "WaitingPickComplete"}
          /\ phase' \in {"WaitingPickComplete", "WaitingRejectRemoval", "WaitingPlaceComplete"}
          /\ f \in {Accepting, Rejecting, RobotStatus("PickCompleted")}
          /\ g \in {Command("robot.Pick"), Command("robot.RemoveReject"), Command("robot.Place")}
          /\ g \in Journey(phase')
      BY <2>6 DEF Moves, Journey
    <3>2. TypeOK'
      BY <1>1, <1>2, <2>1, <2>3, <2>6, <3>1 DEF Inv, TypeOK, progress, Phases
    <3>3. f \in For(p) /\ g \notin Strays /\ g \notin Requests /\ g # Accepting /\ g # Rejecting
      BY <1>12, <3>1 DEF For, Strays, Requests, Accepting, Rejecting, Command, ConveyorStatus,
         VisionStatus, RobotStatus, NoStatus
    <3>4. /\ FrameKnows(f) /\ PhaseKnows
          /\ \A H \in SUBSET Tracked : Flying(H)' <= Is(g, H)
      BY <1>6, <2>2, <3>1, <3>2, <3>3
    <3>5. PhaseKnows'
      BY <2>1, <2>6, <3>1, <3>4 DEF Moves, PhaseKnows, FrameKnows, Inspected, progress
    <3>6. FrameKnows(g)'
      BY <3>3 DEF FrameKnows
    <3>7. OneOfThisPart' /\ Abreast'
      BY <3>1, <3>2, <3>4, <3>5, <3>6, FrameInv
    <3>8. Tally'
      BY <2>6, <3>1 DEF Inv, Tally, progress
    <3>. QED
      BY <1>5, <1>7, <2>2, <3>2, <3>3, <3>7, <3>8 DEF Inv
  <2>7. CASE /\ Done(f)
             /\ IF processed + 1 >= TargetCycles
                THEN g \notin Tracked /\ phase' = "Finished"
                ELSE g = Request /\ phase' = "WaitingInspection"
    <3>1. TypeOK'
      BY <1>1, <1>2, <2>1, <2>3, <2>7 DEF Inv, TypeOK, Done, Phases
    <3>2. /\ f \in For(p) /\ phase \in {"WaitingPlaceComplete", "WaitingRejectRemoval"}
          /\ processed' = processed + 1 /\ UNCHANGED bootstrapped
      BY <1>12, <2>7 DEF Done, For
    <3>3. /\ FrameKnows(f) /\ PhaseKnows
          /\ \A H \in SUBSET Tracked : Flying(H)' <= Is(g, H)
      BY <1>6, <2>2, <3>1, <3>2
    <3>4. PhaseKnows'
      BY <2>7 DEF PhaseKnows
    <3>5. /\ Request \notin Strays /\ Request \in Requests
          /\ Request # Accepting /\ Request # Rejecting
          /\ Strays \subseteq Tracked
      BY TrackedFrames DEF Request, Strays, Requests, Accepting, Rejecting, Command, VisionStatus,
         RobotStatus, NoStatus
    <3>6. g \in Tracked => g \in Journey(phase') /\ FrameKnows(g)'
      <4>1. input_part_counter' = SeenAfter(processed')
        BY <2>1, <3>2, <3>3 DEF PhaseKnows, Inspected
      <4>. QED
        BY <2>7, <3>5, <4>1 DEF Journey, FrameKnows
    <3>7. OneOfThisPart' /\ Abreast'
      BY <3>1, <3>3, <3>4, <3>6, FrameInv
    <3>8. Tally'
      <4>1. processed < RunLength /\ processed = accepted + rejected /\ bootstrapped
            /\ processed \in Nat /\ accepted \in Nat /\ rejected \in Nat
        BY <3>2 DEF Inv, Tally, TypeOK
      <4>. QED
        BY <2>7, <3>2, <4>1, ControllerAssumption DEF Tally, Done, RunLength
    <3>. QED
      BY <1>5, <1>7, <2>2, <2>7, <3>1, <3>5, <3>7, <3>8 DEF Inv
  <2>. QED
    BY <2>2, <2>4, <2>5, <2>6, <2>7
<1>. QED
  BY <1>9, <1>10, <1>11, <1>12 DEF Participants, Devices

-----------------------------------------------------------------------------
(* The theorems.                                                           *)

(* The buffers and the bus start empty.                                    *)
LEMMA NothingFliesAtFirst ==
  ASSUME Init, NEW H PROVE Flying(H) = 0
<1>1. \A K : HowMany(<<>>, K) = 0
  <2>1. DOMAIN <<>> = {}
    OBVIOUS
  <2>. QED
    BY <2>1, CountNone
<1>2. \A p \in Participants : tx[p] = <<>> /\ rx[p] = <<>>
  BY DEF Init
<1>3. bus = <<>>
  BY DEF Init
<1>. QED
  BY <1>1, <1>2, <1>3 DEF Flying, Sending, Arriving, Participants, Devices

(* So the invariant holds at first, ...                                    *)
LEMMA InitInv == Init => Inv
<1>. SUFFICES ASSUME Init PROVE Inv
  OBVIOUS
<1>1. TypeOK
  <2>1. input_part_counter \in PartIds /\ last_result \in [part_id : PartIds, verdict : Verdicts]
    BY VisionAssumption DEF Init, VisionInit, PartIds, Verdicts
  <2>2. devices \in Seq(Participants)
    BY DEF Init, RegistrationOrder, Participants, Devices
  <2>3. <<>> \in Seq(Frame) /\ bus \in Seq(Entry(Frame))
    BY DEF Init
  <2>. QED
    BY <2>1, <2>2, <2>3 DEF TypeOK, Init, ControllerInit, Phases
<1>2. NoTwice
  BY DEF Init, NoTwice, RegistrationOrder
<1>3. NoStrays /\ OneOfThisPart
  BY NothingFliesAtFirst DEF NoStrays, OneOfThisPart
<1>4. Tally
  BY ControllerAssumption DEF Init, ControllerInit, Tally, RunLength
<1>5. Abreast
  <2>1. \A f : ~(Flying({f}) > 0)
    <3>1. ASSUME NEW f PROVE Flying({f}) = 0
      BY NothingFliesAtFirst
    <3>. QED
      BY <3>1
  <2>2. PhaseKnows
    BY DEF PhaseKnows, Init, ControllerInit, VisionInit
  <2>. QED
    BY <2>1, <2>2 DEF Abreast
<1>. QED
  BY <1>1, <1>2, <1>3, <1>4, <1>5 DEF Inv

(* Whatever set of participants is registered.                             *)
LEMMA TickStepInv == Inv /\ TickStep => Inv'
BY ControllerStepInv, TransportInv, ReceiveInv, EndPassInv, DeviceStepInv DEF TickStep

(* ... is preserved by what a runtime does, ...                            *)
LEMMA StepInv == Inv /\ [Next]_vars => Inv'
<1>. SUFFICES ASSUME Inv, [Next]_vars PROVE Inv'
  OBVIOUS
<1>1. CASE TickStep
  BY <1>1, TickStepInv
<1>2. CASE NextTick
  BY <1>2, UnmovedInv DEF NextTick, lineVars, controllerVars, visionVars, progress
<1>3. CASE UNCHANGED vars
  BY <1>3, UnmovedInv DEF vars, lineVars, controllerVars, visionVars, progress
<1>. QED
  BY <1>1, <1>2, <1>3 DEF Next, RuntimeStep

(* ... and holds throughout.                                               *)
LEMMA InvAlways == Spec => []Inv
BY InitInv, StepInv, PTL DEF Spec

(* Two frames that move a part on are never in flight together, and the    *)
(* one that is in flight is one that the controller is waiting for or that *)
(* leads to one: no result meets a phase that would ignore it, and none    *)
(* comes twice.                                                            *)
THEOREM OneFrameAtMost == Spec => [](NoStrays /\ OneOfThisPart)
<1>1. Inv => NoStrays /\ OneOfThisPart
  BY DEF Inv
<1>. QED
  BY <1>1, InvAlways, PTL

(* The phase knows which part it is about.                                 *)
LEMMA RobotHandlesWhatWasInspected == Inv => RobotHandlesInspectedPart
<1>. SUFFICES ASSUME Inv PROVE RobotHandlesInspectedPart
  OBVIOUS
<1>1. last_result \in [part_id : PartIds, verdict : Verdicts]
  BY DEF Inv, TypeOK
<1>2. phase # "Faulted" => PhaseKnows
  BY DEF Inv, Abreast
<1>. QED
  BY <1>1, <1>2 DEF PhaseKnows, Inspected, RobotHandlesInspectedPart

(* The part the robot handles is the one inspected last, the one after     *)
(* those already counted, and it is handled as its verdict says.  This     *)
(* needs no buffer to be large enough: a lost frame leaves the part        *)
(* standing, it does not set the counts apart.                             *)
THEOREM RightPart == Spec => []RobotHandlesInspectedPart
BY RobotHandlesWhatWasInspected, InvAlways, PTL

-----------------------------------------------------------------------------
(* The legs of a journey.                                                  *)

(* A leg's frames are for the one it leads to, ...                         *)
LEMMA LegFrames ==
  ASSUME NEW p, NEW l \in Legs(p)
  PROVE  /\ l.from \in Participants /\ l.to \in Participants
         /\ l.frames \subseteq For(l.to) /\ l.frames \subseteq Journey(p)
BY DEF Legs, Leg, For, Journey, Requests, Refusals, Accepting, Rejecting, Participants, Devices

(* ... no two legs of a phase have a frame in common, ...                  *)
LEMMA LegsApart ==
  ASSUME NEW p, NEW k \in Legs(p), NEW l \in Legs(p), k # l
  PROVE  k.frames \cap l.frames = {}
BY DEF Legs, Leg, Command, ConveyorStatus, VisionStatus, RobotStatus, NoStatus

(* ... nor has a leg of another phase with the journey of this one.        *)
LEMMA LegsElsewhere ==
  ASSUME NEW p \in Phases, NEW r \in Phases, NEW l \in Legs(p) \ Legs(r)
  PROVE  l.frames \cap Journey(r) = {}
BY DEF Legs, Leg, Journey, Requests, Refusals, Accepting, Rejecting, Phases,
   Command, ConveyorStatus, VisionStatus, RobotStatus, NoStatus

(* Two frames count as two.                                                *)
LEMMA CountTwo ==
  ASSUME NEW S, NEW q \in Seq(S), NEW H, NEW i \in DOMAIN q, NEW j \in DOMAIN q,
         i # j, q[i] \in H, q[j] \in H
  PROVE  HowMany(q, H) >= 2
<1>. DEFINE A == {k \in DOMAIN q : q[k] \in H}
<1>1. IsFiniteSet(A) /\ {i, j} \in SUBSET A
  BY CountFinite
<1>2. HowMany(q, H) = Cardinality(A)
  BY DEF HowMany
<1>. HIDE DEF A
<1>3. Cardinality({i, j}) <= Cardinality(A)
  BY <1>1, FS_Subset
<1>4. {i, j} = {i} \cup {j} /\ j \notin {i}
  OBVIOUS
<1>5. IsFiniteSet({i}) /\ Cardinality({i}) = 1
  BY FS_Singleton
<1>6. Cardinality({i} \cup {j}) = 1 + 1
  <2>1. Cardinality({i} \cup {j}) = Cardinality({i}) + 1
    BY <1>4, <1>5, FS_AddElement
  <2>. QED
    BY <1>5, <2>1
<1>7. Cardinality(A) \in Nat
  BY <1>1, FS_CardinalityType
<1>8. Cardinality({i, j}) = 2
  <2>1. Cardinality({i, j}) = 1 + 1
    BY <1>4, <1>6, Zenon
  <2>. QED
    BY <2>1
<1>. QED
  BY <1>2, <1>3, <1>7, <1>8

(* What is on a leg is in flight.                                          *)
LEMMA LegFlies ==
  ASSUME TypeOK, NEW p, NEW l \in Legs(p)
  PROVE  /\ HowMany(tx[l.from], l.frames) \in Nat /\ HowMany(rx[l.to], l.frames) \in Nat
         /\ HowMany(bus, Entry(l.frames)) \in Nat /\ Flying(l.frames) \in Nat
         /\ HowMany(tx[l.from], l.frames) + HowMany(bus, Entry(l.frames))
              + HowMany(rx[l.to], l.frames) <= Flying(l.frames)
<1>. DEFINE H == l.frames
            a(d) == HowMany(tx[d], H)
            b(d) == HowMany(rx[d], H \cap For(d))
<1>1. l.from \in Participants /\ l.to \in Participants /\ H \cap For(l.to) = H
  BY LegFrames
<1>2. \A d \in Participants : a(d) \in Nat /\ b(d) \in Nat
  BY CountsNat
<1>3. /\ Sending(H) = a("controller") + a("conveyor") + a("vision") + a("robot")
      /\ Arriving(H) = b("controller") + b("conveyor") + b("vision") + b("robot")
      /\ b(l.to) = HowMany(rx[l.to], H)
  BY <1>1 DEF Sending, Arriving
<1>4. HowMany(bus, Entry(H)) \in Nat
  BY CountsNat
<1>. HIDE DEF a, b
<1>5. a(l.from) <= Sending(H) /\ b(l.to) <= Arriving(H) /\ Sending(H) \in Nat /\ Arriving(H) \in Nat
  BY <1>1, <1>2, <1>3 DEF Participants, Devices
<1>6. Flying(H) = Sending(H) + HowMany(bus, Entry(H)) + Arriving(H)
  BY DEF Flying
<1>7. a(l.from) = HowMany(tx[l.from], H)
  BY DEF a
<1>. QED
  BY <1>1, <1>2, <1>3, <1>4, <1>5, <1>6, <1>7

(* Where something is under way, ...                                       *)
LEMMA UnderwayFlies ==
  ASSUME TypeOK, NEW p, NEW l \in Legs(p), NEW u \in Underway(l)
  PROVE  Flying(l.frames) >= 1
<1>. DEFINE H == l.frames
<1>1. l.from \in Participants /\ l.to \in Participants
  BY LegFrames
<1>2. tx[l.from] \in Seq(Frame) /\ rx[l.to] \in Seq(Frame) /\ bus \in Seq(Entry(Frame))
  BY <1>1 DEF TypeOK
<1>3. \/ \E i \in DOMAIN tx[l.from] : tx[l.from][i] \in H
      \/ \E i \in DOMAIN bus : bus[i] \in Entry(H)
      \/ \E i \in DOMAIN rx[l.to] : rx[l.to][i] \in H
  <2>1. \A i \in DOMAIN bus : bus[i].frame \in H => bus[i] \in Entry(H)
    <3>1. \A i \in DOMAIN bus : bus[i] \in Entry(Frame)
      BY <1>2
    <3>. QED
      BY <3>1 DEF Entry
  <2>. QED
    BY <2>1 DEF Underway
<1>4. \/ HowMany(tx[l.from], H) >= 1
      \/ HowMany(bus, Entry(H)) >= 1
      \/ HowMany(rx[l.to], H) >= 1
  BY <1>2, <1>3, CountSome
<1>. QED
  BY <1>4, LegFlies

(* ... nothing else is if one frame at most is in flight.                  *)
LEMMA UnderwayOnce ==
  ASSUME TypeOK, NEW p, NEW l \in Legs(p), NEW u \in Underway(l), NEW v \in Underway(l), u # v
  PROVE  Flying(l.frames) >= 2
<1>. DEFINE H == l.frames
            T == {i \in DOMAIN tx[l.from] : tx[l.from][i] \in H}
            B == {i \in DOMAIN bus : bus[i].frame \in H}
            R == {i \in DOMAIN rx[l.to] : rx[l.to][i] \in H}
<1>1. l.from \in Participants /\ l.to \in Participants
  BY LegFrames
<1>2. tx[l.from] \in Seq(Frame) /\ rx[l.to] \in Seq(Frame) /\ bus \in Seq(Entry(Frame))
  BY <1>1 DEF TypeOK
<1>3. \A i \in B : i \in DOMAIN bus /\ bus[i] \in Entry(H)
  <2>1. \A i \in DOMAIN bus : bus[i] \in Entry(Frame)
    BY <1>2
  <2>. QED
    BY <2>1 DEF Entry
<1>4. /\ \A i \in T : HowMany(tx[l.from], H) >= 1
      /\ \A i \in B : HowMany(bus, Entry(H)) >= 1
      /\ \A i \in R : HowMany(rx[l.to], H) >= 1
  BY <1>2, <1>3, CountSome
<1>5. /\ \A i, j \in T : i # j => HowMany(tx[l.from], H) >= 2
      /\ \A i, j \in B : i # j => HowMany(bus, Entry(H)) >= 2
      /\ \A i, j \in R : i # j => HowMany(rx[l.to], H) >= 2
  BY <1>2, <1>3, CountTwo
<1>6. /\ HowMany(tx[l.from], H) \in Nat /\ HowMany(rx[l.to], H) \in Nat
      /\ HowMany(bus, Entry(H)) \in Nat /\ Flying(H) \in Nat
      /\ HowMany(tx[l.from], H) + HowMany(bus, Entry(H)) + HowMany(rx[l.to], H) <= Flying(H)
  BY LegFlies
<1>7. /\ \/ \E i \in T : u = <<l, "tx", i>>
         \/ \E i \in B : u = <<l, "bus", i>>
         \/ \E i \in R : u = <<l, "rx", i>>
      /\ \/ \E i \in T : v = <<l, "tx", i>>
         \/ \E i \in B : v = <<l, "bus", i>>
         \/ \E i \in R : v = <<l, "rx", i>>
  BY DEF Underway
<1>. HIDE DEF T, B, R, H
<1>8. \/ HowMany(tx[l.from], H) >= 2 \/ HowMany(bus, Entry(H)) >= 2 \/ HowMany(rx[l.to], H) >= 2
      \/ HowMany(tx[l.from], H) >= 1 /\ HowMany(bus, Entry(H)) >= 1
      \/ HowMany(tx[l.from], H) >= 1 /\ HowMany(rx[l.to], H) >= 1
      \/ HowMany(bus, Entry(H)) >= 1 /\ HowMany(rx[l.to], H) >= 1
  BY <1>4, <1>5, <1>7
<1>9. Flying(H) >= 2
  BY <1>6, <1>8
<1>. QED
  BY <1>9 DEF H

(* While the controller has not stopped for a fault, what is under way of  *)
(* the part is one frame at most, on a leg of the phase.                   *)
LEMMA OneUnderway ==
  ASSUME Inv, phase # "Faulted"
  PROVE  /\ \A u, v \in UNION {Underway(l) : l \in Legs(phase)} : u = v
         /\ \A p \in Phases : \A l \in Legs(p) \ Legs(phase) : Underway(l) = {}
<1>1. TypeOK /\ phase \in Phases /\ OneOfThisPart
  BY DEF Inv, TypeOK
<1>2. \A p : \A l \in Legs(p) : l.frames \in SUBSET Tracked
  BY LegFrames, JourneyTracked
<1>3. Flying(Tracked) <= 1 /\ Flying(Tracked) \in Nat
  BY <1>1, FlyingTyped DEF OneOfThisPart
<1>4. \A l \in Legs(phase) : Flying(l.frames) \in Nat /\ Flying(l.frames) <= Flying(Tracked)
  BY <1>1, <1>2, FlyingPart, FlyingTyped
<1>5. ASSUME NEW k \in Legs(phase), NEW l \in Legs(phase),
             NEW u \in Underway(k), NEW v \in Underway(l)
      PROVE  u = v
  <2>1. CASE k = l
    <3>1. u # v => Flying(l.frames) >= 2
      BY <1>1, <1>5, <2>1, UnderwayOnce
    <3>. QED
      BY <1>3, <1>4, <3>1
  <2>2. CASE k # l
    <3>1. Flying(k.frames) >= 1 /\ Flying(l.frames) >= 1
      BY <1>1, <1>5, UnderwayFlies
    <3>2. Flying(k.frames \cup l.frames) = Flying(k.frames) + Flying(l.frames)
      BY <1>1, <2>2, LegsApart, FlyingSplit
    <3>3. Flying(k.frames \cup l.frames) <= Flying(Tracked)
      <4>1. k.frames \cup l.frames \in SUBSET Tracked
        BY <1>2
      <4>. QED
        BY <1>1, <4>1, FlyingPart
    <3>. QED
      BY <1>3, <1>4, <3>1, <3>2, <3>3
  <2>. QED
    BY <2>1, <2>2
<1>6. \A u, v \in UNION {Underway(l) : l \in Legs(phase)} : u = v
  BY <1>5
<1>7. ASSUME NEW p \in Phases, NEW l \in Legs(p) \ Legs(phase)
      PROVE  Underway(l) = {}
  <2>1. l.frames \in SUBSET (Tracked \ Journey(phase))
    BY <1>1, <1>2, LegsElsewhere
  <2>2. Flying(l.frames) <= 0 /\ Flying(l.frames) \in Nat
    <3>1. Flying(l.frames) <= Flying(Tracked \ Journey(phase))
      BY <1>1, <2>1, FlyingPart
    <3>2. Flying(Tracked \ Journey(phase)) = 0
      BY <1>1 DEF OneOfThisPart
    <3>. QED
      BY <1>1, <3>1, <3>2, FlyingTyped
  <2>3. ASSUME NEW u \in Underway(l) PROVE FALSE
    BY <1>1, <2>2, UnderwayFlies
  <2>. QED
    BY <2>3
<1>. QED
  BY <1>6, <1>7

-----------------------------------------------------------------------------
(* Who sends what, and where it is.                                        *)
Sent(p) ==
  CASE p = "conveyor" -> {ConveyorStatus(m) : m \in ConveyorMessages}
    [] p = "vision" -> {VisionStatus(m) : m \in VisionMessages}
    [] p = "robot" -> {RobotStatus(m) : m \in RobotMessages}
    [] OTHER -> CommandFrames \cup {ControllerHeartbeat}

Has(q, f) == \E i \in DOMAIN q : q[i] = f
From(s, f) == [source |-> s, frame |-> f]
Registered(p) == \E i \in DOMAIN devices : devices[i] = p

(* The pass that is being made brings f from s to r.                       *)
Coming(s, r, f) ==
  \/ stage = "drain" /\ Has(tx[s], f)
  \/ Has(bus, From(s, f))
  \/ Has(rx[r], f)

(* The next pass will.                                                     *)
Later(s, f) == stage \in {"idle", "process"} /\ Has(tx[s], f)

Staged ==
  /\ stage \in Stages /\ step \in Steps
  /\ stage = "idle" <=> step \notin {"firstPass", "secondPass"}
  /\ stage \in {"idle", "drain"} => \A p \in Participants : rx[p] = <<>>
  /\ stage \in {"idle", "process"} => bus = <<>>
  /\ stage = "distribute" => \A p \in Participants : Registered(p) => tx[p] = <<>>
  /\ \A p \in Participants : ~Registered(p) => rx[p] = <<>>

(* A frame's kind tells who sent it, and nobody hears itself.              *)
Origins ==
  \A p \in Participants : \A f \in Frame :
    /\ Has(tx[p], f) => f \in Sent(p)
    /\ Has(bus, From(p, f)) => f \in Sent(p)
    /\ Has(rx[p], f) => f \notin Sent(p)

-----------------------------------------------------------------------------
(* What a sequence has.                                                    *)

(* Nothing if it is empty, ...                                             *)
LEMMA HasNone ==
  \A f : ~Has(<<>>, f)
BY DEF Has

(* ... and else a first element and the others.                            *)
LEMMA HasTail ==
  ASSUME NEW S, NEW q \in Seq(S), q # <<>>, NEW f
  PROVE  Has(q, f) <=> Head(q) = f \/ Has(Tail(q), f)
<1>1. /\ Tail(q) \in Seq(S) /\ Len(Tail(q)) = Len(q) - 1
      /\ \A i \in 1 .. Len(Tail(q)) : Tail(q)[i] = q[i + 1]
  BY HeadTailProperties
<1>2. Len(q) \in Nat /\ DOMAIN q = 1 .. Len(q) /\ Head(q) = q[1] /\ Len(q) >= 1
  BY EmptySeq, LenProperties
<1>3. DOMAIN Tail(q) = 1 .. Len(q) - 1
  BY <1>1, LenProperties
<1>4. ASSUME Has(q, f), Head(q) # f PROVE Has(Tail(q), f)
  <2>1. PICK i \in 1 .. Len(q) : q[i] = f
    BY <1>2, <1>4 DEF Has
  <2>2. i - 1 \in DOMAIN Tail(q) /\ Tail(q)[i - 1] = q[(i - 1) + 1] /\ (i - 1) + 1 = i
    BY <1>1, <1>2, <1>3, <1>4, <2>1
  <2>. QED
    BY <2>1, <2>2 DEF Has
<1>5. ASSUME Has(Tail(q), f) PROVE Has(q, f)
  <2>1. PICK i \in 1 .. Len(q) - 1 : Tail(q)[i] = f
    BY <1>3, <1>5 DEF Has
  <2>2. i + 1 \in DOMAIN q /\ q[i + 1] = f
    BY <1>1, <1>2, <1>3, <2>1
  <2>. QED
    BY <2>2 DEF Has
<1>6. Head(q) = f => Has(q, f)
  BY <1>2 DEF Has
<1>. QED
  BY <1>4, <1>5, <1>6

(* What two sequences have together.                                       *)
LEMMA HasConcat ==
  ASSUME NEW S, NEW s \in Seq(S), NEW t \in Seq(S), NEW f
  PROVE  Has(s \o t, f) <=> Has(s, f) \/ Has(t, f)
<1>. DEFINE n == Len(s)
<1>1. /\ s \o t \in Seq(S) /\ Len(s \o t) = n + Len(t)
      /\ \A i \in 1 .. n + Len(t) : (s \o t)[i] = IF i <= n THEN s[i] ELSE t[i - n]
  BY ConcatProperties
<1>2. /\ n \in Nat /\ DOMAIN s = 1 .. n
      /\ Len(t) \in Nat /\ DOMAIN t = 1 .. Len(t)
      /\ DOMAIN (s \o t) = 1 .. n + Len(t)
  BY <1>1, LenProperties
<1>3. ASSUME Has(s \o t, f), ~Has(s, f) PROVE Has(t, f)
  <2>1. PICK i \in 1 .. n + Len(t) : (s \o t)[i] = f
    BY <1>2, <1>3 DEF Has
  <2>2. ~(i <= n)
    BY <1>1, <1>2, <1>3, <2>1 DEF Has
  <2>3. i - n \in DOMAIN t /\ t[i - n] = f
    BY <1>1, <1>2, <2>1, <2>2
  <2>. QED
    BY <2>3 DEF Has
<1>4. ASSUME Has(s, f) PROVE Has(s \o t, f)
  <2>1. PICK i \in 1 .. n : s[i] = f
    BY <1>2, <1>4 DEF Has
  <2>2. i \in DOMAIN (s \o t) /\ (s \o t)[i] = f
    BY <1>1, <1>2, <2>1
  <2>. QED
    BY <2>2 DEF Has
<1>5. ASSUME Has(t, f) PROVE Has(s \o t, f)
  <2>1. PICK i \in 1 .. Len(t) : t[i] = f
    BY <1>2, <1>5 DEF Has
  <2>2. n + i \in DOMAIN (s \o t) /\ (s \o t)[n + i] = t[(n + i) - n] /\ (n + i) - n = i
    BY <1>1, <1>2, <2>1
  <2>. QED
    BY <2>1, <2>2 DEF Has
<1>. QED
  BY <1>3, <1>4, <1>5

(* One more element.                                                       *)
LEMMA HasAppend ==
  ASSUME NEW S, NEW q \in Seq(S), NEW e \in S, NEW f
  PROVE  Has(Append(q, e), f) <=> Has(q, f) \/ e = f
<1>1. <<e>> \in Seq(S) /\ Append(q, e) = q \o <<e>>
  BY AppendIsConcat
<1>2. Has(<<e>>, f) <=> e = f
  BY DEF Has
<1>3. Has(q \o <<e>>, f) <=> Has(q, f) \/ Has(<<e>>, f)
  BY <1>1, HasConcat
<1>. QED
  BY <1>1, <1>2, <1>3

(* A buffer has no more than it had and what was pushed, and has it all if *)
(* it did not get full.                                                    *)
LEMMA HasPushAll ==
  ASSUME NEW S, NEW q \in Seq(S), NEW fs \in Seq(S)
  PROVE  /\ PushAll(q, fs) \in Seq(S)
         /\ Len(PushAll(q, fs)) <= Len(q) + Len(fs)
         /\ \A f : Has(PushAll(q, fs), f) => Has(q, f) \/ Has(fs, f)
         /\ \A f : Has(q, f) => Has(PushAll(q, fs), f)
         /\ Len(PushAll(q, fs)) < QueueCapacity => PushAll(q, fs) = q \o fs
         /\ Len(q) + Len(fs) <= QueueCapacity => PushAll(q, fs) = q \o fs
<1>. DEFINE room == QueueCapacity - Len(q)
            kept == IF Len(fs) <= room THEN Len(fs) ELSE room
            t == SubSeq(fs, 1, kept)
<1>1. Len(fs) \in Nat /\ Len(q) \in Nat /\ room \in Int /\ kept \in Int /\ kept <= Len(fs)
      /\ QueueCapacity \in Nat
  BY QueueCapacityAssumption, LenProperties
<1>2. \A i \in 1 .. kept : fs[i] \in S
  BY <1>1, ElementOfSeq
<1>3. /\ t \in Seq(S)
      /\ Len(t) = IF 1 <= kept THEN kept - 1 + 1 ELSE 0
      /\ \A i \in 1 .. kept - 1 + 1 : t[i] = fs[1 + i - 1]
  BY <1>1, <1>2, SubSeqProperties
<1>4. PushAll(q, fs) = q \o t
  BY DEF PushAll
<1>5. Len(fs) <= room => t = fs
  <2>. SUFFICES ASSUME Len(fs) <= room PROVE t = fs
    OBVIOUS
  <2>1. kept = Len(fs)
    OBVIOUS
  <2>. HIDE DEF t, kept
  <2>2. Len(t) = Len(fs) /\ \A i \in 1 .. Len(fs) : t[i] = fs[i]
    BY <1>1, <1>3, <2>1
  <2>. QED
    BY <1>3, <2>2, SeqEqual
<1>6. Len(t) <= Len(fs) /\ (room < Len(fs) => Len(q) + Len(t) >= QueueCapacity)
  BY <1>1, <1>3
<1>. HIDE DEF t, kept
<1>7. q \o t \in Seq(S) /\ Len(q \o t) = Len(q) + Len(t) /\ Len(t) \in Nat
  BY <1>3, ConcatProperties, LenProperties
<1>8. \A f : Has(t, f) => Has(fs, f)
  <2>. SUFFICES ASSUME NEW f, Has(t, f) PROVE Has(fs, f)
    OBVIOUS
  <2>1. PICK i \in 1 .. Len(t) : t[i] = f
    BY <1>3, LenProperties DEF Has
  <2>2. i \in 1 .. Len(fs) /\ fs[i] = t[i]
    BY <1>1, <1>3, <1>6, <2>1
  <2>3. DOMAIN fs = 1 .. Len(fs)
    BY LenProperties
  <2>. QED
    BY <2>1, <2>2, <2>3 DEF Has
<1>9. \A f : Has(q \o t, f) <=> Has(q, f) \/ Has(t, f)
  BY <1>3, HasConcat
<1>10. /\ Len(PushAll(q, fs)) <= Len(q) + Len(fs)
       /\ \A f : Has(PushAll(q, fs), f) => Has(q, f) \/ Has(fs, f)
       /\ \A f : Has(q, f) => Has(PushAll(q, fs), f)
  BY <1>1, <1>4, <1>6, <1>7, <1>8, <1>9
<1>11. Len(PushAll(q, fs)) < QueueCapacity => PushAll(q, fs) = q \o fs
  <2>1. ~(Len(fs) <= room) => Len(q \o t) >= QueueCapacity
    BY <1>1, <1>6, <1>7
  <2>2. Len(q \o t) \in Nat
    BY <1>7, LenProperties
  <2>. QED
    BY <1>1, <1>4, <1>5, <2>1, <2>2
<1>12. Len(q) + Len(fs) <= QueueCapacity => PushAll(q, fs) = q \o fs
  BY <1>1, <1>4, <1>5
<1>. QED
  BY <1>4, <1>7, <1>10, <1>11, <1>12

-----------------------------------------------------------------------------
(* A frame on its way: one that comes keeps coming until it is received,   *)
(* as long as no buffer gets full.                                         *)

(* The senders' vocabularies have nothing in common.                       *)
LEMMA SentApart ==
  ASSUME NEW p \in Participants, NEW r \in Participants, p # r
  PROVE  Sent(p) \cap Sent(r) = {}
BY DEF Sent, Participants, Devices, CommandFrames, Command, NoStatus, ControllerHeartbeat,
   ConveyorStatus, VisionStatus, RobotStatus, Commands, RobotCommands, ConveyorCommands,
   VisionCommands

(* They consist of frames.                                                 *)
LEMMA SentFrames ==
  ASSUME NEW p \in Participants
  PROVE  Sent(p) \subseteq Frame
BY DEF Sent, Frame, CommandFrames, StatusFrames, Participants, Devices

(* What the buffers hold.                                                  *)
LEMMA Buffers ==
  ASSUME TypeOK
  PROVE  /\ \A p \in Participants : tx[p] \in Seq(Frame) /\ rx[p] \in Seq(Frame)
         /\ bus \in Seq(Entry(Frame))
         /\ DOMAIN tx = Participants /\ DOMAIN rx = Participants
BY DEF TypeOK

(* A frame goes from an output buffer onto the bus.                        *)
LEMMA DrainComing ==
  ASSUME TypeOK, NEW p \in Participants, DrainFrame(p), NEW s \in Participants, NEW r, NEW f
  PROVE  /\ Coming(s, r, f)' => Coming(s, r, f)
         /\ Len(bus) < BusCapacity /\ Coming(s, r, f) => Coming(s, r, f)'
<1>1. tx[p] \in Seq(Frame) /\ tx[p] # <<>> /\ bus \in Seq(Entry(Frame))
  BY Buffers DEF DrainFrame, Turn
<1>2. Head(tx[p]) \in Frame /\ From(p, Head(tx[p])) \in Entry(Frame)
  BY <1>1, HeadTailProperties DEF Entry, From
<1>3. /\ stage = "drain" /\ stage' = "drain" /\ rx' = rx
      /\ tx' = [tx EXCEPT ![p] = Tail(@)]
      /\ bus' = IF Len(bus) < BusCapacity THEN Append(bus, From(p, Head(tx[p]))) ELSE bus
  BY DEF DrainFrame, Transmit, Push, From
<1>4. \A e : Has(Append(bus, From(p, Head(tx[p]))), e) <=> Has(bus, e) \/ From(p, Head(tx[p])) = e
  BY <1>1, <1>2, HasAppend
<1>5. Has(tx[p], f) <=> Head(tx[p]) = f \/ Has(Tail(tx[p]), f)
  BY <1>1, HasTail
<1>6. From(p, Head(tx[p])) = From(s, f) <=> p = s /\ Head(tx[p]) = f
  BY DEF From
<1>7. tx'[s] = IF s = p THEN Tail(tx[p]) ELSE tx[s]
  BY <1>3, Buffers
<1>8. Coming(s, r, f) <=> Has(tx[s], f) \/ Has(bus, From(s, f)) \/ Has(rx[r], f)
  BY <1>3 DEF Coming
<1>9. Coming(s, r, f)' <=> Has(tx'[s], f) \/ Has(bus', From(s, f)) \/ Has(rx[r], f)
  BY <1>3 DEF Coming, Has, From
<1>10. CASE Len(bus) < BusCapacity
  <2>1. Has(bus', From(s, f)) <=> Has(bus, From(s, f)) \/ (p = s /\ Head(tx[p]) = f)
    BY <1>3, <1>4, <1>6, <1>10
  <2>. QED
    BY <1>5, <1>7, <1>8, <1>9, <2>1
<1>11. CASE ~(Len(bus) < BusCapacity)
  <2>1. bus' = bus
    BY <1>3, <1>11
  <2>. QED
    BY <1>5, <1>7, <1>8, <1>9, <1>11, <2>1
<1>. QED
  BY <1>10, <1>11

(* What DistributeFrame puts into an input buffer.                         *)
LEMMA Delivered ==
  ASSUME TypeOK, NoTwice, DistributeFrame, NEW r \in Participants
  PROVE  /\ \A f : Has(rx'[r], f) => Has(rx[r], f) \/ (f = Head(bus).frame /\ r # Head(bus).source)
         /\ \A f : Has(rx[r], f) => Has(rx'[r], f)
         /\ Registered(r) /\ r # Head(bus).source /\ Len(rx'[r]) < QueueCapacity =>
              Has(rx'[r], Head(bus).frame)
         /\ ~Registered(r) /\ rx[r] = <<>> => rx'[r] = <<>>
<1>. DEFINE g == Head(bus).frame
            fs == [i \in 1 .. Copies(r) |-> g]
<1>1. bus \in Seq(Entry(Frame)) /\ bus # <<>> /\ rx[r] \in Seq(Frame)
  BY Buffers DEF DistributeFrame
<1>2. g \in Frame
  <2>1. Head(bus) \in Entry(Frame)
    BY <1>1, HeadTailProperties
  <2>. QED
    BY <2>1 DEF Entry
<1>3. rx'[r] = IF r = Head(bus).source THEN rx[r] ELSE PushAll(rx[r], fs)
  BY Buffers DEF DistributeFrame, Deliver
<1>4. Copies(r) \in {0, 1} /\ (Registered(r) => Copies(r) = 1) /\ (~Registered(r) => Copies(r) = 0)
  <2>. DEFINE A == {i \in DOMAIN devices : devices[i] = r}
  <2>1. Copies(r) \in {0, 1}
    BY CopiesOnce
  <2>2. CASE ~Registered(r)
    <3>1. A = {}
      BY <2>2 DEF Registered
    <3>. QED
      BY <2>2, <3>1, FS_EmptySet DEF Copies
  <2>3. CASE Registered(r)
    <3>1. PICK i \in DOMAIN devices : A = {i}
      BY <2>3 DEF Registered, NoTwice
    <3>2. Copies(r) = 1
      BY <3>1, FS_Singleton DEF Copies
    <3>. QED
      BY <2>3, <3>2
  <2>. QED
    BY <2>1, <2>2, <2>3
<1>5. fs \in Seq(Frame) /\ (\A f : Has(fs, f) => f = g) /\ (Registered(r) => Has(fs, g))
  <2>1. CASE Copies(r) = 0
    <3>1. ~Registered(r)
      BY <1>4, <2>1
    <3>2. fs \in Seq(Frame) /\ DOMAIN fs = {}
      BY <2>1
    <3>. QED
      BY <3>1, <3>2 DEF Has
  <2>2. CASE Copies(r) = 1
    <3>1. fs \in Seq(Frame) /\ DOMAIN fs = {1} /\ fs[1] = g
      BY <1>2, <2>2
    <3>. QED
      BY <3>1 DEF Has
  <2>. QED
    BY <1>4, <2>1, <2>2
<1>6. ~Registered(r) => fs = <<>>
  BY <1>4
<1>. HIDE DEF fs, g
<1>7. /\ PushAll(rx[r], fs) \in Seq(Frame)
      /\ \A f : Has(PushAll(rx[r], fs), f) => Has(rx[r], f) \/ Has(fs, f)
      /\ \A f : Has(rx[r], f) => Has(PushAll(rx[r], fs), f)
      /\ Len(PushAll(rx[r], fs)) < QueueCapacity => PushAll(rx[r], fs) = rx[r] \o fs
      /\ Len(rx[r]) + Len(fs) <= QueueCapacity => PushAll(rx[r], fs) = rx[r] \o fs
  BY <1>1, <1>5, HasPushAll
<1>8. \A f : Has(rx[r] \o fs, f) <=> Has(rx[r], f) \/ Has(fs, f)
  BY <1>1, <1>5, HasConcat
<1>9. ASSUME ~Registered(r), rx[r] = <<>> PROVE rx'[r] = <<>>
  <2>1. rx[r] \o fs = <<>> /\ Len(rx[r]) + Len(fs) = 0
    BY <1>6, <1>9
  <2>2. PushAll(rx[r], fs) = <<>>
    BY <1>7, <2>1, QueueCapacityAssumption
  <2>. QED
    BY <1>3, <1>9, <2>2
<1>10. ASSUME Registered(r), r # Head(bus).source, Len(rx'[r]) < QueueCapacity
       PROVE  Has(rx'[r], g)
  <2>1. rx'[r] = rx[r] \o fs
    BY <1>3, <1>7, <1>10
  <2>. QED
    BY <1>5, <1>8, <1>10, <2>1
<1>11. \A f : Has(rx'[r], f) => Has(rx[r], f) \/ (f = g /\ r # Head(bus).source)
  BY <1>3, <1>5, <1>7
<1>12. \A f : Has(rx[r], f) => Has(rx'[r], f)
  BY <1>3, <1>7
<1>. QED
  BY <1>9, <1>10, <1>11, <1>12 DEF g

(* A frame goes from the bus into the input buffers.                       *)
LEMMA DistributeComing ==
  ASSUME TypeOK, NoTwice, Origins, DistributeFrame,
         NEW s \in Participants, NEW r \in Participants, NEW f \in Sent(s)
  PROVE  /\ Coming(s, r, f)' => Coming(s, r, f)
         /\ Registered(r) /\ s # r /\ Len(rx'[r]) < QueueCapacity /\ Coming(s, r, f) =>
              Coming(s, r, f)'
<1>1. bus \in Seq(Entry(Frame)) /\ bus # <<>> /\ bus' = Tail(bus) /\ tx' = tx
      /\ stage = "distribute" /\ stage' = "distribute"
  BY Buffers DEF DistributeFrame
<1>2. PICK q \in Participants, g \in Frame : Head(bus) = From(q, g)
  <2>1. Head(bus) \in Entry(Frame)
    BY <1>1, HeadTailProperties
  <2>. QED
    BY <2>1 DEF Entry, From
<1>3. \A e : Has(bus, e) <=> From(q, g) = e \/ Has(bus', e)
  BY <1>1, <1>2, HasTail
<1>4. /\ Coming(s, r, f) <=> Has(bus, From(s, f)) \/ Has(rx[r], f)
      /\ Coming(s, r, f)' <=> Has(bus', From(s, f)) \/ Has(rx'[r], f)
  BY <1>1 DEF Coming, Has, From
<1>5. g \in Sent(q)
  BY <1>3 DEF Origins
<1>6. From(q, g) = From(s, f) <=> q = s /\ g = f
  BY DEF From
<1>7. Head(bus).frame = g /\ Head(bus).source = q
  BY <1>2 DEF From
<1>8. g = f => q = s
  BY <1>5, SentApart
<1>. QED
  BY <1>3, <1>4, <1>6, <1>7, <1>8, Delivered

(* No pass is made, and none is to be made, of what is not there.          *)
LEMMA TransportComing ==
  ASSUME TypeOK, NoTwice, Staged, Origins, Transport,
         NEW s \in Participants, NEW r \in Participants, NEW f \in Sent(s)
  PROVE  /\ Coming(s, r, f)' => Coming(s, r, f)
         /\ Registered(s) /\ Registered(r) /\ s # r /\ NoFrameLost /\ NoFrameLost'
              /\ Coming(s, r, f) => Coming(s, r, f)'
         /\ stage # "idle" /\ stage' # "idle" /\ UNCHANGED step
         /\ stage' = "process" /\ Registered(s) => tx'[s] = <<>>
         /\ \A g : Has(tx'[s], g) => Has(tx[s], g)
<1>0. UNCHANGED step
  BY DEF Transport
<1>1. ASSUME NEW p \in Participants, DrainFrame(p)
      PROVE  /\ Coming(s, r, f)' => Coming(s, r, f)
             /\ NoFrameLost /\ Coming(s, r, f) => Coming(s, r, f)'
             /\ stage = "drain" /\ stage' = "drain"
             /\ \A g : Has(tx'[s], g) => Has(tx[s], g)
  <2>1. stage = "drain" /\ stage' = "drain" /\ tx' = [tx EXCEPT ![p] = Tail(@)] /\ tx[p] # <<>>
    BY <1>1 DEF DrainFrame, Turn
  <2>2. \A g : Has(tx'[s], g) => Has(tx[s], g)
    BY <2>1, HasTail, Buffers
  <2>. QED
    BY <1>1, <2>1, <2>2, DrainComing DEF NoFrameLost
<1>2. CASE DrainDone
  <2>1. stage = "drain" /\ stage' = "distribute" /\ UNCHANGED <<tx, rx, bus>>
    BY <1>2 DEF DrainDone
  <2>2. Registered(s) => tx[s] = <<>>
    BY <1>2 DEF DrainDone, AllEmpty, Registered
  <2>3. Registered(s) => ~Has(tx[s], f)
    BY <2>2, HasNone
  <2>. QED
    BY <1>0, <2>1, <2>3 DEF Coming, Has, From
<1>3. CASE DistributeFrame
  <2>1. stage = "distribute" /\ stage' = "distribute" /\ UNCHANGED tx
    BY <1>3 DEF DistributeFrame
  <2>2. NoFrameLost' => Len(rx'[r]) < QueueCapacity
    BY DEF NoFrameLost
  <2>. QED
    BY <1>0, <1>3, <2>1, <2>2, DistributeComing DEF Has
<1>4. CASE DistributeDone
  <2>1. stage = "distribute" /\ stage' = "process" /\ UNCHANGED <<tx, rx, bus>>
    BY <1>4 DEF DistributeDone
  <2>2. Registered(s) => tx[s] = <<>>
    BY <2>1 DEF Staged
  <2>. QED
    BY <1>0, <2>1, <2>2 DEF Coming, Has, From
<1>. QED
  BY <1>0, <1>1, <1>2, <1>3, <1>4 DEF Transport

(* Not even a pass changes where it is said to go.                         *)
LEMMA TransportStaged ==
  ASSUME TypeOK, NoTwice, Staged, Origins, Transport PROVE Staged' /\ Origins'
<1>0. /\ UNCHANGED <<devices, step>> /\ TypeOK
      /\ "controller" \in Participants /\ "conveyor" \in Participants
  BY DEF Transport, Participants, Devices
<1>1. ASSUME NEW p \in Participants, DrainFrame(p) PROVE Staged' /\ Origins'
  <2>1. /\ stage = "drain" /\ stage' = "drain" /\ UNCHANGED rx
        /\ tx[p] \in Seq(Frame) /\ tx[p] # <<>> /\ bus \in Seq(Entry(Frame))
        /\ tx' = [tx EXCEPT ![p] = Tail(@)]
        /\ bus' = IF Len(bus) < BusCapacity THEN Append(bus, From(p, Head(tx[p]))) ELSE bus
    BY <1>1, Buffers DEF DrainFrame, Turn, Transmit, Push, From
  <2>2. Staged'
    BY <1>0, <2>1 DEF Staged, Registered
  <2>3. \A f : Has(tx[p], f) <=> Head(tx[p]) = f \/ Has(Tail(tx[p]), f)
    BY <2>1, HasTail
  <2>4. Head(tx[p]) \in Frame /\ From(p, Head(tx[p])) \in Entry(Frame)
    BY <2>1, HeadTailProperties DEF Entry, From
  <2>5. \A e : Has(Append(bus, From(p, Head(tx[p]))), e) <=> Has(bus, e) \/ From(p, Head(tx[p])) = e
    BY <2>1, <2>4, HasAppend
  <2>6. \A s \in Participants : \A f : Has(tx'[s], f) => Has(tx[s], f)
    BY <2>1, <2>3, Buffers
  <2>7. \A s, f : Has(bus', From(s, f)) => Has(bus, From(s, f)) \/ (s = p /\ f = Head(tx[p]))
    <3>1. \A s, f : From(p, Head(tx[p])) = From(s, f) <=> p = s /\ Head(tx[p]) = f
      BY DEF From
    <3>. QED
      BY <2>1, <2>5, <3>1
  <2>8. Has(tx[p], Head(tx[p]))
    BY <2>3
  <2>9. ASSUME NEW s \in Participants, NEW f \in Frame
        PROVE  /\ Has(tx'[s], f) => f \in Sent(s)
               /\ Has(bus', From(s, f)) => f \in Sent(s)
               /\ Has(rx'[s], f) => f \notin Sent(s)
    <3>1. Has(rx'[s], f) => Has(rx[s], f)
      BY <2>1
    <3>. QED
      BY <2>6, <2>7, <2>8, <3>1 DEF Origins
  <2>10. Origins'
    BY <2>9 DEF Origins, Has, From, Sent
  <2>. QED
    BY <2>2, <2>10
<1>2. CASE DrainDone
  <2>1. stage = "drain" /\ stage' = "distribute" /\ UNCHANGED <<tx, rx, bus>>
        /\ \A i \in DOMAIN devices : tx[devices[i]] = <<>>
    BY <1>2 DEF DrainDone, AllEmpty
  <2>2. Staged'
    BY <1>0, <2>1 DEF Staged, Registered, Stages
  <2>3. Origins'
    BY <2>1 DEF Origins, Has, From, Sent
  <2>. QED
    BY <2>2, <2>3
<1>3. CASE DistributeFrame
  <2>1. /\ stage = "distribute" /\ stage' = "distribute" /\ UNCHANGED tx
        /\ bus \in Seq(Entry(Frame)) /\ bus # <<>> /\ bus' = Tail(bus)
    BY <1>3, Buffers DEF DistributeFrame
  <2>2. \A p \in Participants : ~Registered(p) => rx'[p] = <<>>
    BY <1>3, Delivered DEF Staged
  <2>3. Staged'
    BY <1>0, <2>1, <2>2 DEF Staged, Registered
  <2>4. PICK q \in Participants, g \in Frame : Head(bus) = From(q, g)
    <3>1. Head(bus) \in Entry(Frame)
      BY <2>1, HeadTailProperties
    <3>. QED
      BY <3>1 DEF Entry, From
  <2>5. \A e : Has(bus, e) <=> From(q, g) = e \/ Has(bus', e)
    BY <2>1, <2>4, HasTail
  <2>6. g \in Sent(q) /\ Head(bus).frame = g /\ Head(bus).source = q
    BY <2>4, <2>5 DEF Origins, From
  <2>7. \A s \in Participants : s # q => g \notin Sent(s)
    BY <2>6, SentApart
  <2>8. ASSUME NEW s \in Participants, NEW f \in Frame
        PROVE  /\ Has(tx'[s], f) => f \in Sent(s)
               /\ Has(bus', From(s, f)) => f \in Sent(s)
               /\ Has(rx'[s], f) => f \notin Sent(s)
    <3>1. Has(rx'[s], f) => Has(rx[s], f) \/ (f = g /\ s # q)
      BY <1>3, <2>6, Delivered
    <3>. QED
      BY <2>1, <2>5, <2>7, <3>1 DEF Origins
  <2>9. Origins'
    BY <2>8 DEF Origins, Has, From, Sent
  <2>. QED
    BY <2>3, <2>9
<1>4. CASE DistributeDone
  <2>1. stage = "distribute" /\ stage' = "process" /\ UNCHANGED <<tx, rx, bus>> /\ bus = <<>>
    BY <1>4 DEF DistributeDone
  <2>2. Staged'
    BY <1>0, <2>1 DEF Staged, Registered, Stages
  <2>3. Origins'
    BY <2>1 DEF Origins, Has, From, Sent
  <2>. QED
    BY <2>2, <2>3
<1>. QED
  BY <1>1, <1>2, <1>3, <1>4 DEF Transport

-----------------------------------------------------------------------------
(* What a call sends, at the least and at the most.                        *)
Speaks(p, fs) == fs \in Seq(Sent(p)) /\ tx' = [tx EXCEPT ![p] = PushAll(@, fs)]

Shutdown(d) ==
  Command(CASE d = "conveyor" -> "conveyor.Shutdown"
            [] d = "vision" -> "vision.Shutdown"
            [] OTHER -> "robot.Shutdown")

Alive(d) ==
  CASE d = "conveyor" -> ConveyorStatus("ConveyorHeartbeat")
    [] d = "vision" -> VisionStatus("VisionHeartbeat")
    [] OTHER -> RobotStatus("RobotHeartbeat")

(* What answers a frame of the journey.                                    *)
Sequels(f) ==
  CASE f = Request -> {ConveyorStatus("PartArrived"), ConveyorStatus("ConveyorFault")}
    [] f = ConveyorStatus("PartArrived") ->
         {Accepting, Rejecting, VisionStatus("VisionFault"), VisionStatus("VisionTimeout")}
    [] OTHER -> Results(f)

FailureFrames == Refusals \cup {RobotStatus("PickFailed"), RobotStatus("MotionFailed")}

Watching ==
  /\ bootstrapped \in BOOLEAN /\ fault_latched \in BOOLEAN /\ passes \in Nat
  /\ device_misses \in [Devices -> Nat]
  /\ heartbeat_misses \in [Devices -> Nat]
  /\ heartbeat_seen \in [Devices -> BOOLEAN]
  /\ shutdown_latched \in [Devices -> BOOLEAN]

(* What is sent is a sequence of what the sender may send, ...             *)
LEMMA SpeaksSeq ==
  ASSUME NEW p \in Participants, NEW fs \in Seq(Sent(p))
  PROVE  fs \in Seq(Frame) /\ Len(fs) \in Nat /\ \A f : Has(fs, f) => f \in Sent(p)
<1>1. fs \in Seq(Frame)
  BY SentFrames, SeqMonotonic
<1>2. \A f : Has(fs, f) => f \in Sent(p)
  BY LenProperties, ElementOfSeq DEF Has
<1>. QED
  BY <1>1, <1>2, LenProperties

(* ... which its output buffer then has, unless it got full.               *)
LEMMA SpeaksBuffer ==
  ASSUME TypeOK, NEW p \in Participants, NEW fs, Speaks(p, fs)
  PROVE  /\ tx' \in [Participants -> Seq(Frame)]
         /\ \A s \in Participants : s # p => tx'[s] = tx[s]
         /\ \A s \in Participants : \A f : Has(tx[s], f) => Has(tx'[s], f)
         /\ \A f : Has(tx'[p], f) => Has(tx[p], f) \/ Has(fs, f)
         /\ NoFrameLost' => \A f : Has(fs, f) => Has(tx'[p], f)
         /\ Len(tx'[p]) <= Len(tx[p]) + Len(fs)
<1>1. tx[p] \in Seq(Frame) /\ fs \in Seq(Frame) /\ tx \in [Participants -> Seq(Frame)]
  BY Buffers, SpeaksSeq DEF Speaks, TypeOK
<1>2. /\ PushAll(tx[p], fs) \in Seq(Frame)
      /\ Len(PushAll(tx[p], fs)) <= Len(tx[p]) + Len(fs)
      /\ \A f : Has(PushAll(tx[p], fs), f) => Has(tx[p], f) \/ Has(fs, f)
      /\ \A f : Has(tx[p], f) => Has(PushAll(tx[p], fs), f)
      /\ Len(PushAll(tx[p], fs)) < QueueCapacity => PushAll(tx[p], fs) = tx[p] \o fs
  BY <1>1, HasPushAll
<1>3. tx'[p] = PushAll(tx[p], fs) /\ tx' \in [Participants -> Seq(Frame)]
      /\ \A s \in Participants : s # p => tx'[s] = tx[s]
  BY <1>1, <1>2 DEF Speaks
<1>4. \A f : Has(tx[p] \o fs, f) <=> Has(tx[p], f) \/ Has(fs, f)
  BY <1>1, HasConcat
<1>5. NoFrameLost' => Len(tx'[p]) < QueueCapacity
  BY DEF NoFrameLost
<1>. QED
  BY <1>2, <1>3, <1>4, <1>5

(* Saying nothing.                                                         *)
LEMMA SpeaksNothing ==
  ASSUME TypeOK, NEW p \in Participants, UNCHANGED tx
  PROVE  Speaks(p, <<>>) /\ Len(<<>>) = 0 /\ \A f : ~Has(<<>>, f)
<1>1. Says(p, <<>>, ControllerHeartbeat)
  BY SaysNothing
<1>2. <<>> \in Seq(Sent(p)) /\ Len(<<>>) = 0
  OBVIOUS
<1>3. \A f : ~Has(<<>>, f)
  BY HasNone
<1>. QED
  BY <1>1, <1>2, <1>3 DEF Says, Speaks

(* Saying one thing, or two.                                               *)
LEMMA SpeaksShort ==
  ASSUME NEW p \in Participants, NEW f \in Sent(p), NEW g \in Sent(p)
  PROVE  /\ <<f>> \in Seq(Sent(p)) /\ Len(<<f>>) = 1 /\ \A e : Has(<<f>>, e) <=> e = f
         /\ <<f, g>> \in Seq(Sent(p)) /\ Len(<<f, g>>) = 2
         /\ \A e : Has(<<f, g>>, e) <=> e = f \/ e = g
BY DEF Has

(* The robot reports its messages, and as many.                            *)
LEMMA SpeaksReport ==
  ASSUME NEW ms \in Seq(RobotMessages)
  PROVE  /\ RobotReport(ms) \in Seq(Sent("robot")) /\ Len(RobotReport(ms)) = Len(ms)
         /\ \A m : Has(RobotReport(ms), RobotStatus(m)) <=> Has(ms, m)
<1>1. Len(ms) \in Nat /\ DOMAIN ms = 1 .. Len(ms) /\ \A i \in 1 .. Len(ms) : ms[i] \in RobotMessages
  BY ElementOfSeq, LenProperties
<1>2. \A m \in RobotMessages : RobotStatus(m) \in Sent("robot")
  BY DEF Sent
<1>3. RobotReport(ms) \in Seq(Sent("robot")) /\ DOMAIN RobotReport(ms) = 1 .. Len(ms)
  BY <1>1, <1>2, IsASeq DEF RobotReport
<1>4. Len(RobotReport(ms)) = Len(ms)
  BY <1>1, <1>3, LenProperties
<1>5. \A i \in 1 .. Len(ms) : RobotReport(ms)[i] = RobotStatus(ms[i])
  BY DEF RobotReport
<1>6. \A m, n : RobotStatus(m) = RobotStatus(n) <=> m = n
  BY DEF RobotStatus
<1>. QED
  BY <1>1, <1>3, <1>4, <1>5, <1>6 DEF Has

-----------------------------------------------------------------------------
(* What a device does with a frame: what it sends and how much of it, what *)
(* becomes of its watchdog, and how the part goes on.                      *)
Replies(d, f) ==
  CASE d = "conveyor" -> IF f \in Sent("controller") THEN 1 ELSE 0
    [] d = "vision" -> IF f \in Sent("controller") \cup Sent("conveyor") THEN 2 ELSE 0
    [] OTHER -> IF f \in Sent("controller") THEN 7 ELSE 0

Heard(d, f) ==
  /\ heartbeat_seen' = IF f = ControllerHeartbeat THEN [heartbeat_seen EXCEPT ![d] = TRUE]
                       ELSE heartbeat_seen
  /\ heartbeat_misses' = IF f = ControllerHeartbeat THEN [heartbeat_misses EXCEPT ![d] = 0]
                         ELSE heartbeat_misses
  /\ shutdown_latched' = IF f = Shutdown(d) THEN [shutdown_latched EXCEPT ![d] = TRUE]
                         ELSE shutdown_latched

Answered(d, f, fs) ==
  /\ f \notin For(d) => UNCHANGED drawn
  /\ f \in For(d) \ Strays /\ ~shutdown_latched[d] =>
       \E g \in Sequels(f) :
         /\ Has(fs, g)
         /\ IF g \in FailureFrames THEN \E e \in Events : drawn' = drawn \cup {e}
            ELSE UNCHANGED drawn

(* The frames of the controller are of their own kind.                     *)
LEMMA ControllersOwn ==
  /\ Sent("controller") = {Command(c) : c \in Commands} \cup {ControllerHeartbeat}
  /\ \A d \in Devices : Shutdown(d) \in Sent("controller") /\ Shutdown(d) # ControllerHeartbeat
  /\ \A c \in Commands : Command(c) # ControllerHeartbeat
  /\ \A c, e : Command(c) = Command(e) => c = e
<1>1. Sent("controller") = {Command(c) : c \in Commands} \cup {ControllerHeartbeat}
  BY DEF Sent, CommandFrames
<1>2. \A c, e : Command(c) = Command(e) => c = e
  BY DEF Command
<1>3. \A c \in Commands : Command(c) # ControllerHeartbeat
  BY DEF Command, ControllerHeartbeat, Commands, RobotCommands, ConveyorCommands, VisionCommands
<1>4. \A d \in Devices : \E c \in Commands : Shutdown(d) = Command(c)
  BY DEF Shutdown, Devices, Commands, RobotCommands, ConveyorCommands, VisionCommands
<1>. QED
  BY <1>1, <1>2, <1>3, <1>4

(* A frame is known by its id.                                             *)
LEMMA ById ==
  ASSUME NEW f \in Frame
  PROVE  /\ f.id \in Commands => f = Command(f.id) /\ f \in Sent("controller")
         /\ f = ControllerHeartbeat => f.id \notin Commands
         /\ \A c \in Commands : f = Command(c) <=> f.id = c
         /\ \A m : f = ConveyorStatus(m) => f.id = "ConveyorStatus"
BY DEF Frame, CommandFrames, StatusFrames, ControllerHeartbeat, Command, Sent,
   RobotStatus, ConveyorStatus, VisionStatus, Commands, RobotCommands,
   ConveyorCommands, VisionCommands

(* The conveyor.                                                           *)
LEMMA ConveyorHears ==
  ASSUME TypeOK, Watching, NEW f \in Frame, ConveyorReceive(f)
  PROVE  \E fs : /\ Speaks("conveyor", fs) /\ Len(fs) <= Replies("conveyor", f)
                 /\ Heard("conveyor", f) /\ Answered("conveyor", f, fs)
<1>1. "conveyor" \in Participants /\ "conveyor" \in Devices
  BY DEF Participants, Devices
<1>2. /\ Shutdown("conveyor") = Command("conveyor.Shutdown")
      /\ ConveyorCommands \subseteq Commands
      /\ For("conveyor") = {Request, Command("conveyor.InjectFault")}
      /\ Command("conveyor.InjectFault") \in Strays
      /\ Sequels(Request) = {ConveyorStatus("PartArrived"), ConveyorStatus("ConveyorFault")}
  <2>1. Shutdown("conveyor") = Command("conveyor.Shutdown") /\ ConveyorCommands \subseteq Commands
    BY DEF Shutdown, Commands
  <2>2. /\ For("conveyor") = {Request, Command("conveyor.InjectFault")}
        /\ Command("conveyor.InjectFault") \in Strays
    BY DEF For, Strays, Request
  <2>3. Sequels(Request) = {ConveyorStatus("PartArrived"), ConveyorStatus("ConveyorFault")}
    <3>1. Request # ConveyorStatus("PartArrived")
      BY DEF Request, Command, ConveyorStatus, NoStatus
    <3>. QED
      BY <3>1 DEF Sequels
  <2>. QED
    BY <2>1, <2>2, <2>3
<1>3. \A m \in ConveyorMessages : ConveyorStatus(m) \in Sent("conveyor")
  BY DEF Sent
<1>4. /\ {"PartArrived", "ConveyorFault", "ConveyorRunning", "ConveyorStopped",
          "ConveyorSpeedReport"} \subseteq ConveyorMessages
      /\ {"conveyor.RequestPartArrived", "conveyor.InjectFault", "conveyor.Shutdown",
          "conveyor.Start", "conveyor.Stop", "conveyor.ReportSpeed"} \subseteq ConveyorCommands
  BY DEF ConveyorMessages, ConveyorCommands
<1>5. ASSUME NEW m \in ConveyorMessages, Send("conveyor", <<ConveyorStatus(m)>>)
      PROVE  /\ Speaks("conveyor", <<ConveyorStatus(m)>>) /\ Len(<<ConveyorStatus(m)>>) = 1
             /\ Has(<<ConveyorStatus(m)>>, ConveyorStatus(m))
  BY <1>1, <1>3, <1>5, SpeaksShort DEF Speaks, Send
<1>6. Replies("conveyor", f) \in {0, 1}
      /\ (f.id \in ConveyorCommands => Replies("conveyor", f) = 1)
  BY <1>2, ById DEF Replies
<1>7. CASE f.id = "conveyor.RequestPartArrived" /\ MovePart
  <2>1. f = Request /\ f # ControllerHeartbeat /\ f # Shutdown("conveyor")
    BY <1>2, <1>4, <1>7, ById DEF Request
  <2>2. PICK m \in {"PartArrived", "ConveyorFault"} :
          /\ Send("conveyor", <<ConveyorStatus(m)>>) /\ UNCHANGED watchdogVars
          /\ m = "ConveyorFault" => \E e \in Events : drawn' = drawn \cup {e}
          /\ m = "PartArrived" => UNCHANGED drawn
    BY <1>7 DEF MovePart, ConveyorPublish, Publish, Hit, Miss, Events
  <2>3. Heard("conveyor", f)
    BY <2>1, <2>2 DEF Heard, watchdogVars
  <2>4. ConveyorStatus("ConveyorFault") \in FailureFrames
        /\ ConveyorStatus("PartArrived") \notin FailureFrames
    BY DEF FailureFrames, Refusals, ConveyorStatus, VisionStatus, RobotStatus
  <2>5. Answered("conveyor", f, <<ConveyorStatus(m)>>)
    BY <1>2, <1>4, <1>5, <2>1, <2>2, <2>4 DEF Answered
  <2>6. Speaks("conveyor", <<ConveyorStatus(m)>>)
        /\ Len(<<ConveyorStatus(m)>>) <= Replies("conveyor", f)
    BY <1>4, <1>5, <1>6, <1>7, <2>2
  <2>. QED
    BY <2>3, <2>5, <2>6
<1>8. ASSUME UNCHANGED drawn, f.id # "conveyor.RequestPartArrived", NEW fs
      PROVE  Answered("conveyor", f, fs)
  <2>1. f # Request
    BY <1>4, <1>2, <1>8, ById DEF Request
  <2>. QED
    BY <1>2, <1>8, <2>1 DEF Answered
<1>9. CASE f = ControllerHeartbeat /\ HearController("conveyor") /\ UNCHANGED drawn
  <2>1. Heard("conveyor", f) /\ UNCHANGED tx /\ f.id # "conveyor.RequestPartArrived"
    BY <1>2, <1>4, <1>9, ById, ControllersOwn, <1>1 DEF Heard, HearController
  <2>. QED
    BY <1>1, <1>6, <1>8, <1>9, <2>1, SpeaksNothing
<1>10. ASSUME f # ControllerHeartbeat, f.id # "conveyor.Shutdown", UNCHANGED watchdogVars
       PROVE  Heard("conveyor", f)
  <2>1. f # Shutdown("conveyor")
    BY <1>2, <1>4, <1>10, ById
  <2>. QED
    BY <1>10, <2>1 DEF Heard, watchdogVars
<1>11. CASE /\ f.id \in {"conveyor.Start", "conveyor.Stop", "conveyor.ReportSpeed",
                         "conveyor.InjectFault"}
            /\ UNCHANGED <<watchdogVars, drawn>>
            /\ \E m \in ConveyorMessages : Send("conveyor", <<ConveyorStatus(m)>>)
  <2>1. f # ControllerHeartbeat
    BY <1>2, <1>4, <1>11, ById
  <2>2. Heard("conveyor", f)
    BY <1>10, <1>11, <2>1
  <2>3. PICK m \in ConveyorMessages : Send("conveyor", <<ConveyorStatus(m)>>)
    BY <1>11
  <2>4. Speaks("conveyor", <<ConveyorStatus(m)>>)
        /\ Len(<<ConveyorStatus(m)>>) <= Replies("conveyor", f)
    BY <1>4, <1>5, <1>6, <1>11, <2>3
  <2>5. Answered("conveyor", f, <<ConveyorStatus(m)>>)
    BY <1>8, <1>11
  <2>. QED
    BY <2>2, <2>4, <2>5
<1>12. CASE /\ f # ControllerHeartbeat
            /\ f.id \notin {"conveyor.Shutdown", "conveyor.RequestPartArrived"}
            /\ Quiet /\ UNCHANGED drawn
  <2>1. UNCHANGED watchdogVars /\ UNCHANGED tx
    BY <1>12 DEF Quiet
  <2>2. Heard("conveyor", f)
    BY <1>10, <1>12, <2>1
  <2>. QED
    BY <1>1, <1>6, <1>8, <1>12, <2>1, <2>2, SpeaksNothing
<1>13. CASE f.id = "conveyor.Shutdown" /\ ConveyorShutdown /\ UNCHANGED drawn
  <2>1. f = Shutdown("conveyor") /\ f # ControllerHeartbeat
    BY <1>2, <1>4, <1>13, ById
  <2>2. CASE shutdown_latched["conveyor"] /\ Quiet
    <3>1. shutdown_latched = [shutdown_latched EXCEPT !["conveyor"] = TRUE]
      BY <1>1, <2>2 DEF Watching
    <3>2. Heard("conveyor", f) /\ UNCHANGED tx
      BY <2>1, <2>2, <3>1 DEF Heard, Quiet, watchdogVars
    <3>. QED
      BY <1>1, <1>6, <1>8, <1>13, <3>2, SpeaksNothing
  <2>3. CASE /\ Latch("conveyor") /\ Send("conveyor", <<ConveyorStatus("ConveyorStopped")>>)
             /\ UNCHANGED <<heartbeat_seen, heartbeat_misses>>
    <3>1. Heard("conveyor", f)
      BY <2>1, <2>3 DEF Heard, Latch
    <3>2. Speaks("conveyor", <<ConveyorStatus("ConveyorStopped")>>)
          /\ Len(<<ConveyorStatus("ConveyorStopped")>>) <= Replies("conveyor", f)
      BY <1>4, <1>5, <1>6, <1>13, <2>3
    <3>3. Answered("conveyor", f, <<ConveyorStatus("ConveyorStopped")>>)
      BY <1>8, <1>13
    <3>. QED
      BY <3>1, <3>2, <3>3
  <2>. QED
    BY <1>13, <2>2, <2>3 DEF ConveyorShutdown
<1>14. \/ f.id = "conveyor.RequestPartArrived" /\ MovePart
       \/ f = ControllerHeartbeat /\ HearController("conveyor") /\ UNCHANGED drawn
       \/ /\ f.id \in {"conveyor.Start", "conveyor.Stop", "conveyor.ReportSpeed",
                       "conveyor.InjectFault"}
          /\ UNCHANGED <<watchdogVars, drawn>>
          /\ \E m \in ConveyorMessages : Send("conveyor", <<ConveyorStatus(m)>>)
       \/ f.id = "conveyor.Start" /\ Quiet /\ UNCHANGED drawn
       \/ f.id = "conveyor.Shutdown" /\ ConveyorShutdown /\ UNCHANGED drawn
       \/ /\ f # ControllerHeartbeat
          /\ f.id \notin {"conveyor.Shutdown", "conveyor.RequestPartArrived"}
          /\ Quiet /\ UNCHANGED drawn
  BY <1>4 DEF ConveyorReceive, ConveyorStart, ConveyorPublish, Publish
<1>15. f.id = "conveyor.Start" => f # ControllerHeartbeat
  BY <1>2, <1>4, ById
<1>. QED
  BY <1>7, <1>9, <1>11, <1>12, <1>13, <1>14, <1>15

(* The vision sensor.                                                      *)
LEMMA VisionHears ==
  ASSUME TypeOK, Watching, NEW f \in Frame, VisionReceive(f)
  PROVE  \E fs : /\ Speaks("vision", fs) /\ Len(fs) <= Replies("vision", f)
                 /\ Heard("vision", f) /\ Answered("vision", f, fs)
<1>1. "vision" \in Participants /\ "vision" \in Devices
  BY DEF Participants, Devices
<1>2. /\ Shutdown("vision") = Command("vision.Shutdown")
      /\ VisionCommands \subseteq Commands /\ VisionServes \subseteq VisionCommands
      /\ VisionStatus("VisionHeartbeat") \in Sent("vision")
      /\ ConveyorStatus("PartArrived") \in Sent("conveyor")
      /\ "vision.Shutdown" \in VisionCommands \ VisionServes
  BY DEF Shutdown, Commands, VisionCommands, VisionServes, Sent, VisionMessages, ConveyorMessages
<1>3. /\ For("vision") \ Strays = {ConveyorStatus("PartArrived")}
      /\ For("vision") \cap Strays = {Command("vision.InjectFault"), Command("vision.InjectTimeout"),
                                      Command("vision.ProcessTick")}
  BY DEF For, Strays, Command, ConveyorStatus, RobotStatus, NoStatus
<1>4. Sequels(ConveyorStatus("PartArrived")) =
        {Accepting, Rejecting, VisionStatus("VisionFault"), VisionStatus("VisionTimeout")}
  <2>1. Request # ConveyorStatus("PartArrived")
    BY DEF Request, Command, ConveyorStatus, NoStatus
  <2>. QED
    BY <2>1 DEF Sequels
<1>5. ASSUME NEW m \in VisionMessages,
             Send("vision", <<VisionStatus(m), VisionStatus("VisionHeartbeat")>>)
      PROVE  /\ Speaks("vision", <<VisionStatus(m), VisionStatus("VisionHeartbeat")>>)
             /\ Len(<<VisionStatus(m), VisionStatus("VisionHeartbeat")>>) = 2
             /\ Has(<<VisionStatus(m), VisionStatus("VisionHeartbeat")>>, VisionStatus(m))
  <2>1. VisionStatus(m) \in Sent("vision")
    BY DEF Sent
  <2>. QED
    BY <1>1, <1>2, <1>5, <2>1, SpeaksShort DEF Speaks, Send
<1>6. Replies("vision", f) \in {0, 2}
      /\ (f.id \in Commands => Replies("vision", f) = 2)
      /\ (f = ConveyorStatus("PartArrived") => Replies("vision", f) = 2)
  BY <1>2, ById DEF Replies
<1>7. f.id \in Commands => f # ConveyorStatus("PartArrived") /\ f # ControllerHeartbeat
  BY ById DEF Commands, RobotCommands, ConveyorCommands, VisionCommands
<1>8. f = ConveyorStatus("PartArrived") => f # ControllerHeartbeat
  BY DEF ConveyorStatus, ControllerHeartbeat
<1>9. f = Shutdown("vision") <=> f.id = "vision.Shutdown"
  BY <1>2, ById
<1>10. ASSUME f # ControllerHeartbeat, f.id # "vision.Shutdown", UNCHANGED watchdogVars
       PROVE  Heard("vision", f)
  BY <1>9, <1>10 DEF Heard, watchdogVars
<1>11. ASSUME UNCHANGED drawn, f # ConveyorStatus("PartArrived"), NEW fs
       PROVE  Answered("vision", f, fs)
  BY <1>3, <1>11 DEF Answered
<1>12. CASE f = ControllerHeartbeat /\ HearController("vision") /\ UNCHANGED drawn
  <2>1. Heard("vision", f) /\ UNCHANGED tx
    BY <1>1, <1>12, ControllersOwn DEF Heard, HearController
  <2>. QED
    BY <1>1, <1>6, <1>8, <1>11, <1>12, <2>1, SpeaksNothing
<1>13. CASE f.id = "vision.Shutdown" /\ VisionShutdown /\ UNCHANGED drawn
  <2>1. Heard("vision", f) /\ UNCHANGED tx
    BY <1>2, <1>7, <1>9, <1>13 DEF Heard, VisionShutdown, Latch
  <2>. QED
    BY <1>1, <1>2, <1>6, <1>7, <1>11, <1>13, <2>1, SpeaksNothing
<1>14. CASE /\ f # ControllerHeartbeat /\ f.id # "vision.Shutdown"
            /\ Quiet /\ UNCHANGED drawn
            /\ shutdown_latched["vision"] \/ f # ConveyorStatus("PartArrived")
  <2>1. UNCHANGED watchdogVars /\ UNCHANGED tx
    BY <1>14 DEF Quiet
  <2>2. Answered("vision", f, <<>>)
    BY <1>3, <1>14 DEF Answered
  <2>. QED
    BY <1>1, <1>6, <1>10, <1>14, <2>1, <2>2, SpeaksNothing
(* An inspection, of the part that arrived or on command.                  *)
<1>15. ASSUME NEW full, NEW image, NEW id, RunInspectionCycle(full, image, id),
              (full = TRUE /\ image \in Verdicts) \/ f.id = "vision.ProcessTick",
              f = ConveyorStatus("PartArrived") \/ f.id = "vision.ProcessTick"
       PROVE  \E fs : /\ Speaks("vision", fs) /\ Len(fs) <= Replies("vision", f)
                      /\ Heard("vision", f) /\ Answered("vision", f, fs)
  <2>1. PICK m \in {"VisionFault", "VisionTimeout", "PartAccepted", "RejectDetected"} :
          /\ VisionPublish(m)
          /\ \/ m \in {"VisionFault", "VisionTimeout"} /\ \E e \in Events : drawn' = drawn \cup {e}
             \/ ~Loads(full, image) /\ UNCHANGED drawn
             \/ m \notin {"VisionFault", "VisionTimeout"} /\ UNCHANGED drawn
    BY <1>15 DEF RunInspectionCycle, Hit, Miss, Events, VerdictMessage
  <2>2. m \in VisionMessages
    BY DEF VisionMessages
  <2>. DEFINE fs == <<VisionStatus(m), VisionStatus("VisionHeartbeat")>>
  <2>3. UNCHANGED watchdogVars /\ Speaks("vision", fs) /\ Len(fs) = 2 /\ Has(fs, VisionStatus(m))
    BY <1>5, <2>1, <2>2 DEF VisionPublish, Publish
  <2>. HIDE DEF fs
  <2>4. "vision.ProcessTick" \in Commands /\ "vision.ProcessTick" # "vision.Shutdown"
    BY DEF Commands, VisionCommands
  <2>5. f # ControllerHeartbeat /\ f.id # "vision.Shutdown"
    BY <1>7, <1>8, <1>15, <2>4 DEF ConveyorStatus
  <2>6. Heard("vision", f)
    BY <1>10, <2>3, <2>5
  <2>7. Len(fs) <= Replies("vision", f)
    BY <1>6, <1>15, <2>3, <2>4
  <2>8. Answered("vision", f, fs)
    <3>1. CASE f.id = "vision.ProcessTick"
      <4>1. f = Command("vision.ProcessTick")
        BY <2>4, <3>1, ById
      <4>2. f \in For("vision") \cap Strays
        BY <1>3, <4>1
      <4>. QED
        BY <4>2 DEF Answered
    <3>2. CASE f = ConveyorStatus("PartArrived") /\ full = TRUE /\ image \in Verdicts
      <4>1. VisionStatus(m) \in Sequels(f)
        BY <1>4, <3>2 DEF Accepting, Rejecting
      <4>2. VisionStatus(m) \in FailureFrames <=> m \in {"VisionFault", "VisionTimeout"}
        BY DEF FailureFrames, Refusals, ConveyorStatus, VisionStatus, RobotStatus
      <4>3. f \in For("vision")
        BY <3>2 DEF For
      <4>4. Loads(full, image)
        BY <3>2 DEF Loads, Verdicts
      <4>. QED
        BY <2>1, <2>3, <3>2, <4>1, <4>2, <4>3, <4>4 DEF Answered
    <3>. QED
      BY <1>15, <3>1, <3>2
  <2>. QED
    BY <2>3, <2>6, <2>7, <2>8
<1>16. CASE f = ConveyorStatus("PartArrived") /\ \E image \in Verdicts : PartArrives(image)
  BY <1>15, <1>16 DEF PartArrives
<1>17. CASE f.id = "vision.ProcessTick"
            /\ RunInspectionCycle(has_pending_image, pending_image, pending_part_id)
  BY <1>15, <1>17
<1>18. CASE /\ f.id \in VisionServes \ {"vision.ProcessTick"} /\ UNCHANGED drawn
            /\ \E m \in {"VisionHeartbeat", "VisionFault", "VisionTimeout"} :
                 Publish("vision", <<VisionStatus(m)>>)
  <2>1. PICK m \in {"VisionHeartbeat", "VisionFault", "VisionTimeout"} :
          Publish("vision", <<VisionStatus(m)>>)
    BY <1>18
  <2>. DEFINE fs == <<VisionStatus(m)>>
  <2>2. VisionStatus(m) \in Sent("vision")
    BY DEF Sent, VisionMessages
  <2>3. Speaks("vision", fs) /\ Len(fs) = 1 /\ UNCHANGED watchdogVars
    BY <1>1, <2>1, <2>2, SpeaksShort DEF Speaks, Send, Publish
  <2>. HIDE DEF fs
  <2>4. f.id \in Commands /\ f.id # "vision.Shutdown"
    BY <1>2, <1>18
  <2>5. Heard("vision", f) /\ Answered("vision", f, fs)
    BY <1>7, <1>10, <1>11, <1>18, <2>3, <2>4
  <2>6. Len(fs) <= Replies("vision", f)
    BY <1>6, <2>3, <2>4
  <2>. QED
    BY <2>3, <2>5, <2>6
<1>19. \/ f = ControllerHeartbeat /\ HearController("vision") /\ UNCHANGED drawn
       \/ f.id = "vision.Shutdown" /\ VisionShutdown /\ UNCHANGED drawn
       \/ /\ f # ControllerHeartbeat /\ f.id # "vision.Shutdown"
          /\ Quiet /\ UNCHANGED drawn
          /\ shutdown_latched["vision"] \/ f # ConveyorStatus("PartArrived")
       \/ f = ConveyorStatus("PartArrived") /\ \E image \in Verdicts : PartArrives(image)
       \/ f.id = "vision.ProcessTick"
            /\ RunInspectionCycle(has_pending_image, pending_image, pending_part_id)
       \/ /\ f.id \in VisionServes \ {"vision.ProcessTick"} /\ UNCHANGED drawn
          /\ \E m \in {"VisionHeartbeat", "VisionFault", "VisionTimeout"} :
               Publish("vision", <<VisionStatus(m)>>)
  BY DEF VisionReceive, VisionObey, VisionServes
<1>. QED
  BY <1>12, <1>13, <1>14, <1>16, <1>17, <1>18, <1>19

(* How long the robot's reports are, and what they say.                    *)
LEMMA RobotLengths ==
  /\ HomeMessages \in Seq(RobotMessages) /\ Len(HomeMessages) = 5
  /\ StopMessages \in Seq(RobotMessages) /\ Len(StopMessages) = 2
  /\ ParkMessages \in Seq(RobotMessages) /\ Len(ParkMessages) = 7
  /\ <<"RobotIdle", "RobotHeartbeat">> \in Seq(RobotMessages)
  /\ \A first \in {<<"RobotBusy", "PickStarted">>, <<"RobotBusy">>} : \A m \in RobotMessages :
       /\ first \o <<m, "RobotReady", "RobotHeartbeat">> \in Seq(RobotMessages)
       /\ Len(first \o <<m, "RobotReady", "RobotHeartbeat">>) <= 7
       /\ Has(first \o <<m, "RobotReady", "RobotHeartbeat">>, m)
<1>1. /\ HomeMessages \in Seq(RobotMessages) /\ Len(HomeMessages) = 5
      /\ StopMessages \in Seq(RobotMessages) /\ Len(StopMessages) = 2
      /\ <<"RobotIdle", "RobotHeartbeat">> \in Seq(RobotMessages)
  BY DEF HomeMessages, StopMessages, RobotMessages
<1>2. ParkMessages \in Seq(RobotMessages) /\ Len(ParkMessages) = 7
  <2>1. /\ HomeMessages \o StopMessages \in Seq(RobotMessages)
        /\ Len(HomeMessages \o StopMessages) = Len(HomeMessages) + Len(StopMessages)
    BY <1>1, ConcatProperties
  <2>. QED
    BY <1>1, <2>1 DEF ParkMessages
<1>3. ASSUME NEW first \in {<<"RobotBusy", "PickStarted">>, <<"RobotBusy">>}, NEW m \in RobotMessages
      PROVE  /\ first \o <<m, "RobotReady", "RobotHeartbeat">> \in Seq(RobotMessages)
             /\ Len(first \o <<m, "RobotReady", "RobotHeartbeat">>) <= 7
             /\ Has(first \o <<m, "RobotReady", "RobotHeartbeat">>, m)
  <2>. DEFINE rest == <<m, "RobotReady", "RobotHeartbeat">>
  <2>1. /\ first \in Seq(RobotMessages) /\ rest \in Seq(RobotMessages)
        /\ Len(first) <= 2 /\ Len(first) \in Nat /\ Len(rest) = 3
    <3>1. CASE first = <<"RobotBusy", "PickStarted">>
      BY <3>1 DEF RobotMessages
    <3>2. CASE first = <<"RobotBusy">>
      BY <3>2 DEF RobotMessages
    <3>. QED
      BY <3>1, <3>2
  <2>2. Has(rest, m)
    BY DEF Has
  <2>. HIDE DEF rest
  <2>. first \in Seq(RobotMessages) /\ rest \in Seq(RobotMessages)
    BY <2>1
  <2>3. /\ first \o rest \in Seq(RobotMessages) /\ Len(first \o rest) = Len(first) + Len(rest)
    BY ConcatProperties, Zenon
  <2>4. Has(first \o rest, m)
    BY <2>1, <2>2, HasConcat
  <2>. QED
    BY <2>1, <2>3, <2>4 DEF rest
<1>. QED
  BY <1>1, <1>2, <1>3

(* The robot.                                                              *)
LEMMA RobotHears ==
  ASSUME TypeOK, Watching, NEW f \in Frame, RobotReceive(f)
  PROVE  \E fs : /\ Speaks("robot", fs) /\ Len(fs) <= Replies("robot", f)
                 /\ Heard("robot", f) /\ Answered("robot", f, fs)
<1>1. "robot" \in Participants /\ "robot" \in Devices
  BY DEF Participants, Devices
<1>2. Shutdown("robot") = Command("robot.Shutdown") /\ RobotCommands \subseteq Commands
      /\ {"robot.Home", "robot.Pick", "robot.Place", "robot.Stop", "robot.Reset", "robot.Shutdown",
          "robot.RemoveReject"} = RobotCommands
  BY DEF Shutdown, Commands, RobotCommands
<1>3. For("robot") = {Command("robot.Pick"), Command("robot.Place"), Command("robot.RemoveReject")}
  BY DEF For
<1>4. \A g \in For("robot") : g # Request /\ g # ConveyorStatus("PartArrived")
  BY <1>3 DEF Request, Command, ConveyorStatus, NoStatus
<1>5. \A g \in For("robot") : Sequels(g) = Results(g)
  BY <1>4 DEF Sequels
<1>6. Replies("robot", f) \in {0, 7} /\ (f.id \in Commands => Replies("robot", f) = 7)
  BY ById DEF Replies
<1>7. f.id \in Commands => f # ControllerHeartbeat
  BY ById
<1>8. f = Shutdown("robot") <=> f.id = "robot.Shutdown"
  BY <1>2, ById
<1>9. f \in For("robot") => f.id \in {"robot.Pick", "robot.Place", "robot.RemoveReject"}
  BY <1>3 DEF Command
<1>10. ASSUME f # ControllerHeartbeat, f.id # "robot.Shutdown", UNCHANGED watchdogVars
       PROVE  Heard("robot", f)
  BY <1>8, <1>10 DEF Heard, watchdogVars
<1>11. ASSUME UNCHANGED drawn, f \notin For("robot"), NEW fs
       PROVE  Answered("robot", f, fs)
  BY <1>11 DEF Answered
<1>12. CASE f = ControllerHeartbeat /\ HearController("robot") /\ UNCHANGED drawn
  <2>1. Heard("robot", f) /\ UNCHANGED tx
    BY <1>1, <1>12, ControllersOwn DEF Heard, HearController
  <2>2. f \notin For("robot")
    BY <1>2, <1>7, <1>9, <1>12
  <2>. QED
    BY <1>1, <1>6, <1>11, <1>12, <2>1, <2>2, SpeaksNothing
<1>13. CASE f # ControllerHeartbeat /\ Quiet /\ UNCHANGED drawn
            /\ (f.id \notin RobotCommands \/ shutdown_latched["robot"])
  <2>1. UNCHANGED watchdogVars /\ UNCHANGED tx
    BY <1>13 DEF Quiet
  <2>2. Answered("robot", f, <<>>)
    BY <1>2, <1>9, <1>13 DEF Answered
  <2>3. Heard("robot", f)
    <3>1. CASE f.id = "robot.Shutdown"
      <4>1. shutdown_latched = [shutdown_latched EXCEPT !["robot"] = TRUE]
        BY <1>1, <1>2, <1>13, <3>1 DEF Watching
      <4>. QED
        BY <1>8, <1>13, <2>1, <3>1, <4>1 DEF Heard, watchdogVars
    <3>. QED
      BY <1>10, <1>13, <2>1, <3>1
  <2>. QED
    BY <1>1, <1>6, <2>1, <2>2, <2>3, SpeaksNothing
<1>14. ASSUME NEW ms \in Seq(RobotMessages), Len(ms) <= 7, Send("robot", RobotReport(ms)),
              f.id \in RobotCommands
       PROVE  /\ Speaks("robot", RobotReport(ms)) /\ Len(RobotReport(ms)) <= Replies("robot", f)
              /\ \A m : Has(ms, m) => Has(RobotReport(ms), RobotStatus(m))
  BY <1>2, <1>6, <1>14, SpeaksReport DEF Speaks, Send
<1>15. CASE f.id = "robot.Shutdown" /\ RobotShutdown /\ UNCHANGED drawn
  <2>1. Heard("robot", f)
    BY <1>2, <1>7, <1>8, <1>15 DEF Heard, RobotShutdown, Latch
  <2>2. Send("robot", RobotReport(ParkMessages)) /\ f \notin For("robot")
    BY <1>9, <1>15 DEF RobotShutdown
  <2>3. ParkMessages \in Seq(RobotMessages) /\ Len(ParkMessages) <= 7
    <3>1. ParkMessages \in Seq(RobotMessages) /\ Len(ParkMessages) = 7
      BY RobotLengths
    <3>. QED
      BY <3>1
  <2>. QED
    BY <1>2, <1>11, <1>14, <1>15, <2>1, <2>2, <2>3
<1>16. CASE /\ f.id \in {"robot.Home", "robot.Stop", "robot.Reset"} /\ UNCHANGED drawn
            /\ \E ms \in {HomeMessages, StopMessages, <<"RobotIdle", "RobotHeartbeat">>} :
                 RobotPublish(ms)
  <2>1. PICK ms \in {HomeMessages, StopMessages, <<"RobotIdle", "RobotHeartbeat">>} : RobotPublish(ms)
    BY <1>16
  <2>2. ms \in Seq(RobotMessages) /\ Len(ms) <= 7
    <3>1. \A k \in {2, 5} : k <= 7
      OBVIOUS
    <3>2. Len(<<"RobotIdle", "RobotHeartbeat">>) = 2
      OBVIOUS
    <3>3. ms \in Seq(RobotMessages) /\ Len(ms) \in {2, 5}
      BY <3>2, RobotLengths
    <3>. QED
      BY <3>1, <3>3
  <2>3. Send("robot", RobotReport(ms)) /\ UNCHANGED watchdogVars
    BY <2>1 DEF RobotPublish, Publish
  <2>4. Heard("robot", f) /\ f \notin For("robot")
    BY <1>2, <1>7, <1>9, <1>10, <1>16, <2>3
  <2>. QED
    BY <1>2, <1>11, <1>14, <1>16, <2>2, <2>3, <2>4
(* A motion, done or failed.                                               *)
<1>17. ASSUME NEW first \in {<<"RobotBusy", "PickStarted">>, <<"RobotBusy">>},
              NEW failure \in Events, NEW failed \in {"PickFailed", "MotionFailed"},
              NEW done \in {"PickCompleted", "PlaceCompleted", "RejectRemoved"},
              Motion(first, failure, failed, done), f \in For("robot"),
              Results(f) = {RobotStatus(done), RobotStatus(failed)}
       PROVE  \E fs : /\ Speaks("robot", fs) /\ Len(fs) <= Replies("robot", f)
                      /\ Heard("robot", f) /\ Answered("robot", f, fs)
  <2>1. PICK m \in {failed, done} :
          /\ RobotPublish(first \o <<m, "RobotReady", "RobotHeartbeat">>)
          /\ \/ m = failed /\ drawn' = drawn \cup {failure}
             \/ m = done /\ UNCHANGED drawn
    BY <1>17 DEF Motion, Hit, Miss
  <2>. DEFINE ms == first \o <<m, "RobotReady", "RobotHeartbeat">>
  <2>2. m \in RobotMessages
    BY DEF RobotMessages
  <2>3. ms \in Seq(RobotMessages) /\ Len(ms) <= 7 /\ Has(ms, m)
    BY <2>2, RobotLengths
  <2>4. Send("robot", RobotReport(ms)) /\ UNCHANGED watchdogVars
    BY <2>1 DEF RobotPublish, Publish
  <2>. HIDE DEF ms
  <2>5. f.id \in RobotCommands /\ f.id # "robot.Shutdown"
    BY <1>2, <1>9, <1>17
  <2>6. /\ Speaks("robot", RobotReport(ms)) /\ Len(RobotReport(ms)) <= Replies("robot", f)
        /\ Has(RobotReport(ms), RobotStatus(m))
    BY <1>14, <2>3, <2>4, <2>5
  <2>7. Heard("robot", f)
    BY <1>2, <1>7, <1>10, <2>4, <2>5
  <2>8. RobotStatus(failed) \in FailureFrames /\ RobotStatus(done) \notin FailureFrames
        /\ RobotStatus(m) \in Sequels(f)
    <3>1. RobotStatus(failed) \in FailureFrames /\ RobotStatus(done) \notin FailureFrames
      BY DEF FailureFrames, Refusals, ConveyorStatus, VisionStatus, RobotStatus
    <3>. QED
      BY <1>5, <1>17, <3>1
  <2>9. Answered("robot", f, RobotReport(ms))
    BY <1>17, <2>1, <2>6, <2>8 DEF Answered
  <2>. QED
    BY <2>6, <2>7, <2>9
<1>18. CASE f.id = "robot.Pick" /\ Pick
  <2>1. f = Command("robot.Pick")
    BY <1>2, <1>18, ById
  <2>2. Results(f) = {RobotStatus("PickCompleted"), RobotStatus("PickFailed")}
    BY <2>1 DEF Results, Command
  <2>. QED
    BY <1>3, <1>17, <1>18, <2>1, <2>2 DEF Pick, Events
<1>19. CASE f.id = "robot.Place" /\ Place
  <2>1. f = Command("robot.Place")
    BY <1>2, <1>19, ById
  <2>2. Results(f) = {RobotStatus("PlaceCompleted"), RobotStatus("MotionFailed")}
    BY <2>1 DEF Results, Command
  <2>. QED
    BY <1>3, <1>17, <1>19, <2>1, <2>2 DEF Place, Events
<1>20. CASE f.id = "robot.RemoveReject" /\ RemoveReject
  <2>1. f = Command("robot.RemoveReject")
    BY <1>2, <1>20, ById
  <2>2. Results(f) = {RobotStatus("RejectRemoved"), RobotStatus("PickFailed")}
    BY <2>1 DEF Results, Command
  <2>. QED
    BY <1>3, <1>17, <1>20, <2>1, <2>2 DEF RemoveReject, Events
<1>21. \/ f = ControllerHeartbeat /\ HearController("robot") /\ UNCHANGED drawn
       \/ f # ControllerHeartbeat /\ Quiet /\ UNCHANGED drawn
            /\ (f.id \notin RobotCommands \/ shutdown_latched["robot"])
       \/ f.id = "robot.Shutdown" /\ RobotShutdown /\ UNCHANGED drawn
       \/ /\ f.id \in {"robot.Home", "robot.Stop", "robot.Reset"} /\ UNCHANGED drawn
          /\ \E ms \in {HomeMessages, StopMessages, <<"RobotIdle", "RobotHeartbeat">>} :
               RobotPublish(ms)
       \/ f.id = "robot.Pick" /\ Pick
       \/ f.id = "robot.Place" /\ Place
       \/ f.id = "robot.RemoveReject" /\ RemoveReject
  BY DEF RobotReceive, RobotObey
<1>. QED
  BY <1>12, <1>13, <1>15, <1>16, <1>18, <1>19, <1>20, <1>21

-----------------------------------------------------------------------------
(* What the controller does with a frame.                                  *)
Counted(f) ==
  /\ device_misses' \in [Devices -> Nat]
  /\ \A d \in Devices :
       /\ f = Alive(d) => device_misses'[d] = 0
       /\ device_misses'[d] = device_misses[d] \/ (f \in Sent(d) /\ device_misses'[d] = 0)

Decided(f, fs) ==
  \/ fs = <<>> /\ UNCHANGED <<phase, fault_latched, progress>>
  \/ /\ f \in Faults
     /\ phase' = "Faulted" /\ fault_latched' = TRUE /\ UNCHANGED progress
     /\ fs = IF fault_latched THEN <<>> ELSE ShutdownFrames
  \/ /\ \E g : fs = <<g>> /\ Moves(f, phase, g, phase')
     /\ UNCHANGED <<fault_latched, progress>>
  \/ /\ Done(f)
     /\ IF processed + 1 >= TargetCycles
        THEN fs = <<Command("conveyor.Stop")>> /\ phase' = "Finished"
        ELSE fs = <<Request>> /\ phase' = "WaitingInspection"
     /\ UNCHANGED fault_latched

(* The shutdown commands are for everyone.                                 *)
LEMMA ShutdownForAll ==
  /\ ShutdownFrames \in Seq(Sent("controller")) /\ Len(ShutdownFrames) = 5
  /\ \A d \in Devices : Has(ShutdownFrames, Shutdown(d))
  /\ <<ControllerHeartbeat>> \o ShutdownFrames \in Seq(Sent("controller"))
  /\ Len(<<ControllerHeartbeat>> \o ShutdownFrames) = 6
  /\ \A f : Has(<<ControllerHeartbeat>> \o ShutdownFrames, f) <=>
              f = ControllerHeartbeat \/ Has(ShutdownFrames, f)
<1>1. \A c \in {"conveyor.Shutdown", "robot.Shutdown", "vision.Shutdown", "robot.Stop",
                "conveyor.Stop"} : Command(c) \in Sent("controller")
  BY DEF Sent, CommandFrames, Commands, RobotCommands, ConveyorCommands, VisionCommands
<1>2. ShutdownFrames \in Seq(Sent("controller")) /\ Len(ShutdownFrames) = 5
  BY <1>1 DEF ShutdownFrames
<1>3. /\ Has(ShutdownFrames, Command("conveyor.Shutdown"))
      /\ Has(ShutdownFrames, Command("robot.Shutdown"))
      /\ Has(ShutdownFrames, Command("vision.Shutdown"))
  BY DEF ShutdownFrames, Has
<1>4. \A d \in Devices : Has(ShutdownFrames, Shutdown(d))
  BY <1>3 DEF Shutdown, Devices
<1>. DEFINE t == ShutdownFrames
            h == <<ControllerHeartbeat>>
            S == Sent("controller")
<1>5. h \in Seq(S) /\ Len(h) = 1
  BY DEF Sent
<1>6. \A f : Has(h, f) <=> f = ControllerHeartbeat
  BY DEF Has
<1>7. t \in Seq(S) /\ Len(t) = 5
  BY <1>2
<1>. HIDE DEF t, h, S
<1>8. h \o t \in Seq(S) /\ Len(h \o t) = Len(h) + Len(t)
  BY <1>5, <1>7, ConcatProperties
<1>9. \A f : Has(h \o t, f) <=> Has(h, f) \/ Has(t, f)
  BY <1>5, <1>7, HasConcat
<1>10. Len(h \o t) = 6
  BY <1>5, <1>7, <1>8
<1>. QED
  BY <1>2, <1>4, <1>6, <1>8, <1>9, <1>10 DEF h, t, S

(* One command.                                                            *)
LEMMA SpeaksCommand ==
  ASSUME NEW c \in Commands, ControllerSend(<<Command(c)>>)
  PROVE  Speaks("controller", <<Command(c)>>) /\ Len(<<Command(c)>>) = 1
<1>1. Command(c) \in Sent("controller") /\ "controller" \in Participants
  BY DEF Sent, CommandFrames, Participants
<1>. QED
  BY <1>1, SpeaksShort DEF Speaks, ControllerSend, Send

(* Whatever frame the controller gets.                                     *)
LEMMA ControllerHears ==
  ASSUME TypeOK, Watching, NEW f \in Frame, ControllerReceive(f)
  PROVE  \E fs : /\ Speaks("controller", fs) /\ Counted(f) /\ Decided(f, fs)
                 /\ UNCHANGED bootstrapped
<1>1. "controller" \in Participants
  BY DEF Participants
<1>2. /\ \A m \in VisionMessages : VisionStatus(m) \in Sent("vision")
      /\ \A m \in RobotMessages : RobotStatus(m) \in Sent("robot")
      /\ \A m \in ConveyorMessages : ConveyorStatus(m) \in Sent("conveyor")
  BY DEF Sent
<1>3. /\ f.id = "VisionStatus" => f = VisionStatus(f.status) /\ f \in Sent("vision")
      /\ f.id = "RoboticArmStatus" => f = RobotStatus(f.status) /\ f \in Sent("robot")
      /\ f.id = "ConveyorStatus" => f = ConveyorStatus(f.status) /\ f \in Sent("conveyor")
  BY <1>2 DEF Frame, CommandFrames, StatusFrames, ControllerHeartbeat, Command, RobotStatus,
     ConveyorStatus, VisionStatus, Commands, RobotCommands, ConveyorCommands, VisionCommands
<1>4. ASSUME NEW d \in Devices, f \in Sent(d), DeviceAlive(d)
      PROVE  \E fs : /\ Speaks("controller", fs) /\ Counted(f) /\ Decided(f, fs)
                     /\ UNCHANGED bootstrapped
  <2>1. UNCHANGED <<phase, bootstrapped, fault_latched, progress, tx>>
        /\ device_misses' = [device_misses EXCEPT ![d] = 0]
    BY <1>4 DEF DeviceAlive, progress
  <2>2. \A e \in Devices : f = Alive(e) => e = d
    <3>1. \A e \in Devices : Alive(e) \in Sent(e)
      BY DEF Alive, Sent, Devices, ConveyorMessages, VisionMessages, RobotMessages
    <3>. QED
      BY <1>4, <3>1, SentApart DEF Participants
  <2>3. Counted(f)
    BY <1>4, <2>1, <2>2 DEF Counted, Watching
  <2>. QED
    BY <1>1, <2>1, <2>3, SpeaksNothing DEF Decided
(* None of the devices is heard.                                           *)
<1>5. ASSUME UNCHANGED device_misses, \A d \in Devices : f # Alive(d)
      PROVE  Counted(f)
  BY <1>5 DEF Counted, Watching
<1>6. CASE Ignore /\ \A d \in Devices : f # Alive(d)
  <2>1. UNCHANGED <<phase, bootstrapped, fault_latched, progress, tx, device_misses>>
    BY <1>6 DEF Ignore, controllerVars, progress
  <2>. QED
    BY <1>1, <1>5, <1>6, <2>1, SpeaksNothing DEF Decided
<1>7. CASE DeviceFault /\ f \in Faults /\ \A d \in Devices : f # Alive(d)
  <2>1. /\ EnterFault(<<>>) /\ UNCHANGED <<bootstrapped, progress, device_misses>>
    BY <1>7 DEF DeviceFault, progress
  <2>. DEFINE fs == IF fault_latched THEN <<>> ELSE ShutdownFrames
  <2>2. <<>> \o ShutdownFrames = ShutdownFrames
    BY ShutdownForAll, ConcatEmptySeq
  <2>3. Send("controller", fs) /\ phase' = "Faulted" /\ fault_latched' = TRUE
    BY <2>1, <2>2 DEF EnterFault, ControllerSend
  <2>4. fs \in Seq(Sent("controller"))
    BY ShutdownForAll
  <2>5. Speaks("controller", fs)
    BY <2>3, <2>4 DEF Speaks, Send
  <2>6. Decided(f, fs)
    BY <1>7, <2>1, <2>3 DEF Decided
  <2>. HIDE DEF fs
  <2>. QED
    BY <1>5, <1>7, <2>1, <2>5, <2>6
<1>8. CASE /\ \A d \in Devices : f # Alive(d)
           /\ \E c \in {"robot.Pick", "robot.Place", "robot.RemoveReject"}, p \in Phases :
                Moves(f, phase, Command(c), p) /\ Instruct(c, p)
  <2>1. PICK c \in {"robot.Pick", "robot.Place", "robot.RemoveReject"}, p \in Phases :
          Moves(f, phase, Command(c), p) /\ Instruct(c, p)
    BY <1>8
  <2>2. /\ ControllerSend(<<Command(c)>>) /\ phase' = p
        /\ UNCHANGED <<bootstrapped, fault_latched, progress, device_misses>>
    BY <2>1 DEF Instruct, progress
  <2>3. Speaks("controller", <<Command(c)>>)
    BY <2>2, SpeaksCommand DEF Commands, RobotCommands
  <2>4. Decided(f, <<Command(c)>>)
    BY <2>1, <2>2 DEF Decided
  <2>. QED
    BY <1>5, <1>8, <2>2, <2>3, <2>4
<1>9. CASE Done(f) /\ CompleteCycle /\ \A d \in Devices : f # Alive(d)
  <2>1. UNCHANGED <<bootstrapped, fault_latched, device_misses>>
    BY <1>9 DEF CompleteCycle
  <2>2. CASE processed + 1 >= TargetCycles
    <3>1. ControllerSend(<<Command("conveyor.Stop")>>) /\ phase' = "Finished"
      BY <1>9, <2>2 DEF CompleteCycle, FinishRun
    <3>2. Speaks("controller", <<Command("conveyor.Stop")>>)
      BY <3>1, SpeaksCommand DEF Commands, ConveyorCommands
    <3>3. Decided(f, <<Command("conveyor.Stop")>>)
      BY <1>9, <2>1, <2>2, <3>1 DEF Decided
    <3>. QED
      BY <1>5, <1>9, <2>1, <3>2, <3>3
  <2>3. CASE ~(processed + 1 >= TargetCycles)
    <3>1. ControllerSend(Append(<<>>, Request)) /\ phase' = "WaitingInspection"
      BY <1>9, <2>3 DEF CompleteCycle, RequestNextPart, Request
    <3>2. Append(<<>>, Request) = <<Request>>
      OBVIOUS
    <3>3. Speaks("controller", <<Request>>)
      BY <3>1, <3>2, SpeaksCommand DEF Commands, ConveyorCommands, Request
    <3>4. Decided(f, <<Request>>)
      BY <1>9, <2>1, <2>3, <3>1 DEF Decided
    <3>. QED
      BY <1>5, <1>9, <2>1, <3>3, <3>4
  <2>. QED
    BY <2>2, <2>3
<1>10. ASSUME f.id = "VisionStatus", HandleVisionStatus(f.status)
       PROVE  \/ f \in Sent("vision") /\ DeviceAlive("vision")
              \/ f # VisionStatus("VisionHeartbeat") /\ Ignore
              \/ f # VisionStatus("VisionHeartbeat") /\ DeviceFault /\ f \in Faults
              \/ /\ f # VisionStatus("VisionHeartbeat")
                 /\ \E c \in {"robot.Pick", "robot.Place", "robot.RemoveReject"}, p \in Phases :
                      Moves(f, phase, Command(c), p) /\ Instruct(c, p)
  <2>1. f = VisionStatus(f.status) /\ f \in Sent("vision")
    BY <1>3, <1>10
  <2>2. f = VisionStatus("VisionHeartbeat") <=> f.status = "VisionHeartbeat"
    BY <2>1 DEF VisionStatus
  <2>. QED
    BY <1>10, <2>1, <2>2 DEF HandleVisionStatus, Faults,
       Refusals, Moves, Accepting, Rejecting, Phases
<1>11. ASSUME f.id = "RoboticArmStatus", HandleRobotStatus(f.status)
       PROVE  \/ f \in Sent("robot") /\ DeviceAlive("robot")
              \/ f # RobotStatus("RobotHeartbeat") /\ Ignore
              \/ f # RobotStatus("RobotHeartbeat") /\ DeviceFault /\ f \in Faults
              \/ f # RobotStatus("RobotHeartbeat") /\ Done(f) /\ CompleteCycle
              \/ /\ f # RobotStatus("RobotHeartbeat")
                 /\ \E c \in {"robot.Pick", "robot.Place", "robot.RemoveReject"}, p \in Phases :
                      Moves(f, phase, Command(c), p) /\ Instruct(c, p)
  <2>1. f = RobotStatus(f.status) /\ f \in Sent("robot")
    BY <1>3, <1>11
  <2>2. f = RobotStatus("RobotHeartbeat") <=> f.status = "RobotHeartbeat"
    BY <2>1 DEF RobotStatus
  <2>. QED
    BY <1>11, <2>1, <2>2 DEF HandleRobotStatus, Faults, RobotFailures,
       Moves, Phases, Done, CompleteCycle
<1>12. ASSUME f.id = "ConveyorStatus", HandleConveyorStatus(f.status)
       PROVE  \/ f \in Sent("conveyor") /\ DeviceAlive("conveyor")
              \/ f # ConveyorStatus("ConveyorHeartbeat") /\ DeviceFault /\ f \in Faults
  <2>1. f = ConveyorStatus(f.status) /\ f \in Sent("conveyor")
    BY <1>3, <1>12
  <2>2. f = ConveyorStatus("ConveyorHeartbeat") <=> f.status = "ConveyorHeartbeat"
    BY <2>1 DEF ConveyorStatus
  <2>. QED
    BY <1>12, <2>1, <2>2 DEF HandleConveyorStatus, Faults, Refusals
<1>13. /\ \A d \in Devices : f = Alive(d) =>
            \/ f = ConveyorStatus("ConveyorHeartbeat") \/ f = VisionStatus("VisionHeartbeat")
            \/ f = RobotStatus("RobotHeartbeat")
       /\ f = ConveyorStatus("ConveyorHeartbeat") => f.id = "ConveyorStatus"
       /\ f = VisionStatus("VisionHeartbeat") => f.id = "VisionStatus"
       /\ f = RobotStatus("RobotHeartbeat") => f.id = "RoboticArmStatus"
  BY DEF Alive, Devices, ConveyorStatus, VisionStatus, RobotStatus
<1>14. {"vision", "robot", "conveyor"} \subseteq Devices
  BY DEF Devices
<1>15. CASE f.id = "VisionStatus" /\ HandleVisionStatus(f.status)
  <2>1. f # VisionStatus("VisionHeartbeat") => \A d \in Devices : f # Alive(d)
    BY <1>13, <1>15
  <2>. QED
    BY <1>4, <1>6, <1>7, <1>8, <1>10, <1>14, <1>15, <2>1
<1>16. CASE f.id = "RoboticArmStatus" /\ HandleRobotStatus(f.status)
  <2>1. f # RobotStatus("RobotHeartbeat") => \A d \in Devices : f # Alive(d)
    BY <1>13, <1>16
  <2>. QED
    BY <1>4, <1>6, <1>7, <1>8, <1>9, <1>11, <1>14, <1>16, <2>1
<1>17. CASE f.id = "ConveyorStatus" /\ HandleConveyorStatus(f.status)
  <2>1. f # ConveyorStatus("ConveyorHeartbeat") => \A d \in Devices : f # Alive(d)
    BY <1>13, <1>17
  <2>. QED
    BY <1>4, <1>7, <1>12, <1>14, <1>17, <2>1
<1>18. CASE f.id \notin {"VisionStatus", "RoboticArmStatus", "ConveyorStatus"} /\ Ignore
  BY <1>6, <1>13, <1>18
<1>. QED
  BY <1>15, <1>16, <1>17, <1>18 DEF ControllerReceive

-----------------------------------------------------------------------------
(* What a tick sends.                                                      *)
Own(p) == CASE p = "controller" -> 6 [] p \in {"conveyor", "vision"} -> 1 [] OTHER -> 7

Greeting == <<ControllerHeartbeat, Command("robot.Home"), Command("conveyor.Start")>>
Bootstrap == Append(Greeting, Request)

Ticked(fs) ==
  \/ /\ Stopped /\ fs = <<>>
     /\ UNCHANGED <<phase, bootstrapped, fault_latched, progress, device_misses>>
  \/ /\ ~Stopped /\ UNCHANGED progress
     /\ device_misses' = [d \in Devices |-> device_misses[d] + 1]
     /\ \/ /\ HeartbeatLost
           /\ phase' = "Faulted" /\ fault_latched' = TRUE /\ UNCHANGED bootstrapped
           /\ fs = IF fault_latched THEN <<ControllerHeartbeat>>
                   ELSE <<ControllerHeartbeat>> \o ShutdownFrames
        \/ /\ ~HeartbeatLost /\ bootstrapped /\ fs = <<ControllerHeartbeat>>
           /\ UNCHANGED <<phase, bootstrapped, fault_latched>>
        \/ /\ ~HeartbeatLost /\ ~bootstrapped /\ fs = Bootstrap
           /\ phase' = "WaitingInspection" /\ bootstrapped' = TRUE /\ UNCHANGED fault_latched

Clocked(d, fs) ==
  /\ UNCHANGED <<drawn, heartbeat_seen>>
  /\ \/ shutdown_latched[d] /\ fs = <<>> /\ UNCHANGED <<heartbeat_misses, shutdown_latched>>
     \/ /\ ~shutdown_latched[d]
        /\ heartbeat_misses' =
             [heartbeat_misses EXCEPT ![d] = IF heartbeat_seen[d] THEN @ + 1 ELSE @]
        /\ \/ /\ WatchdogExpires(d)
              /\ shutdown_latched' = [shutdown_latched EXCEPT ![d] = TRUE]
           \/ ~WatchdogExpires(d) /\ Has(fs, Alive(d)) /\ UNCHANGED shutdown_latched

(* What the controller sends in its tick is its own, and little.           *)
LEMMA TickTexts ==
  /\ <<ControllerHeartbeat>> \in Seq(Sent("controller")) /\ Len(<<ControllerHeartbeat>>) = 1
  /\ \A f : Has(<<ControllerHeartbeat>>, f) <=> f = ControllerHeartbeat
  /\ Bootstrap \in Seq(Sent("controller")) /\ Len(Bootstrap) = 4
  /\ Has(Bootstrap, ControllerHeartbeat) /\ Has(Bootstrap, Request)
  /\ \A d \in Devices : ~Has(Bootstrap, Shutdown(d)) /\ ControllerHeartbeat # Shutdown(d)
<1>1. {ControllerHeartbeat, Command("robot.Home"), Command("conveyor.Start"), Request}
        \subseteq Sent("controller")
  BY DEF Sent, CommandFrames, Commands, RobotCommands, ConveyorCommands, Request
<1>2. Greeting \in Seq(Sent("controller")) /\ Len(Greeting) = 3
  BY <1>1 DEF Greeting
<1>3. Bootstrap \in Seq(Sent("controller")) /\ Len(Bootstrap) = 4
      /\ \A f : Has(Bootstrap, f) <=>
            f \in {ControllerHeartbeat, Command("robot.Home"), Command("conveyor.Start"), Request}
  <2>1. \A f : Has(Greeting, f) <=>
          f \in {ControllerHeartbeat, Command("robot.Home"), Command("conveyor.Start")}
    BY DEF Greeting, Has
  <2>. HIDE DEF Greeting
  <2>. Greeting \in Seq(Sent("controller")) /\ Request \in Sent("controller")
    BY <1>1, <1>2
  <2>2. /\ Append(Greeting, Request) \in Seq(Sent("controller"))
        /\ Len(Append(Greeting, Request)) = Len(Greeting) + 1
    BY AppendProperties, Zenon
  <2>3. \A f : Has(Append(Greeting, Request), f) <=> Has(Greeting, f) \/ Request = f
    BY HasAppend, Zenon
  <2>. QED
    BY <1>2, <2>1, <2>2, <2>3 DEF Bootstrap
<1>4. \A d \in Devices : Shutdown(d) \notin
        {ControllerHeartbeat, Command("robot.Home"), Command("conveyor.Start"), Request}
  BY DEF Shutdown, Command, ControllerHeartbeat, Request, Devices
<1>5. <<ControllerHeartbeat>> \in Seq(Sent("controller")) /\ Len(<<ControllerHeartbeat>>) = 1
  BY <1>1
<1>6. \A f : Has(<<ControllerHeartbeat>>, f) <=> f = ControllerHeartbeat
  BY DEF Has
<1>. QED
  BY <1>3, <1>4, <1>5, <1>6

(* The controller's tick.                                                  *)
LEMMA ControllerBeats ==
  ASSUME TypeOK, ControllerTick
  PROVE  \E fs : Speaks("controller", fs) /\ Len(fs) <= 6 /\ Ticked(fs)
<1>0. "controller" \in Participants
  BY DEF Participants
<1>1. CASE Stopped /\ Ignore
  <2>1. UNCHANGED tx /\ Ticked(<<>>)
    BY <1>1 DEF Ignore, controllerVars, Ticked, progress
  <2>. QED
    BY <1>0, <2>1, SpeaksNothing
<1>2. CASE RunningTick
  <2>1. /\ ~Stopped /\ UNCHANGED progress
        /\ device_misses' = [d \in Devices |-> device_misses[d] + 1]
    BY <1>2 DEF RunningTick, progress
  <2>2. CASE HeartbeatLost /\ EnterFault(<<ControllerHeartbeat>>) /\ UNCHANGED bootstrapped
    <3>. DEFINE fs == IF fault_latched THEN <<ControllerHeartbeat>>
                      ELSE <<ControllerHeartbeat>> \o ShutdownFrames
    <3>1. Send("controller", fs) /\ phase' = "Faulted" /\ fault_latched' = TRUE
      BY <2>2 DEF EnterFault, ControllerSend
    <3>2. fs \in Seq(Sent("controller")) /\ Len(fs) <= 6
      BY TickTexts, ShutdownForAll
    <3>3. Ticked(fs)
      BY <2>1, <2>2, <3>1 DEF Ticked
    <3>. HIDE DEF fs
    <3>. QED
      BY <3>1, <3>2, <3>3 DEF Speaks, Send
  <2>3. CASE /\ ~HeartbeatLost /\ bootstrapped /\ ControllerSend(<<ControllerHeartbeat>>)
             /\ UNCHANGED <<phase, bootstrapped, fault_latched>>
    <3>1. Speaks("controller", <<ControllerHeartbeat>>)
      BY <2>3, TickTexts DEF Speaks, Send, ControllerSend
    <3>2. Ticked(<<ControllerHeartbeat>>)
      BY <2>1, <2>3 DEF Ticked
    <3>3. Len(<<ControllerHeartbeat>>) <= 6
      BY TickTexts
    <3>. QED
      BY <3>1, <3>2, <3>3
  <2>4. CASE /\ ~HeartbeatLost /\ ~bootstrapped /\ bootstrapped' = TRUE
             /\ RequestNextPart(<<ControllerHeartbeat, Command("robot.Home"),
                                  Command("conveyor.Start")>>)
             /\ UNCHANGED fault_latched
    <3>2. Send("controller", Bootstrap) /\ phase' = "WaitingInspection"
      BY <2>4 DEF RequestNextPart, ControllerSend, Request, Bootstrap, Greeting
    <3>3. Ticked(Bootstrap)
      BY <2>1, <2>4, <3>2 DEF Ticked
    <3>4. Speaks("controller", Bootstrap) /\ Len(Bootstrap) <= 6
      BY <3>2, TickTexts DEF Speaks, Send
    <3>. QED
      BY <3>3, <3>4
  <2>. QED
    BY <1>2, <2>2, <2>3, <2>4 DEF RunningTick
<1>. QED
  BY <1>1, <1>2 DEF ControllerTick

(* The tick of a device.                                                   *)
LEMMA ClockTick ==
  ASSUME TypeOK, Watching, NEW d \in Devices, NEW alive \in Seq(Sent(d)),
         NEW farewell \in Seq(Sent(d)), Has(alive, Alive(d)), Len(alive) <= Own(d),
         Len(farewell) <= Own(d), WatchdogTick(d, alive, farewell), UNCHANGED drawn
  PROVE  \E fs : Speaks(d, fs) /\ Len(fs) <= Own(d) /\ Clocked(d, fs)
<1>0. d \in Participants /\ Own(d) \in Nat
  BY DEF Participants, Own
<1>1. CASE shutdown_latched[d] /\ UNCHANGED <<watchdogVars, tx>>
  <2>1. Clocked(d, <<>>)
    BY <1>1 DEF Clocked, watchdogVars
  <2>2. Speaks(d, <<>>) /\ Len(<<>>) <= Own(d)
    BY <1>0, <1>1, SpeaksNothing
  <2>. QED
    BY <2>1, <2>2
<1>2. CASE /\ ~shutdown_latched[d] /\ UNCHANGED heartbeat_seen
           /\ heartbeat_misses' =
                [heartbeat_misses EXCEPT ![d] = IF heartbeat_seen[d] THEN @ + 1 ELSE @]
           /\ WatchdogExpires(d) /\ Latch(d) /\ Send(d, farewell)
  <2>1. Clocked(d, farewell)
    BY <1>2 DEF Clocked, Latch
  <2>2. Speaks(d, farewell)
    BY <1>2 DEF Speaks, Send
  <2>. QED
    BY <2>1, <2>2
<1>3. CASE /\ ~shutdown_latched[d] /\ UNCHANGED heartbeat_seen
           /\ heartbeat_misses' =
                [heartbeat_misses EXCEPT ![d] = IF heartbeat_seen[d] THEN @ + 1 ELSE @]
           /\ ~WatchdogExpires(d) /\ Send(d, alive) /\ UNCHANGED shutdown_latched
  <2>1. Clocked(d, alive)
    BY <1>3 DEF Clocked
  <2>2. Speaks(d, alive)
    BY <1>3 DEF Speaks, Send
  <2>. QED
    BY <2>1, <2>2
<1>. QED
  BY <1>1, <1>2, <1>3 DEF WatchdogTick

(* ... for each of them.                                                   *)
LEMMA DeviceBeats ==
  ASSUME TypeOK, Watching, NEW d \in Devices,
         \/ d = "conveyor" /\ ConveyorTick
         \/ d = "vision" /\ VisionTick
         \/ d = "robot" /\ RobotTick
  PROVE  \E fs : Speaks(d, fs) /\ Len(fs) <= Own(d) /\ Clocked(d, fs)
<1>1. /\ \A m \in ConveyorMessages : ConveyorStatus(m) \in Sent("conveyor")
      /\ \A m \in VisionMessages : VisionStatus(m) \in Sent("vision")
      /\ \A d2 \in Devices : d2 \in Participants
  BY DEF Sent, Participants
<1>2. /\ Own("conveyor") = 1 /\ Own("vision") = 1 /\ Own("robot") = 7
      /\ Alive("conveyor") = ConveyorStatus("ConveyorHeartbeat")
      /\ Alive("vision") = VisionStatus("VisionHeartbeat")
      /\ Alive("robot") = RobotStatus("RobotHeartbeat")
      /\ {"ConveyorHeartbeat", "ConveyorStopped"} \subseteq ConveyorMessages
      /\ "VisionHeartbeat" \in VisionMessages /\ "RobotHeartbeat" \in RobotMessages
  BY DEF Own, Alive, ConveyorMessages, VisionMessages, RobotMessages
<1>3. CASE d = "conveyor" /\ ConveyorTick
  <2>1. /\ ConveyorStatus("ConveyorHeartbeat") \in Sent(d)
        /\ ConveyorStatus("ConveyorStopped") \in Sent(d)
    BY <1>1, <1>2, <1>3
  <2>. DEFINE al == <<ConveyorStatus("ConveyorHeartbeat")>>
              fw == <<ConveyorStatus("ConveyorStopped")>>
  <2>2. /\ al \in Seq(Sent(d)) /\ fw \in Seq(Sent(d)) /\ Len(al) = 1 /\ Len(fw) = 1
        /\ Has(al, Alive(d))
    BY <1>2, <1>3, <2>1 DEF Has
  <2>3. WatchdogTick(d, al, fw) /\ UNCHANGED drawn
    BY <1>3 DEF ConveyorTick
  <2>. HIDE DEF al, fw
  <2>4. Len(al) <= Own(d) /\ Len(fw) <= Own(d)
    BY <1>2, <1>3, <2>2
  <2>. QED
    BY <2>2, <2>3, <2>4, ClockTick
<1>4. CASE d = "vision" /\ VisionTick
  <2>1. VisionStatus("VisionHeartbeat") \in Sent(d)
    BY <1>1, <1>2, <1>4
  <2>. DEFINE al == <<VisionStatus("VisionHeartbeat")>>
              fw == <<>>
  <2>2. /\ al \in Seq(Sent(d)) /\ fw \in Seq(Sent(d)) /\ Len(al) = 1 /\ Len(fw) = 0
        /\ Has(al, Alive(d))
    BY <1>2, <1>4, <2>1 DEF Has
  <2>3. WatchdogTick(d, al, fw) /\ UNCHANGED drawn
    BY <1>4 DEF VisionTick
  <2>. HIDE DEF al, fw
  <2>4. Len(al) <= Own(d) /\ Len(fw) <= Own(d)
    BY <1>2, <1>4, <2>2
  <2>. QED
    BY <2>2, <2>3, <2>4, ClockTick
<1>5. CASE d = "robot" /\ RobotTick
  <2>. DEFINE ms == <<"RobotHeartbeat">>
              al == RobotReport(ms)
              fw == RobotReport(ParkMessages)
  <2>1. ms \in Seq(RobotMessages) /\ Len(ms) = 1 /\ Has(ms, "RobotHeartbeat")
    BY <1>2 DEF Has
  <2>2. WatchdogTick(d, al, fw) /\ UNCHANGED drawn
    BY <1>5 DEF RobotTick
  <2>3. ParkMessages \in Seq(RobotMessages) /\ Len(ParkMessages) = 7
    BY RobotLengths
  <2>. HIDE DEF ms
  <2>4. /\ al \in Seq(Sent("robot")) /\ Len(al) = 1
        /\ Has(al, RobotStatus("RobotHeartbeat"))
    BY <2>1, SpeaksReport
  <2>5. fw \in Seq(Sent("robot")) /\ Len(fw) = 7
    BY <2>3, SpeaksReport
  <2>. HIDE DEF al, fw
  <2>6. /\ al \in Seq(Sent(d)) /\ fw \in Seq(Sent(d)) /\ Has(al, Alive(d))
        /\ Len(al) <= Own(d) /\ Len(fw) <= Own(d)
    BY <1>2, <1>5, <2>4, <2>5
  <2>. QED
    BY <2>2, <2>6, ClockTick
<1>. QED
  BY <1>3, <1>4, <1>5

-----------------------------------------------------------------------------
(* The steps of a runtime, and what they leave as it is.                   *)
Basis == Inv /\ Staged /\ Origins /\ Watching /\ (fault_latched <=> phase = "Faulted")

(* Who receives takes the oldest frame.                                    *)
LEMMA Taken ==
  ASSUME TypeOK, NEW p \in Participants, Receive(p)
  PROVE  /\ rx[p] # <<>> /\ Head(rx[p]) \in Frame /\ Registered(p)
         /\ rx' = [rx EXCEPT ![p] = Tail(@)] /\ rx'[p] = Tail(rx[p])
         /\ \A s \in Participants : s # p => rx'[s] = rx[s]
         /\ \A f : Has(rx[p], f) <=> f = Head(rx[p]) \/ Has(rx'[p], f)
         /\ \A s \in Participants : \A f : Has(rx'[s], f) => Has(rx[s], f)
         /\ stage = "process" /\ UNCHANGED <<devices, bus, stage, step, passes>>
<1>1. /\ rx[p] # <<>> /\ rx' = [rx EXCEPT ![p] = Tail(@)] /\ Registered(p)
      /\ stage = "process" /\ UNCHANGED <<devices, bus, stage, step, passes>>
  BY DEF Receive, TakeFrame, Turn, Registered
<1>2. rx[p] \in Seq(Frame) /\ DOMAIN rx = Participants
  BY Buffers
<1>3. Head(rx[p]) \in Frame /\ Tail(rx[p]) \in Seq(Frame)
  BY <1>1, <1>2, HeadTailProperties
<1>4. \A f : Has(rx[p], f) <=> f = Head(rx[p]) \/ Has(Tail(rx[p]), f)
  BY <1>1, <1>2, HasTail
<1>5. rx'[p] = Tail(rx[p]) /\ \A s \in Participants : s # p => rx'[s] = rx[s]
  BY <1>1, <1>2
<1>. QED
  BY <1>1, <1>3, <1>4, <1>5

(* A device receives.                                                      *)
LEMMA DeviceReceives ==
  ASSUME TypeOK, Watching, NEW d \in Devices, Receive(d)
  PROVE  /\ UNCHANGED controllerVars
         /\ \E fs : /\ Speaks(d, fs) /\ Len(fs) <= Replies(d, Head(rx[d]))
                    /\ Heard(d, Head(rx[d])) /\ Answered(d, Head(rx[d]), fs)
<1>1. d \in Participants /\ d # "controller"
  BY DEF Participants, Devices
<1>2. Head(rx[d]) \in Frame
  BY <1>1, Taken
<1>3. CASE d = "conveyor" /\ ConveyorReceive(Head(rx[d])) /\ UNCHANGED controllerVars
  BY <1>2, <1>3, ConveyorHears
<1>4. CASE d = "vision" /\ VisionReceive(Head(rx[d])) /\ UNCHANGED controllerVars
  BY <1>2, <1>4, VisionHears
<1>5. CASE d = "robot" /\ RobotReceive(Head(rx[d])) /\ UNCHANGED controllerVars
  BY <1>2, <1>5, RobotHears
<1>. QED
  BY <1>1, <1>3, <1>4, <1>5 DEF Receive

(* The controller does.                                                    *)
LEMMA ControllerReceives ==
  ASSUME TypeOK, Watching, Receive("controller")
  PROVE  /\ UNCHANGED <<watchdogVars, drawn>>
         /\ \E fs : /\ Speaks("controller", fs) /\ Counted(Head(rx["controller"]))
                    /\ Decided(Head(rx["controller"]), fs) /\ UNCHANGED bootstrapped
<1>1. "controller" \in Participants
  BY DEF Participants
<1>2. Head(rx["controller"]) \in Frame
  BY <1>1, Taken
<1>3. ControllerReceive(Head(rx["controller"])) /\ UNCHANGED <<watchdogVars, visionVars, drawn>>
  BY DEF Receive
<1>4. UNCHANGED <<watchdogVars, drawn>>
  BY <1>3
<1>. QED
  BY <1>2, <1>3, <1>4, ControllerHears

(* Speaking puts nothing elsewhere.                                        *)
LEMMA OriginsSpeak ==
  ASSUME TypeOK, Origins, NEW p \in Participants, NEW fs, Speaks(p, fs), UNCHANGED bus,
         \A s \in Participants : \A f : Has(rx'[s], f) => Has(rx[s], f)
  PROVE  Origins'
<1>1. /\ \A s \in Participants : s # p => tx'[s] = tx[s]
      /\ \A f : Has(tx'[p], f) => Has(tx[p], f) \/ Has(fs, f)
      /\ \A f : Has(fs, f) => f \in Sent(p)
  BY SpeaksBuffer, SpeaksSeq DEF Speaks
<1>2. ASSUME NEW s \in Participants, NEW f \in Frame
      PROVE  /\ Has(tx'[s], f) => f \in Sent(s)
             /\ Has(bus', From(s, f)) => f \in Sent(s)
             /\ Has(rx'[s], f) => f \notin Sent(s)
  BY <1>1 DEF Origins
<1>. QED
  BY <1>2 DEF Origins, Has, From, Sent

(* A handler leaves the pass where it is, ...                              *)
LEMMA StagedHandled ==
  ASSUME TypeOK, Staged, NEW p \in Participants, Receive(p) PROVE Staged'
<1>1. /\ stage = "process" /\ UNCHANGED <<devices, bus, stage, step>>
      /\ \A s \in Participants : s # p => rx'[s] = rx[s]
      /\ Registered(p)
  BY Taken
<1>2. \A q : (\E i \in DOMAIN devices' : devices'[i] = q) <=> Registered(q)
  BY <1>1 DEF Registered
<1>3. ASSUME NEW q \in Participants, ~Registered(q) PROVE rx'[q] = <<>>
  <2>1. q # p
    BY <1>1, <1>3
  <2>2. rx[q] = <<>>
    BY <1>3 DEF Staged
  <2>. QED
    BY <1>1, <2>1, <2>2
<1>4. (stage' \in Stages /\ step' \in Steps)
      /\ (stage' = "idle" <=> step' \notin {"firstPass", "secondPass"}) /\ bus' = <<>>
  BY <1>1 DEF Staged
<1>. QED
  BY <1>1, <1>2, <1>3, <1>4 DEF Staged, Registered

(* ... a tick begins one or does not.                                      *)
LEMMA StagedTicked ==
  ASSUME Staged, stage = "idle", stage' \in {"idle", "drain"}, step' \in Steps,
         stage' = "idle" <=> step' \notin {"firstPass", "secondPass"},
         UNCHANGED <<devices, rx, bus>>
  PROVE  Staged'
BY DEF Staged, Registered, Stages

(* In a tick of the controller it says what Ticked says.                   *)
LEMMA ControllerTicks ==
  ASSUME TypeOK, Staged, ControllerStep
  PROVE  /\ Staged' /\ step = "controller" /\ step' = "firstPass"
         /\ stage = "idle" /\ stage' = "drain"
         /\ UNCHANGED <<watchdogVars, drawn, devices, rx, bus, passes>>
         /\ \E fs : Speaks("controller", fs) /\ Len(fs) <= 6 /\ Ticked(fs)
<1>1. /\ ControllerTick /\ step = "controller" /\ step' = "firstPass"
      /\ stage = "idle" /\ stage' = "drain"
      /\ UNCHANGED <<watchdogVars, drawn, devices, rx, bus, passes>>
  BY DEF ControllerStep, BeginPass
<1>2. Staged'
  BY <1>1, StagedTicked DEF Steps
<1>. QED
  BY <1>1, <1>2, ControllerBeats

(* In a tick of a device it says what Clocked says.                        *)
LEMMA DeviceTicks ==
  ASSUME TypeOK, Staged, Watching, DeviceStep
  PROVE  /\ Staged' /\ stage = "idle"
         /\ \/ step = "conveyor" /\ step' = "vision" /\ stage' = "idle"
            \/ step = "vision" /\ step' = "robot" /\ stage' = "idle"
            \/ step = "robot" /\ step' = "secondPass" /\ stage' = "drain"
         /\ UNCHANGED <<controllerVars, devices, rx, bus, passes>>
         /\ \E fs : Speaks(step, fs) /\ Len(fs) <= Own(step) /\ Clocked(step, fs)
<1>1. /\ stage = "idle" /\ step \in Devices
      /\ \/ step = "conveyor" /\ step' = "vision" /\ stage' = "idle" /\ ConveyorTick
         \/ step = "vision" /\ step' = "robot" /\ stage' = "idle" /\ VisionTick
         \/ step = "robot" /\ step' = "secondPass" /\ stage' = "drain" /\ RobotTick
      /\ UNCHANGED <<controllerVars, devices, rx, bus, passes>>
  BY DEF DeviceStep, BeginPass, Staged, Devices
<1>2. Staged'
  BY <1>1, StagedTicked DEF Steps
<1>3. \E fs : Speaks(step, fs) /\ Len(fs) <= Own(step) /\ Clocked(step, fs)
  BY <1>1, DeviceBeats
<1>. QED
  BY <1>1, <1>2, <1>3

(* The end of a pass.                                                      *)
LEMMA PassEnds ==
  ASSUME TypeOK, Staged, Origins, EndPass
  PROVE  /\ Staged' /\ Origins' /\ stage = "process" /\ stage' = "idle"
         /\ \A p \in Participants : rx[p] = <<>>
         /\ \/ step = "firstPass" /\ step' = "conveyor"
            \/ step = "secondPass" /\ step' = "endOfTick"
         /\ UNCHANGED <<controllerVars, watchdogVars, drawn, devices, tx, rx, bus>>
<1>1. /\ stage = "process" /\ stage' = "idle"
      /\ UNCHANGED <<controllerVars, watchdogVars, drawn, devices, tx, rx, bus>>
      /\ \A i \in DOMAIN devices : rx[devices[i]] = <<>>
  BY DEF EndPass, ProcessDone, AllEmpty
<1>2. \A p \in Participants : rx[p] = <<>>
  BY <1>1 DEF Staged, Registered
<1>3. \/ step = "firstPass" /\ step' = "conveyor"
      \/ step = "secondPass" /\ step' = "endOfTick"
  BY <1>1 DEF EndPass, Staged
<1>4. Staged'
  BY <1>1, <1>2, <1>3 DEF Staged, Registered, Stages, Steps
<1>5. Origins'
  BY <1>1 DEF Origins, Has, From, Sent
<1>. QED
  BY <1>1, <1>2, <1>3, <1>4, <1>5

(* All of this stays so, whoever is on the bus: in a tick, ...             *)
LEMMA BasisTicks ==
  ASSUME Basis, ControllerStep \/ DeviceStep PROVE Basis'
<1>1. Inv' /\ TypeOK
  BY TickStepInv DEF TickStep, Basis, Inv
<1>2. CASE ControllerStep
  <2>1. PICK fs : Speaks("controller", fs) /\ Ticked(fs)
    BY <1>1, <1>2, ControllerTicks DEF Basis
  <2>2. Staged' /\ UNCHANGED <<heartbeat_seen, heartbeat_misses, shutdown_latched, rx, bus, passes>>
    BY <1>1, <1>2, ControllerTicks DEF Basis, watchdogVars
  <2>3. Origins'
    <3>1. "controller" \in Participants
      BY DEF Participants
    <3>. QED
      BY <1>1, <2>1, <2>2, <3>1, OriginsSpeak DEF Basis
  <2>4. bootstrapped' \in BOOLEAN /\ fault_latched' \in BOOLEAN
        /\ (fault_latched' <=> phase' = "Faulted")
    <3>1. \/ UNCHANGED <<phase, bootstrapped, fault_latched>>
          \/ phase' = "Faulted" /\ fault_latched' = TRUE /\ UNCHANGED bootstrapped
          \/ /\ phase # "Faulted" /\ phase' = "WaitingInspection"
             /\ bootstrapped' = TRUE /\ UNCHANGED fault_latched
      BY <2>1 DEF Ticked, Stopped
    <3>2. /\ bootstrapped \in BOOLEAN /\ fault_latched \in BOOLEAN
          /\ (fault_latched <=> phase = "Faulted")
      BY DEF Basis, Watching
    <3>3. CASE UNCHANGED <<phase, bootstrapped, fault_latched>>
      BY <3>2, <3>3
    <3>4. CASE phase' = "Faulted" /\ fault_latched' = TRUE /\ UNCHANGED bootstrapped
      BY <3>2, <3>4
    <3>5. CASE /\ phase # "Faulted" /\ phase' = "WaitingInspection"
               /\ bootstrapped' = TRUE /\ UNCHANGED fault_latched
      BY <3>2, <3>5
    <3>. QED
      BY <3>1, <3>3, <3>4, <3>5
  <2>5. device_misses' \in [Devices -> Nat]
    BY <2>1 DEF Basis, Watching, Ticked
  <2>. QED
    BY <1>1, <2>2, <2>3, <2>4, <2>5 DEF Basis, Watching
<1>3. CASE DeviceStep
  <2>1. PICK fs : Speaks(step, fs) /\ Clocked(step, fs)
    BY <1>1, <1>3, DeviceTicks DEF Basis
  <2>2. /\ Staged' /\ step \in Devices
        /\ UNCHANGED <<phase, fault_latched, bootstrapped, device_misses, rx, bus, passes>>
    BY <1>1, <1>3, DeviceTicks DEF Basis, controllerVars, Devices
  <2>3. Origins'
    <3>1. step \in Participants
      BY <2>2 DEF Participants
    <3>. QED
      BY <1>1, <2>1, <2>2, <3>1, OriginsSpeak DEF Basis
  <2>4. heartbeat_misses' \in [Devices -> Nat]
    BY <2>1, <2>2 DEF Basis, Watching, Clocked
  <2>5. shutdown_latched' \in [Devices -> BOOLEAN] /\ heartbeat_seen' \in [Devices -> BOOLEAN]
    BY <2>1, <2>2 DEF Basis, Watching, Clocked
  <2>. QED
    BY <1>1, <2>2, <2>3, <2>4, <2>5 DEF Basis, Watching
<1>. QED
  BY <1>2, <1>3

(* ... when a frame is received, ...                                       *)
LEMMA BasisReceive ==
  ASSUME Basis, NEW p \in Participants, Receive(p) PROVE Basis'
<1>1. Inv' /\ TypeOK /\ Staged'
  BY TickStepInv, StagedHandled DEF TickStep, Basis, Inv
<1>. DEFINE f == Head(rx[p])
<1>2. /\ \A s \in Participants : \A e : Has(rx'[s], e) => Has(rx[s], e)
      /\ UNCHANGED <<bus, passes>> /\ f \in Frame
  BY <1>1, Taken
<1>. HIDE DEF f
<1>3. CASE p = "controller"
  <2>1. /\ UNCHANGED <<watchdogVars, drawn>>
        /\ \E fs : Speaks("controller", fs) /\ Counted(f) /\ Decided(f, fs) /\ UNCHANGED bootstrapped
    BY <1>1, <1>3, ControllerReceives DEF Basis, f
  <2>2. PICK fs : Speaks(p, fs) /\ Counted(f) /\ Decided(f, fs) /\ UNCHANGED bootstrapped
    BY <1>3, <2>1
  <2>3. Origins'
    BY <1>1, <1>2, <2>2, OriginsSpeak DEF Basis
  <2>4. fault_latched' \in BOOLEAN /\ (fault_latched' <=> phase' = "Faulted")
    <3>1. \A g, to : Moves(f, phase, g, to) => phase # "Faulted" /\ to # "Faulted"
      BY DEF Moves
    <3>2. Done(f) => phase # "Faulted"
      BY DEF Done
    <3>3. \/ UNCHANGED <<phase, fault_latched>>
          \/ phase' = "Faulted" /\ fault_latched' = TRUE
          \/ phase # "Faulted" /\ phase' # "Faulted" /\ UNCHANGED fault_latched
      BY <2>2, <3>1, <3>2 DEF Decided
    <3>4. fault_latched \in BOOLEAN /\ (fault_latched <=> phase = "Faulted")
      BY DEF Basis, Watching
    <3>5. CASE UNCHANGED <<phase, fault_latched>>
      BY <3>4, <3>5
    <3>6. CASE phase' = "Faulted" /\ fault_latched' = TRUE
      BY <3>6
    <3>7. CASE phase # "Faulted" /\ phase' # "Faulted" /\ UNCHANGED fault_latched
      BY <3>4, <3>7
    <3>. QED
      BY <3>3, <3>5, <3>6, <3>7
  <2>5. /\ UNCHANGED <<heartbeat_seen, heartbeat_misses, shutdown_latched>>
        /\ device_misses' \in [Devices -> Nat] /\ bootstrapped' \in BOOLEAN
    BY <2>1, <2>2 DEF Basis, Watching, Counted, watchdogVars
  <2>. QED
    BY <1>1, <1>2, <2>3, <2>4, <2>5 DEF Basis, Watching
<1>4. CASE p \in Devices
  <2>1. /\ UNCHANGED controllerVars
        /\ \E fs : Speaks(p, fs) /\ Heard(p, f)
    BY <1>1, <1>4, DeviceReceives DEF Basis, f
  <2>2. PICK fs : Speaks(p, fs) /\ Heard(p, f)
    BY <2>1
  <2>3. Origins'
    BY <1>1, <1>2, <2>2, OriginsSpeak DEF Basis
  <2>4. /\ UNCHANGED <<phase, fault_latched, bootstrapped, device_misses>>
        /\ heartbeat_misses' \in [Devices -> Nat]
    BY <2>1, <2>2 DEF Basis, Watching, Heard, controllerVars
  <2>5. heartbeat_seen' \in [Devices -> BOOLEAN] /\ shutdown_latched' \in [Devices -> BOOLEAN]
    BY <2>2 DEF Basis, Watching, Heard
  <2>. QED
    BY <1>1, <1>2, <2>3, <2>4, <2>5 DEF Basis, Watching
<1>. QED
  BY <1>3, <1>4 DEF Participants

(* ... and on the bus.                                                     *)
LEMMA BasisTransport ==
  ASSUME Basis, Transport \/ EndPass PROVE Basis'
<1>1. Inv' /\ TypeOK /\ NoTwice
  BY TickStepInv DEF TickStep, Basis, Inv
<1>2. Staged' /\ Origins'
  BY <1>1, TransportStaged, PassEnds DEF Basis
<1>3. UNCHANGED <<controllerVars, watchdogVars>> /\ passes' \in Nat
  BY RuntimeAssumption DEF Transport, EndPass, CountPass, Basis, Watching
<1>. QED
  BY <1>1, <1>2, <1>3 DEF Basis, Watching, controllerVars, watchdogVars

(* So it stays in a whole tick.                                            *)
LEMMA BasisTickStep ==
  ASSUME Basis, TickStep PROVE Basis'
BY BasisTicks, BasisReceive, BasisTransport DEF TickStep

(* It is so at first.                                                      *)
LEMMA BasisInit ==
  ASSUME Init PROVE Basis
<1>1. \A p \in Participants : tx[p] = <<>> /\ rx[p] = <<>>
  BY DEF Init
<1>2. bus = <<>> /\ stage = "idle" /\ step = "controller" /\ passes = 0
  BY DEF Init
<1>3. Staged
  BY <1>1, <1>2 DEF Staged, Stages, Steps
<1>4. Origins
  BY <1>1, <1>2, HasNone DEF Origins
<1>5. Watching
  <2>1. bootstrapped \in BOOLEAN /\ fault_latched \in BOOLEAN
    BY DEF Init, ControllerInit
  <2>2. heartbeat_seen \in [Devices -> BOOLEAN] /\ shutdown_latched \in [Devices -> BOOLEAN]
    BY DEF Init, WatchdogInit
  <2>3. /\ device_misses \in [Devices -> Nat] /\ heartbeat_misses \in [Devices -> Nat]
        /\ passes \in Nat
    BY DEF Init, ControllerInit, WatchdogInit
  <2>. QED
    BY <2>1, <2>2, <2>3 DEF Watching
<1>6. fault_latched <=> phase = "Faulted"
  BY DEF Init, ControllerInit
<1>. QED
  BY <1>3, <1>4, <1>5, <1>6, InitInv DEF Basis

-----------------------------------------------------------------------------
(* The books of a pass.  What a pass begins with is at most what each      *)
(* participant answered in the one before and said in its own tick, and    *)
(* what it answers is so much for each frame of the senders it obeys.      *)
AllAboard == devices = RegistrationOrder

Answers(p) == CASE p = "controller" -> 5 [] p = "conveyor" -> 11 [] p = "vision" -> 46 [] OTHER -> 77
Load(p) == Answers(p) + Own(p)
Burst == 154

Each(p) == CASE p = "controller" -> 5 [] p = "conveyor" -> 1 [] p = "vision" -> 2 [] OTHER -> 7
Obeyed(p) ==
  CASE p = "controller" -> For("controller")
    [] p = "vision" -> Sent("controller") \cup Sent("conveyor")
    [] OTHER -> Sent("controller")

(* What p still has to say about the frames it has not received yet.       *)
Owing(p) ==
  IF p = "controller" /\ phase = "Faulted" THEN 0 ELSE Each(p) * HowMany(rx[p], Obeyed(p))

SpokeAlready(p) ==
  \/ p = "conveyor" /\ step \in {"vision", "robot"}
  \/ p = "vision" /\ step = "robot"

OnTheBus(s) == HowMany(bus, Entry(Sent(s)))

Ledger ==
  /\ stage = "idle" => \A s \in Participants :
       Len(tx[s]) <= IF SpokeAlready(s) THEN Load(s) ELSE Answers(s)
  /\ stage = "drain" => \A s \in Participants : Len(tx[s]) + OnTheBus(s) <= Load(s)
  /\ stage = "distribute" => \A s, r \in Participants :
       OnTheBus(s) + HowMany(rx[r], Sent(s)) <= Load(s)
  /\ stage = "process" =>
       /\ \A s, r \in Participants : HowMany(rx[r], Sent(s)) <= Load(s)
       /\ \A p \in Participants : Len(tx[p]) + Owing(p) <= Answers(p)

(* Everything in a sequence is counted.                                    *)
LEMMA CountAll ==
  ASSUME NEW S, NEW q \in Seq(S)
  PROVE  HowMany(q, S) = Len(q)
<1>1. Len(q) \in Nat /\ DOMAIN q = 1 .. Len(q) /\ \A i \in 1 .. Len(q) : q[i] \in S
  BY ElementOfSeq, LenProperties
<1>2. {i \in DOMAIN q : q[i] \in S} = 1 .. Len(q)
  BY <1>1
<1>3. Cardinality(1 .. Len(q)) = Len(q)
  <2>1. \A n \in Nat : Cardinality(1 .. n) = IF 1 > n THEN 0 ELSE n - 1 + 1
    BY FS_Interval
  <2>. QED
    BY <1>1, <2>1
<1>. QED
  BY <1>2, <1>3 DEF HowMany

(* Four kinds make up all.                                                 *)
LEMMA CountFour ==
  ASSUME NEW S, NEW q \in Seq(S), NEW A, NEW B, NEW C, NEW D,
         S = A \cup (B \cup (C \cup D)), A \cap (B \cup (C \cup D)) = {},
         B \cap (C \cup D) = {}, C \cap D = {}
  PROVE  Len(q) = HowMany(q, A) + (HowMany(q, B) + (HowMany(q, C) + HowMany(q, D)))
<1>1. HowMany(q, S) = HowMany(q, A) + HowMany(q, B \cup (C \cup D))
  BY CountSplit
<1>2. HowMany(q, B \cup (C \cup D)) = HowMany(q, B) + HowMany(q, C \cup D)
  BY CountSplit
<1>3. HowMany(q, C \cup D) = HowMany(q, C) + HowMany(q, D)
  BY CountSplit
<1>. QED
  BY <1>1, <1>2, <1>3, CountAll

(* So the senders' shares make up a buffer.                                *)
LEMMA Shares ==
  ASSUME NEW q \in Seq(Frame)
  PROVE  Len(q) = HowMany(q, Sent("controller")) + (HowMany(q, Sent("conveyor"))
                  + (HowMany(q, Sent("vision")) + HowMany(q, Sent("robot"))))
<1>1. Frame = Sent("controller") \cup (Sent("conveyor") \cup (Sent("vision") \cup Sent("robot")))
  BY DEF Frame, Sent, StatusFrames
<1>2. /\ Sent("controller") \cap Sent("conveyor") = {} /\ Sent("controller") \cap Sent("vision") = {}
      /\ Sent("controller") \cap Sent("robot") = {} /\ Sent("conveyor") \cap Sent("vision") = {}
      /\ Sent("conveyor") \cap Sent("robot") = {} /\ Sent("vision") \cap Sent("robot") = {}
  BY SentApart DEF Participants, Devices
<1>. DEFINE A == Sent("controller")
            B == Sent("conveyor")
            C == Sent("vision")
            D == Sent("robot")
<1>3. A \cap (B \cup (C \cup D)) = {} /\ B \cap (C \cup D) = {} /\ C \cap D = {}
  BY <1>2
<1>4. Frame = A \cup (B \cup (C \cup D))
  BY <1>1
<1>. HIDE DEF A, B, C, D
<1>5. Len(q) = HowMany(q, A) + (HowMany(q, B) + (HowMany(q, C) + HowMany(q, D)))
  BY <1>3, <1>4, CountFour
<1>. QED
  BY <1>5 DEF A, B, C, D

(* And the bus, of which each entry is its sender's.                       *)
LEMMA BusShares ==
  ASSUME TypeOK
  PROVE  Len(bus) = OnTheBus("controller") + (OnTheBus("conveyor")
                    + (OnTheBus("vision") + OnTheBus("robot")))
<1>1. Frame = Sent("controller") \cup (Sent("conveyor") \cup (Sent("vision") \cup Sent("robot")))
  BY DEF Frame, Sent, StatusFrames
<1>2. /\ Sent("controller") \cap Sent("conveyor") = {} /\ Sent("controller") \cap Sent("vision") = {}
      /\ Sent("controller") \cap Sent("robot") = {} /\ Sent("conveyor") \cap Sent("vision") = {}
      /\ Sent("conveyor") \cap Sent("robot") = {} /\ Sent("vision") \cap Sent("robot") = {}
  BY SentApart DEF Participants, Devices
<1>. DEFINE A == Entry(Sent("controller"))
            B == Entry(Sent("conveyor"))
            C == Entry(Sent("vision"))
            D == Entry(Sent("robot"))
<1>3. Entry(Frame) = A \cup (B \cup (C \cup D))
  BY <1>1 DEF Entry
<1>4. A \cap (B \cup (C \cup D)) = {} /\ B \cap (C \cup D) = {} /\ C \cap D = {}
  BY <1>2 DEF Entry
<1>5. bus \in Seq(Entry(Frame))
  BY Buffers
<1>6. /\ OnTheBus("controller") = HowMany(bus, A) /\ OnTheBus("conveyor") = HowMany(bus, B)
      /\ OnTheBus("vision") = HowMany(bus, C) /\ OnTheBus("robot") = HowMany(bus, D)
  BY Zenon DEF OnTheBus
<1>. HIDE DEF A, B, C, D
<1>7. Len(bus) = HowMany(bus, A) + (HowMany(bus, B) + (HowMany(bus, C) + HowMany(bus, D)))
  <2>. DEFINE S == Entry(Frame)
              E == C \cup D
              F == B \cup E
  <2>1. bus \in Seq(S) /\ S = A \cup F /\ A \cap F = {} /\ B \cap E = {} /\ C \cap D = {}
    BY <1>3, <1>4, <1>5
  <2>2. HowMany(bus, E) = HowMany(bus, C) + HowMany(bus, D)
    BY <2>1, CountSplit
  <2>. HIDE DEF E
  <2>3. HowMany(bus, F) = HowMany(bus, B) + HowMany(bus, E)
    BY <2>1, CountSplit
  <2>. HIDE DEF F
  <2>4. HowMany(bus, A \cup F) = HowMany(bus, A) + HowMany(bus, F)
    BY <2>1, CountSplit
  <2>. HIDE DEF S
  <2>5. Len(bus) = HowMany(bus, S)
    BY <2>1, CountAll
  <2>. QED
    BY <2>1, <2>2, <2>3, <2>4, <2>5, Zenon
<1>. QED
  BY <1>6, <1>7, Zenon

(* Everyone is on the bus.                                                 *)
LEMMA Aboard ==
  ASSUME AllAboard PROVE \A p \in Participants : Registered(p)
<1>1. /\ DOMAIN devices = 1 .. 4 /\ devices[1] = "controller" /\ devices[2] = "conveyor"
      /\ devices[3] = "vision" /\ devices[4] = "robot"
  BY DEF AllAboard, RegistrationOrder
<1>2. 1 \in 1 .. 4 /\ 2 \in 1 .. 4 /\ 3 \in 1 .. 4 /\ 4 \in 1 .. 4
  OBVIOUS
<1>. QED
  BY <1>1, <1>2 DEF Registered, Participants, Devices

(* What the books say about the whole.                                     *)
LEMMA LedgerSuffices ==
  ASSUME QueueCapacity > Burst, BusCapacity > Burst, TypeOK, AllAboard, Staged, Ledger
  PROVE  NoFrameLost
<1>1. /\ Load("controller") = 11 /\ Load("conveyor") = 12 /\ Load("vision") = 47
      /\ Load("robot") = 84
      /\ \A p \in Participants : /\ Load(p) \in Nat /\ Load(p) <= 84
                                /\ Answers(p) \in Nat /\ Answers(p) <= Load(p)
  BY DEF Load, Answers, Own, Participants, Devices
<1>2. \A p \in Participants : Len(tx[p]) \in Nat /\ Len(rx[p]) \in Nat
  BY Buffers, LenProperties
<1>3. /\ \A p \in Participants : HowMany(rx[p], Obeyed(p)) \in Nat
      /\ \A p, s \in Participants : HowMany(rx[p], Sent(s)) \in Nat
      /\ \A s \in Participants : OnTheBus(s) \in Nat
  BY Buffers, CountFinite DEF OnTheBus
<1>4. \A p \in Participants : Owing(p) \in Nat
  BY <1>3 DEF Owing, Each, Participants, Devices
<1>5. QueueCapacity \in Nat /\ BusCapacity \in Nat /\ Burst = 154
  BY QueueCapacityAssumption, CanBusAssumption DEF Burst
<1>6. ASSUME NEW p \in Participants PROVE Len(tx[p]) <= Load(p)
  <2>1. CASE stage = "idle"
    <3>1. Len(tx[p]) <= IF SpokeAlready(p) THEN Load(p) ELSE Answers(p)
      BY <2>1 DEF Ledger
    <3>. QED
      BY <1>1, <1>2, <3>1
  <2>2. CASE stage = "drain"
    <3>1. Len(tx[p]) + OnTheBus(p) <= Load(p)
      BY <2>2 DEF Ledger
    <3>. QED
      BY <1>1, <1>2, <1>3, <3>1
  <2>3. CASE stage = "process"
    <3>1. Len(tx[p]) + Owing(p) <= Answers(p)
      BY <2>3 DEF Ledger
    <3>. QED
      BY <1>1, <1>2, <1>4, <3>1
  <2>4. CASE stage = "distribute"
    <3>1. Len(tx[p]) = 0
      BY <2>4, Aboard DEF Staged
    <3>. QED
      BY <1>1, <3>1
  <2>. QED
    BY <2>1, <2>2, <2>3, <2>4 DEF Staged, Stages
<1>7. ASSUME NEW p \in Participants PROVE Len(rx[p]) <= Burst
  <2>1. CASE stage \in {"idle", "drain"}
    <3>1. Len(rx[p]) = 0
      BY <2>1 DEF Staged
    <3>. QED
      BY <1>5, <3>1
  <2>2. CASE stage \in {"distribute", "process"}
    <3>1. ASSUME NEW s \in Participants PROVE HowMany(rx[p], Sent(s)) <= Load(s)
      <4>1. \/ OnTheBus(s) + HowMany(rx[p], Sent(s)) <= Load(s)
            \/ HowMany(rx[p], Sent(s)) <= Load(s)
        BY <2>2 DEF Ledger
      <4>. QED
        BY <1>1, <1>3, <4>1
    <3>2. /\ HowMany(rx[p], Sent("controller")) <= 11 /\ HowMany(rx[p], Sent("conveyor")) <= 12
          /\ HowMany(rx[p], Sent("vision")) <= 47 /\ HowMany(rx[p], Sent("robot")) <= 84
          /\ HowMany(rx[p], Sent("controller")) \in Nat /\ HowMany(rx[p], Sent("conveyor")) \in Nat
          /\ HowMany(rx[p], Sent("vision")) \in Nat /\ HowMany(rx[p], Sent("robot")) \in Nat
      BY <1>1, <1>3, <3>1 DEF Participants, Devices
    <3>3. rx[p] \in Seq(Frame)
      BY Buffers
    <3>4. Len(rx[p]) = HowMany(rx[p], Sent("controller")) + (HowMany(rx[p], Sent("conveyor"))
                       + (HowMany(rx[p], Sent("vision")) + HowMany(rx[p], Sent("robot"))))
      BY <3>3, Shares
    <3>. QED
      BY <1>5, <3>2, <3>4
  <2>. QED
    BY <2>1, <2>2 DEF Staged, Stages
<1>8. Len(bus) <= Burst
  <2>1. CASE stage \in {"idle", "process"}
    <3>1. Len(bus) = 0
      BY <2>1 DEF Staged
    <3>. QED
      BY <1>5, <3>1
  <2>2. CASE stage \in {"drain", "distribute"}
    <3>1. ASSUME NEW s \in Participants PROVE OnTheBus(s) <= Load(s)
      <4>1. \/ Len(tx[s]) + OnTheBus(s) <= Load(s)
            \/ OnTheBus(s) + HowMany(rx[s], Sent(s)) <= Load(s)
        BY <2>2 DEF Ledger
      <4>. QED
        BY <1>1, <1>2, <1>3, <4>1
    <3>2. /\ OnTheBus("controller") <= 11 /\ OnTheBus("conveyor") <= 12
          /\ OnTheBus("vision") <= 47 /\ OnTheBus("robot") <= 84
          /\ OnTheBus("controller") \in Nat /\ OnTheBus("conveyor") \in Nat
          /\ OnTheBus("vision") \in Nat /\ OnTheBus("robot") \in Nat
      BY <1>1, <1>3, <3>1 DEF Participants, Devices
    <3>. QED
      BY <1>5, <3>2, BusShares
  <2>. QED
    BY <2>1, <2>2 DEF Staged, Stages
<1>9. Len(bus) \in Nat
  BY Buffers, LenProperties
<1>10. ASSUME NEW p \in Participants
       PROVE  Len(tx[p]) < QueueCapacity /\ Len(rx[p]) < QueueCapacity
  <2>1. /\ Len(tx[p]) <= Load(p) /\ Load(p) <= 84 /\ Load(p) \in Nat
        /\ Len(rx[p]) <= 154 /\ Len(tx[p]) \in Nat /\ Len(rx[p]) \in Nat
    BY <1>1, <1>2, <1>5, <1>6, <1>7
  <2>. QED
    BY <1>5, <2>1
<1>11. Len(bus) < BusCapacity
  BY <1>5, <1>8, <1>9
<1>. QED
  BY <1>10, <1>11 DEF NoFrameLost

(* The amounts.                                                            *)
LEMMA Amounts ==
  /\ Own("controller") = 6 /\ Own("conveyor") = 1 /\ Own("vision") = 1 /\ Own("robot") = 7
  /\ Answers("controller") = 5 /\ Answers("conveyor") = 11
  /\ Answers("vision") = 46 /\ Answers("robot") = 77
  /\ Load("controller") = 11 /\ Load("conveyor") = 12 /\ Load("vision") = 47 /\ Load("robot") = 84
  /\ Each("controller") = 5 /\ Each("conveyor") = 1 /\ Each("vision") = 2 /\ Each("robot") = 7
  /\ \A p \in Participants : /\ Own(p) \in Nat /\ Answers(p) \in Nat /\ Load(p) \in Nat
                            /\ Load(p) = Answers(p) + Own(p) /\ Each(p) \in {1, 2, 5, 7}
BY DEF Load, Answers, Own, Each, Participants, Devices

(* They are numbers, ...                                                   *)
Numbers ==
  \A p \in Participants : /\ Len(tx[p]) \in Nat /\ OnTheBus(p) \in Nat /\ Owing(p) \in Nat
                         /\ \A H : HowMany(rx[p], H) \in Nat

(* Every count is a number.                                                *)
LEMMA CountsAre == TypeOK => Numbers
<1>. SUFFICES ASSUME TypeOK, NEW p \in Participants
     PROVE  /\ Len(tx[p]) \in Nat /\ OnTheBus(p) \in Nat /\ Owing(p) \in Nat
            /\ \A H : HowMany(rx[p], H) \in Nat
  BY DEF Numbers
<1>1. Len(tx[p]) \in Nat
  BY Buffers, LenProperties
<1>2. OnTheBus(p) \in Nat
  BY Buffers, CountFinite DEF OnTheBus
<1>3. \A H : HowMany(rx[p], H) \in Nat
  BY Buffers, CountFinite
<1>4. Owing(p) \in Nat
  <2>1. Each(p) \in Nat /\ HowMany(rx[p], Obeyed(p)) \in Nat
    BY <1>3, Amounts
  <2>2. \A a, b \in Nat : a * b \in Nat
    OBVIOUS
  <2>. QED
    BY <2>1, <2>2 DEF Owing
<1>. QED
  BY <1>1, <1>2, <1>3, <1>4

(* ... also afterwards.                                                    *)
LEMMA CountsStay == (TypeOK => Numbers)'
BY CountsAre, PTL

(* Nothing is on an empty bus.                                             *)
LEMMA EmptyBus ==
  ASSUME NEW H PROVE HowMany(<<>>, H) = 0
<1>1. DOMAIN <<>> = {}
  OBVIOUS
<1>. QED
  BY <1>1, CountNone

(* A tick.                                                                 *)
LEMMA LedgerTicks ==
  ASSUME Basis, Ledger, ControllerStep \/ DeviceStep PROVE Ledger'
<1>1. Basis' /\ TypeOK /\ TypeOK' /\ Numbers /\ Numbers'
  BY BasisTicks, CountsAre, CountsStay DEF Basis, Inv
<1>2. PICK p, fs :
        /\ p \in Participants /\ Speaks(p, fs) /\ Len(fs) <= Own(p) /\ UNCHANGED bus
        /\ p = step /\ stage = "idle"
        /\ \/ step = "controller" /\ stage' = "drain" /\ step' = "firstPass"
           \/ step = "conveyor" /\ stage' = "idle" /\ step' = "vision"
           \/ step = "vision" /\ stage' = "idle" /\ step' = "robot"
           \/ step = "robot" /\ stage' = "drain" /\ step' = "secondPass"
  <2>1. CASE ControllerStep
    <3>1. "controller" \in Participants /\ Own("controller") = 6
      BY Amounts DEF Participants
    <3>. QED
      BY <1>1, <2>1, <3>1, ControllerTicks DEF Basis
  <2>2. CASE DeviceStep
    <3>1. step \in Participants
      BY <1>1, <2>2, DeviceTicks DEF Basis, Participants, Devices
    <3>. QED
      BY <1>1, <2>2, <3>1, DeviceTicks DEF Basis
  <2>. QED
    BY <2>1, <2>2
<1>3. /\ Len(fs) \in Nat /\ Len(tx'[p]) <= Len(tx[p]) + Len(fs)
      /\ \A s \in Participants : s # p => tx'[s] = tx[s]
  BY <1>1, <1>2, SpeaksBuffer, SpeaksSeq DEF Speaks
<1>4. \A s \in Participants : OnTheBus(s)' = 0
  BY <1>1, <1>2, EmptyBus DEF OnTheBus, Basis, Staged
<1>5. ASSUME NEW s \in Participants
      PROVE  /\ Len(tx[s]) <= IF SpokeAlready(s) THEN Load(s) ELSE Answers(s)
             /\ Len(tx[s]) \in Nat /\ Len(tx'[s]) \in Nat
             /\ Load(s) = Answers(s) + Own(s) /\ Load(s) \in Nat /\ Answers(s) \in Nat
             /\ Own(s) \in Nat
  BY <1>1, <1>2, Amounts DEF Ledger, Numbers
<1>6. ASSUME NEW s \in Participants
      PROVE  Len(tx'[s]) <= IF s = p \/ SpokeAlready(s) THEN Load(s) ELSE Answers(s)
  <2>1. CASE s = p
    <3>1. ~SpokeAlready(p)
      BY <1>2 DEF SpokeAlready
    <3>. QED
      BY <1>2, <1>3, <1>5, <2>1, <3>1
  <2>2. CASE s # p
    BY <1>3, <1>5, <2>2
  <2>. QED
    BY <2>1, <2>2
<1>7. ASSUME NEW s \in Participants PROVE Len(tx'[s]) <= Load(s)
  BY <1>5, <1>6
<1>8. CASE stage' = "drain"
  <2>1. \A s \in Participants : Len(tx'[s]) + OnTheBus(s)' <= Load(s)
    BY <1>4, <1>5, <1>7
  <2>. QED
    BY <1>8, <2>1 DEF Ledger, Load, Answers, Own
<1>9. CASE stage' = "idle"
  <2>1. \A s \in Participants : SpokeAlready(s)' <=> s = p \/ SpokeAlready(s)
    BY <1>2, <1>9 DEF SpokeAlready
  <2>2. \A s \in Participants : Len(tx'[s]) <= IF SpokeAlready(s)' THEN Load(s) ELSE Answers(s)
    BY <1>6, <2>1
  <2>. QED
    BY <1>9, <2>2 DEF Ledger, Load, Answers, Own
<1>. QED
  BY <1>2, <1>8, <1>9

(* The end of a pass, and of a tick.                                       *)
LEMMA LedgerEnds ==
  ASSUME Basis, Ledger, EndPass \/ NextTick PROVE Ledger'
<1>1. TypeOK /\ Numbers /\ UNCHANGED tx /\ stage' = "idle" /\ step' \in {"conveyor", "endOfTick", "controller"}
  BY CountsAre DEF Basis, Inv, EndPass, ProcessDone, NextTick, Staged
<1>2. ASSUME NEW s \in Participants PROVE Len(tx[s]) <= Answers(s)
  <2>1. CASE EndPass
    <3>1. Len(tx[s]) + Owing(s) <= Answers(s) /\ Len(tx[s]) \in Nat /\ Owing(s) \in Nat
      BY <1>1, <2>1 DEF Ledger, Numbers, EndPass, ProcessDone
    <3>2. Answers(s) \in Nat
      BY Amounts, Zenon
    <3>. QED
      BY <3>1, <3>2
  <2>2. CASE NextTick
    <3>1. stage = "idle" /\ ~SpokeAlready(s)
      BY <2>2 DEF NextTick, Basis, Staged, SpokeAlready
    <3>. QED
      BY <3>1 DEF Ledger
  <2>. QED
    BY <2>1, <2>2
<1>3. \A s \in Participants : ~SpokeAlready(s)'
  BY <1>1 DEF SpokeAlready
<1>4. \A s \in Participants : Len(tx'[s]) <= IF SpokeAlready(s)' THEN Load(s) ELSE Answers(s)
  BY <1>1, <1>2, <1>3
<1>. QED
  BY <1>1, <1>4 DEF Ledger, Load, Answers, Own

(* A frame is received: what is said of it was owed.                       *)
LEMMA LedgerReceive ==
  ASSUME Basis, Ledger, NEW p \in Participants, Receive(p) PROVE Ledger'
<1>1. Basis' /\ TypeOK /\ TypeOK' /\ Numbers /\ Numbers'
  BY BasisReceive, CountsAre, CountsStay DEF Basis, Inv
<1>. DEFINE f == Head(rx[p])
<1>2. /\ rx[p] # <<>> /\ rx[p] \in Seq(Frame) /\ rx'[p] = Tail(rx[p])
      /\ \A s \in Participants : s # p => rx'[s] = rx[s]
      /\ stage = "process" /\ stage' = "process"
  BY <1>1, Taken, Buffers
<1>3. \A H : HowMany(rx[p], H) = Is(f, H) + HowMany(rx'[p], H)
  BY <1>2, CountTail
<1>. DEFINE share == IF p = "controller" /\ phase = "Faulted" THEN 0
                     ELSE Each(p) * Is(f, Obeyed(p))
<1>4. PICK fs : Speaks(p, fs) /\ Len(fs) <= share
  <2>1. CASE p = "controller"
    <3>1. PICK fs : Speaks("controller", fs) /\ Decided(f, fs)
      BY <1>1, <2>1, ControllerReceives DEF Basis
    <3>2. Faults \subseteq For("controller")
          /\ (\A g, to : Moves(f, phase, g, to) => f \in For("controller") /\ phase # "Faulted")
          /\ (Done(f) => f \in For("controller") /\ phase # "Faulted")
      BY DEF Faults, Refusals, RobotFailures, For, Moves, Done, Accepting, Rejecting
    <3>3. Len(<<>>) = 0 /\ (\A g : Len(<<g>>) = 1) /\ Len(ShutdownFrames) = 5
      BY ShutdownForAll
    <3>4. \/ Len(fs) = 0
          \/ f \in For("controller") /\ phase # "Faulted" /\ Len(fs) <= 5
      <4>1. fault_latched <=> phase = "Faulted"
        BY DEF Basis
      <4>2. \/ fs = <<>>
            \/ f \in For("controller") /\ phase # "Faulted" /\ fs = ShutdownFrames
            \/ f \in For("controller") /\ phase # "Faulted" /\ \E g : fs = <<g>>
        BY <3>1, <3>2, <4>1 DEF Decided
      <4>3. Len(fs) <= 5
        <5>1. CASE fs = <<>>
          BY <3>3, <5>1
        <5>2. CASE fs = ShutdownFrames
          <6>1. Len(fs) = 5
            BY <3>3, <5>2
          <6>. QED
            BY <6>1
        <5>3. CASE \E g : fs = <<g>>
          BY <3>3, <5>3
        <5>. QED
          BY <4>2, <5>1, <5>2, <5>3
      <4>4. fs = <<>> => Len(fs) = 0
        BY <3>3
      <4>5. fs # <<>> => f \in For("controller") /\ phase # "Faulted"
        BY <4>2
      <4>. QED
        BY <4>3, <4>4, <4>5
    <3>5. /\ Each(p) = 5 /\ Obeyed(p) = For("controller")
      BY <2>1, Amounts DEF Obeyed
    <3>6. Len(fs) <= share
      <4>1. CASE f \in For("controller")
        BY <3>4, <3>5, <4>1 DEF Is
      <4>2. CASE f \notin For("controller")
        BY <3>4, <3>5, <4>2 DEF Is
      <4>. QED
        BY <4>1, <4>2
    <3>. HIDE DEF share, f
    <3>. QED
      BY <2>1, <3>1, <3>6
  <2>2. CASE p \in Devices
    <3>1. PICK fs : Speaks(p, fs) /\ Len(fs) <= Replies(p, f)
      BY <1>1, <2>2, DeviceReceives DEF Basis
    <3>2. Replies(p, f) = share
      BY <2>2, Amounts DEF Replies, Is, Obeyed, Devices
    <3>. HIDE DEF share, f
    <3>. QED
      BY <3>1, <3>2
  <2>. QED
    BY <2>1, <2>2 DEF Participants
<1>. HIDE DEF f
<1>5. /\ Len(fs) \in Nat /\ Len(tx'[p]) <= Len(tx[p]) + Len(fs)
      /\ \A s \in Participants : s # p => tx'[s] = tx[s]
  BY <1>1, <1>4, SpeaksBuffer, SpeaksSeq DEF Speaks
<1>6. share + Owing(p)' <= Owing(p)
  <2>. DEFINE n == HowMany(rx'[p], Obeyed(p))
  <2>1. HowMany(rx[p], Obeyed(p)) = Is(f, Obeyed(p)) + n /\ n \in Nat /\ Is(f, Obeyed(p)) \in {0, 1}
    BY <1>1, <1>3 DEF Numbers, Is
  <2>2. Owing(p)' = IF p = "controller" /\ phase' = "Faulted" THEN 0 ELSE Each(p) * n
    BY DEF Owing, Each, Obeyed, For
  <2>3. Owing(p) = IF p = "controller" /\ phase = "Faulted" THEN 0
                   ELSE Each(p) * (Is(f, Obeyed(p)) + n)
    BY <2>1 DEF Owing
  <2>4. Each(p) \in {1, 2, 5, 7}
    BY Amounts
  <2>5. p = "controller" /\ phase = "Faulted" => phase' = "Faulted"
    <3>1. CASE p = "controller"
      <4>1. PICK gs : Decided(f, gs)
        BY <1>1, <3>1, ControllerReceives DEF Basis, f
      <4>. QED
        BY <4>1 DEF Decided, Moves, Done
    <3>. QED
      BY <3>1
  <2>. HIDE DEF n
  <2>6. \A a \in {0, 1}, e \in {1, 2, 5, 7} : e * a + e * n = e * (a + n) /\ e * a \in Nat /\ e * n \in Nat
    BY <2>1
  <2>. QED
    BY <2>1, <2>2, <2>3, <2>4, <2>5, <2>6
<1>7. ASSUME NEW s \in Participants, s # p PROVE Owing(s)' = Owing(s)
  <2>1. s = "controller" => UNCHANGED phase
    BY <1>1, <1>7, DeviceReceives DEF Participants, controllerVars, Basis
  <2>2. rx'[s] = rx[s]
    BY <1>2, <1>7
  <2>. QED
    BY <2>1, <2>2 DEF Owing, Each, Obeyed, For
<1>8. ASSUME NEW s \in Participants PROVE Len(tx'[s]) + Owing(s)' <= Answers(s)
  <2>1. /\ Len(tx[s]) + Owing(s) <= Answers(s) /\ Len(tx[s]) \in Nat /\ Owing(s) \in Nat
        /\ Len(tx'[s]) \in Nat /\ Owing(s)' \in Nat /\ Answers(s) \in Nat
    BY <1>1, <1>2, Amounts DEF Ledger, Numbers
  <2>2. CASE s = p
    <3>1. share \in Nat
      BY <1>3, Amounts DEF Is
    <3>. HIDE DEF share
    <3>. QED
      BY <1>4, <1>5, <1>6, <2>1, <2>2, <3>1
  <2>3. CASE s # p
    BY <1>5, <1>7, <2>1, <2>3
  <2>. QED
    BY <2>2, <2>3
<1>9. ASSUME NEW s \in Participants, NEW r \in Participants
      PROVE  HowMany(rx'[r], Sent(s)) <= Load(s)
  <2>1. HowMany(rx[r], Sent(s)) <= Load(s) /\ HowMany(rx[r], Sent(s)) \in Nat
        /\ HowMany(rx'[r], Sent(s)) \in Nat /\ Load(s) \in Nat
    BY <1>1, <1>2, Amounts DEF Ledger, Numbers
  <2>2. CASE r = p
    BY <1>3, <2>1, <2>2 DEF Is
  <2>3. CASE r # p
    BY <1>2, <2>1, <2>3
  <2>. QED
    BY <2>2, <2>3
<1>. QED
  BY <1>2, <1>8, <1>9 DEF Ledger, Load, Answers, Own, Sent

(* An entry of the bus reaches everybody once at most.                     *)
LEMMA DeliveredCount ==
  ASSUME TypeOK, NoTwice, DistributeFrame, NEW r \in Participants, NEW H
  PROVE  HowMany(rx'[r], H) <= HowMany(rx[r], H) + Is(Head(bus).frame, H)
<1>. DEFINE g == Head(bus).frame
            fs == [i \in 1 .. Copies(r) |-> g]
<1>1. bus \in Seq(Entry(Frame)) /\ bus # <<>> /\ rx[r] \in Seq(Frame)
  BY Buffers DEF DistributeFrame
<1>2. g \in Frame
  <2>1. Head(bus) \in Entry(Frame)
    BY <1>1, HeadTailProperties
  <2>. QED
    BY <2>1 DEF Entry
<1>3. rx'[r] = IF r = Head(bus).source THEN rx[r] ELSE PushAll(rx[r], fs)
  BY Buffers DEF DistributeFrame, Deliver
<1>4. fs \in Seq(Frame) /\ HowMany(fs, H) <= Is(g, H)
  <2>1. CASE Copies(r) = 0
    <3>1. DOMAIN fs = {} /\ fs \in Seq(Frame)
      BY <2>1
    <3>2. HowMany(fs, H) = 0
      BY <3>1, CountNone
    <3>. QED
      BY <3>1, <3>2 DEF Is
  <2>2. CASE Copies(r) = 1
    <3>1. DOMAIN fs = {1} /\ fs[1] = g /\ fs \in Seq(Frame)
      BY <1>2, <2>2
    <3>. HIDE DEF fs
    <3>2. HowMany(fs, H) = Is(fs[1], H)
      BY <3>1, CountOne
    <3>. QED
      BY <3>1, <3>2 DEF Is
  <2>. QED
    BY <2>1, <2>2, CopiesOnce
<1>5. Is(g, H) \in {0, 1}
  BY DEF Is
<1>. HIDE DEF fs, g
<1>6. HowMany(PushAll(rx[r], fs), H) <= HowMany(rx[r], H) + HowMany(fs, H)
  BY <1>1, <1>4, CountPushAll
<1>7. PushAll(rx[r], fs) \in Seq(Frame)
  BY <1>1, <1>4, CountPushAll
<1>8. /\ HowMany(rx[r], H) \in Nat /\ HowMany(fs, H) \in Nat
      /\ HowMany(PushAll(rx[r], fs), H) \in Nat
  BY <1>1, <1>4, <1>7, CountFinite
<1>. QED
  BY <1>3, <1>4, <1>5, <1>6, <1>8 DEF g

(* The bus takes and gives what it has.                                    *)
LEMMA LedgerTransport ==
  ASSUME Basis, AllAboard, Ledger, Transport PROVE Ledger'
<1>1. Basis' /\ TypeOK /\ TypeOK' /\ NoTwice /\ Numbers /\ Numbers' /\ UNCHANGED <<step, phase>>
      /\ Staged /\ Origins
  BY BasisTransport, CountsAre, CountsStay DEF Basis, Inv, Transport, controllerVars
<1>2. bus \in Seq(Entry(Frame))
  BY <1>1, Buffers
<1>3. ASSUME NEW p \in Participants, DrainFrame(p) PROVE Ledger'
  <2>. DEFINE h == Head(tx[p])
  <2>1. /\ stage = "drain" /\ stage' = "drain" /\ tx[p] \in Seq(Frame) /\ tx[p] # <<>>
        /\ tx' = [tx EXCEPT ![p] = Tail(@)]
        /\ bus' = IF Len(bus) < BusCapacity THEN Append(bus, From(p, h)) ELSE bus
    BY <1>1, <1>3, Buffers DEF DrainFrame, Turn, Transmit, Push, From
  <2>2. h \in Frame /\ From(p, h) \in Entry(Frame) /\ Len(Tail(tx[p])) = Len(tx[p]) - 1
        /\ Has(tx[p], h)
    BY <2>1, HeadTailProperties, HasTail DEF Entry, From
  <2>3. h \in Sent(p) /\ \A s \in Participants : s # p => h \notin Sent(s)
    BY <1>1, <2>2, SentApart DEF Origins
  <2>. HIDE DEF h
  <2>4. \A H : HowMany(Append(bus, From(p, h)), H) = HowMany(bus, H) + Is(From(p, h), H)
    BY <1>2, <2>2, CountAppend
  <2>5. ASSUME NEW s \in Participants
        PROVE  OnTheBus(s)' <= OnTheBus(s) + IF s = p THEN 1 ELSE 0
    <3>1. Is(From(p, h), Entry(Sent(s))) = IF s = p THEN 1 ELSE 0
      BY <2>3 DEF Is, Entry, From
    <3>2. HowMany(bus', Entry(Sent(s))) \in {HowMany(bus, Entry(Sent(s))),
            HowMany(bus, Entry(Sent(s))) + Is(From(p, h), Entry(Sent(s)))}
      BY <2>1, <2>4
    <3>3. HowMany(bus, Entry(Sent(s))) \in Nat
      BY <1>1 DEF Numbers, OnTheBus
    <3>4. OnTheBus(s)' = HowMany(bus', Entry(Sent(s)))
      BY DEF OnTheBus, Entry, Sent
    <3>. QED
      BY <3>1, <3>2, <3>3, <3>4 DEF OnTheBus
  <2>6. ASSUME NEW s \in Participants PROVE Len(tx'[s]) + OnTheBus(s)' <= Load(s)
    <3>1. /\ Len(tx[s]) + OnTheBus(s) <= Load(s) /\ Load(s) \in Nat
          /\ Len(tx[s]) \in Nat /\ OnTheBus(s) \in Nat /\ OnTheBus(s)' \in Nat
      BY <1>1, <2>1, Amounts DEF Ledger, Numbers
    <3>2. Len(tx'[s]) = IF s = p THEN Len(tx[s]) - 1 ELSE Len(tx[s])
      BY <1>1, <2>1, <2>2, Buffers
    <3>. QED
      BY <2>5, <3>1, <3>2
  <2>. QED
    BY <2>1, <2>6 DEF Ledger, Load, Answers, Own
<1>4. CASE DrainDone
  <2>1. stage = "drain" /\ stage' = "distribute" /\ UNCHANGED <<tx, rx, bus>>
    BY <1>4 DEF DrainDone
  <2>2. ASSUME NEW s \in Participants, NEW r \in Participants
        PROVE  OnTheBus(s)' + HowMany(rx'[r], Sent(s)) <= Load(s)
    <3>1. /\ Len(tx[s]) + OnTheBus(s) <= Load(s) /\ Load(s) \in Nat
          /\ Len(tx[s]) \in Nat /\ OnTheBus(s) \in Nat
      BY <1>1, <2>1, Amounts DEF Ledger, Numbers
    <3>2. HowMany(rx'[r], Sent(s)) = 0
      BY <1>1, <2>1, EmptyBus DEF Staged
    <3>3. OnTheBus(s)' = OnTheBus(s)
      BY <2>1 DEF OnTheBus, Entry, Sent
    <3>. QED
      BY <3>1, <3>2, <3>3
  <2>. QED
    BY <2>1, <2>2 DEF Ledger, Load, Answers, Own, Sent
<1>5. CASE DistributeFrame
  <2>1. stage = "distribute" /\ stage' = "distribute" /\ bus # <<>> /\ bus' = Tail(bus)
    BY <1>5 DEF DistributeFrame
  <2>2. Head(bus) \in Entry(Frame) /\ \A H : HowMany(bus, H) = Is(Head(bus), H) + HowMany(Tail(bus), H)
    BY <1>2, <2>1, HeadTailProperties, CountTail
  <2>3. ASSUME NEW s \in Participants, NEW r \in Participants
        PROVE  OnTheBus(s)' + HowMany(rx'[r], Sent(s)) <= Load(s)
    <3>1. /\ OnTheBus(s) + HowMany(rx[r], Sent(s)) <= Load(s) /\ Load(s) \in Nat
          /\ OnTheBus(s) \in Nat /\ OnTheBus(s)' \in Nat
          /\ HowMany(rx[r], Sent(s)) \in Nat /\ HowMany(rx'[r], Sent(s)) \in Nat
      BY <1>1, <2>1, Amounts DEF Ledger, Numbers
    <3>2. HowMany(rx'[r], Sent(s)) <= HowMany(rx[r], Sent(s)) + Is(Head(bus).frame, Sent(s))
      BY <1>1, <1>5, DeliveredCount
    <3>3. Is(Head(bus), Entry(Sent(s))) = Is(Head(bus).frame, Sent(s))
      BY <2>2 DEF Is, Entry
    <3>4. OnTheBus(s) = Is(Head(bus), Entry(Sent(s))) + OnTheBus(s)'
      BY <2>1, <2>2 DEF OnTheBus, Entry, Sent
    <3>5. Is(Head(bus).frame, Sent(s)) \in {0, 1}
      BY DEF Is
    <3>. QED
      BY <3>1, <3>2, <3>3, <3>4, <3>5
  <2>. QED
    BY <2>1, <2>3 DEF Ledger, Load, Answers, Own, Sent
<1>6. CASE DistributeDone
  <2>1. stage = "distribute" /\ stage' = "process" /\ UNCHANGED <<tx, rx, bus>>
    BY <1>6 DEF DistributeDone
  <2>2. ASSUME NEW s \in Participants, NEW r \in Participants
        PROVE  HowMany(rx[r], Sent(s)) <= Load(s)
    <3>1. /\ OnTheBus(s) + HowMany(rx[r], Sent(s)) <= Load(s) /\ Load(s) \in Nat
          /\ OnTheBus(s) \in Nat /\ HowMany(rx[r], Sent(s)) \in Nat
      BY <1>1, <2>1, Amounts DEF Ledger, Numbers
    <3>. QED
      BY <3>1
  <2>3. ASSUME NEW p \in Participants PROVE Owing(p) <= Answers(p)
    <3>0. "controller" \in Participants /\ "conveyor" \in Participants
          /\ Load("controller") = 11 /\ Load("conveyor") = 12
      BY Amounts DEF Participants, Devices
    <3>1. /\ HowMany(rx[p], Sent("controller")) <= 11 /\ HowMany(rx[p], Sent("conveyor")) <= 12
          /\ HowMany(rx[p], Sent("controller")) \in Nat /\ HowMany(rx[p], Sent("conveyor")) \in Nat
      <4>1. HowMany(rx[p], Sent("controller")) <= Load("controller")
            /\ HowMany(rx[p], Sent("conveyor")) <= Load("conveyor")
        BY <2>2, <3>0, Zenon
      <4>2. \A H : HowMany(rx[p], H) \in Nat
        BY <1>1, Zenon DEF Numbers
      <4>. QED
        BY <3>0, <4>1, <4>2, Zenon
    <3>2. CASE p = "controller"
      <4>1. CASE phase = "Faulted"
        BY <3>2, <4>1, Amounts DEF Owing
      <4>2. CASE phase # "Faulted"
        <5>1. HowMany(rx[p], For("controller")) <= Flying(Tracked)
          <6>1. Tracked \cap For("controller") = For("controller")
            BY TrackedFrames
          <6>2. /\ Sending(Tracked) \in Nat /\ HowMany(bus, Entry(Tracked)) \in Nat
                /\ HowMany(rx["controller"], Tracked \cap For("controller")) \in Nat
                /\ HowMany(rx["conveyor"], Tracked \cap For("conveyor")) \in Nat
                /\ HowMany(rx["vision"], Tracked \cap For("vision")) \in Nat
                /\ HowMany(rx["robot"], Tracked \cap For("robot")) \in Nat
            BY <1>1, CountsNat, FlyingNat DEF Participants, Devices
          <6>3. HowMany(rx["controller"], Tracked \cap For("controller")) <= Arriving(Tracked)
                /\ Arriving(Tracked) \in Nat
            BY <6>2 DEF Arriving
          <6>4. Arriving(Tracked) <= Flying(Tracked)
            BY <6>2, <6>3 DEF Flying
          <6>5. HowMany(rx["controller"], Tracked \cap For("controller")) = HowMany(rx[p], For("controller"))
            BY <3>2, <6>1
          <6>6. Flying(Tracked) \in Nat
            BY <1>1, FlyingNat
          <6>. QED
            BY <6>2, <6>3, <6>4, <6>5, <6>6
        <5>2. Flying(Tracked) <= 1 /\ Flying(Tracked) \in Nat
          BY <1>1, <4>2, FlyingNat DEF Basis, Inv, OneOfThisPart
        <5>3. HowMany(rx[p], For("controller")) \in Nat
          BY <1>1 DEF Numbers
        <5>4. Owing(p) = 5 * HowMany(rx[p], For("controller"))
          BY <3>2, <4>2, Amounts DEF Owing, Obeyed
        <5>5. Answers(p) = 5
          BY <3>2, Amounts
        <5>. QED
          BY <5>1, <5>2, <5>3, <5>4, <5>5
      <4>. QED
        BY <4>1, <4>2
    <3>3. CASE p = "conveyor"
      <4>1. Owing(p) = 1 * HowMany(rx[p], Sent("controller")) /\ Answers(p) = 11
        BY <3>3, Amounts DEF Owing, Obeyed
      <4>. QED
        BY <3>1, <4>1
    <3>4. CASE p = "vision"
      <4>1. Owing(p) = 2 * HowMany(rx[p], Sent("controller") \cup Sent("conveyor")) /\ Answers(p) = 46
        BY <3>4, Amounts DEF Owing, Obeyed
      <4>2. Sent("controller") \cap Sent("conveyor") = {} /\ rx[p] \in Seq(Frame)
        BY <1>1, Buffers, SentApart DEF Participants, Devices
      <4>3. HowMany(rx[p], Sent("controller") \cup Sent("conveyor"))
              = HowMany(rx[p], Sent("controller")) + HowMany(rx[p], Sent("conveyor"))
        BY <4>2, CountSplit
      <4>. QED
        BY <3>1, <4>1, <4>3
    <3>5. CASE p = "robot"
      <4>1. Owing(p) = 7 * HowMany(rx[p], Sent("controller")) /\ Answers(p) = 77
        BY <3>5, Amounts DEF Owing, Obeyed
      <4>. QED
        BY <3>1, <4>1
    <3>. QED
      BY <3>2, <3>3, <3>4, <3>5 DEF Participants, Devices
  <2>4. ASSUME NEW p \in Participants PROVE Len(tx'[p]) + Owing(p)' <= Answers(p)
    <3>1. Len(tx'[p]) = 0
      BY <1>1, <2>1, Aboard DEF Staged
    <3>2. Owing(p)' = Owing(p)
      BY <1>1, <2>1 DEF Owing, Each, Obeyed, For, Sent
    <3>3. Owing(p) \in Nat /\ Answers(p) \in Nat
      BY <1>1, Amounts DEF Numbers
    <3>. QED
      BY <2>3, <3>1, <3>2, <3>3
  <2>. QED
    BY <2>1, <2>2, <2>4 DEF Ledger, Load, Answers, Own, Sent
<1>. QED
  BY <1>3, <1>4, <1>5, <1>6 DEF Transport

-----------------------------------------------------------------------------
(* What holds throughout a run.                                            *)
Booked == Basis /\ AllAboard /\ Ledger

(* It holds at the start, ...                                              *)
LEMMA BookedInit == Init => Booked
<1>. SUFFICES ASSUME Init PROVE Booked
  OBVIOUS
<1>1. AllAboard /\ stage = "idle" /\ \A p \in Participants : Len(tx[p]) = 0
  BY DEF Init, AllAboard
<1>2. Ledger
  BY <1>1, Amounts DEF Ledger
<1>. QED
  BY <1>1, <1>2, BasisInit DEF Booked

(* ... every step preserves it, ...                                        *)
LEMMA BookedStep == Booked /\ [Next]_vars => Booked'
<1>. SUFFICES ASSUME Booked, [Next]_vars PROVE Booked'
  OBVIOUS
<1>1. CASE TickStep
  <2>1. Basis'
    BY <1>1, BasisTickStep DEF Booked
  <2>2. AllAboard'
    BY <1>1 DEF Booked, AllAboard, TickStep, ControllerStep, Transport, Receive, EndPass, DeviceStep
  <2>3. Ledger'
    BY <1>1, LedgerTicks, LedgerReceive, LedgerTransport, LedgerEnds DEF Booked, TickStep
  <2>. QED
    BY <2>1, <2>2, <2>3 DEF Booked
<1>2. CASE NextTick
  <2>1. Inv'
    BY <1>2, StepInv DEF Booked, Basis, Next, RuntimeStep
  <2>2. /\ step = "endOfTick" /\ step' = "controller"
        /\ UNCHANGED <<controllerVars, watchdogVars, devices, tx, rx, bus, stage, passes>>
    BY <1>2 DEF NextTick
  <2>3. Staged'
    BY <2>2 DEF Booked, Basis, Staged, Steps, Registered
  <2>4. Origins'
    BY <2>2 DEF Booked, Basis, Origins, Has, From, Sent
  <2>5. Watching' /\ (fault_latched' <=> phase' = "Faulted") /\ AllAboard'
    BY <2>2 DEF Booked, Basis, Watching, AllAboard, controllerVars, watchdogVars
  <2>6. Ledger'
    BY <1>2, LedgerEnds DEF Booked
  <2>. QED
    BY <2>1, <2>3, <2>4, <2>5, <2>6 DEF Booked, Basis
<1>3. CASE UNCHANGED vars
  <2>1. Inv'
    BY <1>3, StepInv DEF Booked, Basis
  <2>2. UNCHANGED <<controllerVars, watchdogVars, devices, tx, rx, bus, stage, step, passes>>
    BY <1>3 DEF vars
  <2>3. Staged'
    BY <2>2 DEF Booked, Basis, Staged, Registered
  <2>4. Origins'
    BY <2>2 DEF Booked, Basis, Origins, Has, From, Sent
  <2>5. Watching' /\ (fault_latched' <=> phase' = "Faulted") /\ AllAboard'
    BY <2>2 DEF Booked, Basis, Watching, AllAboard, controllerVars, watchdogVars
  <2>6. Ledger'
    <3>1. /\ tx' = tx /\ rx' = rx /\ bus' = bus
          /\ stage' = stage /\ step' = step /\ phase' = phase
      BY <2>2 DEF controllerVars
    <3>2. \A s : /\ SpokeAlready(s)' <=> SpokeAlready(s)
                /\ OnTheBus(s)' = OnTheBus(s)
                /\ Owing(s)' = Owing(s)
      BY <3>1, Zenon DEF SpokeAlready, OnTheBus, Owing
    <3>. QED
      BY <3>1, <3>2, Zenon DEF Booked, Ledger
  <2>. QED
    BY <2>1, <2>3, <2>4, <2>5, <2>6 DEF Booked, Basis
<1>. QED
  BY <1>1, <1>2, <1>3 DEF Next, RuntimeStep

(* ... so it holds throughout.                                             *)
LEMMA BookedAlways == Spec => []Booked
BY BookedInit, BookedStep, PTL DEF Spec

(* No buffer is ever full, so none of the frames is lost whose loss nobody *)
(* would notice, if there is room for Burst = 154 frames: the buffers of   *)
(* the code have 256 slots, and the bus 1024.                              *)
THEOREM NothingIsLost ==
  ASSUME QueueCapacity > Burst, BusCapacity > Burst
  PROVE  Spec => []NoFrameLost
<1>1. Booked => NoFrameLost
  BY LedgerSuffices DEF Booked, Basis, Inv
<1>. QED
  BY <1>1, BookedAlways, PTL

-----------------------------------------------------------------------------
(* What a step does to what is on its way, when no buffer gets full.       *)
Smooth == Basis /\ AllAboard /\ NoFrameLost

(* Nothing comes before a pass has begun, ...                              *)
LEMMA NothingYet ==
  Staged /\ stage = "idle" =>
    \A s, r \in Participants : \A f : ~Coming(s, r, f)
BY HasNone DEF Staged, Coming

(* ... whatever the step before did, ...                                   *)
LEMMA NothingYetNext ==
  (Staged /\ stage = "idle" => \A s, r \in Participants : \A f : ~Coming(s, r, f))'
BY NothingYet, PTL

(* ... nothing is left when it ends, ...                                   *)
LEMMA NothingLeft ==
  ASSUME Staged, stage = "process", \A p \in Participants : rx[p] = <<>>
  PROVE  \A s, r \in Participants : \A f : ~Coming(s, r, f)
BY HasNone DEF Staged, Coming

(* ... and what waits to be sent comes when it begins.                     *)
LEMMA PassBegins ==
  ASSUME Staged, stage = "idle", stage' = "drain", UNCHANGED <<rx, bus>>,
         NEW s \in Participants, NEW r \in Participants, NEW f
  PROVE  Coming(s, r, f)' <=> Has(tx'[s], f)
<1>1. Coming(s, r, f)' <=> Has(tx'[s], f) \/ Has(bus, From(s, f)) \/ Has(rx[r], f)
  BY DEF Coming, Has, From
<1>2. bus = <<>> /\ rx[r] = <<>>
  BY DEF Staged
<1>. QED
  BY <1>1, <1>2, HasNone

(* Of what comes, one frame is received.                                   *)
LEMMA ReceiveComing ==
  ASSUME TypeOK, Staged, NEW p \in Participants, Receive(p),
         NEW s \in Participants, NEW r \in Participants, NEW f
  PROVE  /\ Coming(s, r, f) <=> Has(rx[r], f)
         /\ Coming(s, r, f)' => Coming(s, r, f)
         /\ Coming(s, r, f) => Coming(s, r, f)' \/ (p = r /\ f = Head(rx[p]))
         /\ p = r /\ f = Head(rx[p]) => Coming(s, r, f)
<1>1. /\ \A q \in Participants : q # p => rx'[q] = rx[q]
      /\ \A g : Has(rx[p], g) <=> g = Head(rx[p]) \/ Has(rx'[p], g)
      /\ stage = "process" /\ UNCHANGED <<bus, stage>>
  BY Taken
<1>2. bus = <<>>
  BY <1>1 DEF Staged
<1>3. Coming(s, r, f) <=> Has(rx[r], f)
  BY <1>1, <1>2, HasNone DEF Coming
<1>4. Coming(s, r, f)' <=> Has(rx'[r], f)
  BY <1>1, <1>2, HasNone DEF Coming, Has, From
<1>. QED
  BY <1>1, <1>3, <1>4

(* Frames are carried in the course of a pass.                             *)
LEMMA Carried ==
  ASSUME Transport
  PROVE  /\ stage \in {"drain", "distribute"} /\ stage' # "idle"
         /\ UNCHANGED <<controllerVars, watchdogVars, visionVars, drawn, devices, step, passes>>
BY DEF Transport, DrainFrame, DrainDone, DistributeFrame, DistributeDone

(* A stopped controller stays so.                                          *)
LEMMA StaysStopped ==
  ASSUME NEW f, NEW fs, Decided(f, fs)
  PROVE  /\ Stopped => Stopped'
         /\ phase = "Faulted" => phase' = "Faulted"
BY DEF Decided, Stopped, Moves, Done

(* It heeds every frame it waits for.                                      *)
LEMMA Heeded ==
  ASSUME TypeOK, NEW f \in For("controller") \cap Journey(phase), ControllerReceive(f)
  PROVE  ~UNCHANGED <<phase, progress>>
<1>1. phase \in Phases /\ processed \in Nat /\ processed + 1 # processed
  BY DEF TypeOK
<1>2. phase # "Faulted"
  BY DEF Journey
<1>3. CASE f \in {VisionStatus("VisionFault"), VisionStatus("VisionTimeout")}
  <2>1. HandleVisionStatus(f.status)
    BY <1>3 DEF ControllerReceive, VisionStatus
  <2>2. DeviceFault
    BY <1>3, <2>1 DEF HandleVisionStatus, VisionStatus
  <2>. QED
    BY <1>2, <2>2 DEF DeviceFault, EnterFault
<1>4. CASE f = ConveyorStatus("ConveyorFault")
  <2>1. HandleConveyorStatus(f.status)
    BY <1>4 DEF ControllerReceive, ConveyorStatus
  <2>2. DeviceFault
    BY <1>4, <2>1 DEF HandleConveyorStatus, ConveyorStatus
  <2>. QED
    BY <1>2, <2>2 DEF DeviceFault, EnterFault
<1>5. CASE f \in {RobotStatus(m) : m \in RobotFailures}
  <2>1. HandleRobotStatus(f.status) /\ f.status \in RobotFailures
    BY <1>5 DEF ControllerReceive, RobotStatus
  <2>2. DeviceFault
    BY <2>1 DEF HandleRobotStatus, RobotFailures
  <2>. QED
    BY <1>2, <2>2 DEF DeviceFault, EnterFault
<1>6. CASE f \in {Accepting, Rejecting}
  <2>1. phase = "WaitingInspection"
    BY <1>1, <1>6 DEF Journey, Phases, Accepting, Rejecting, VisionStatus, RobotStatus, Command
  <2>2. HandleVisionStatus(f.status) /\ f.status \in {"PartAccepted", "RejectDetected"}
    BY <1>6 DEF ControllerReceive, Accepting, Rejecting, VisionStatus
  <2>. QED
    BY <2>1, <2>2 DEF HandleVisionStatus, Instruct
<1>7. CASE f = RobotStatus("PickCompleted")
  <2>1. phase = "WaitingPickComplete"
    BY <1>1, <1>7 DEF Journey, Phases, Requests, Refusals, Accepting, Rejecting, VisionStatus,
       ConveyorStatus, RobotStatus, Command
  <2>2. HandleRobotStatus("PickCompleted")
    BY <1>7 DEF ControllerReceive, RobotStatus
  <2>. QED
    BY <2>1, <2>2 DEF HandleRobotStatus, AwaitedFromRobot, RobotFailures, Instruct
<1>8. CASE f \in {RobotStatus("PlaceCompleted"), RobotStatus("RejectRemoved")}
  <2>1. /\ f = RobotStatus("PlaceCompleted") => phase = "WaitingPlaceComplete"
        /\ f = RobotStatus("RejectRemoved") => phase = "WaitingRejectRemoval"
    BY <1>1 DEF Journey, Phases, Requests, Refusals, Accepting, Rejecting, VisionStatus,
       ConveyorStatus, RobotStatus, Command
  <2>2. HandleRobotStatus(f.status)
    BY <1>8 DEF ControllerReceive, RobotStatus
  <2>3. CompleteCycle
    BY <1>8, <2>1, <2>2 DEF HandleRobotStatus, AwaitedFromRobot, RobotFailures, RobotStatus
  <2>. QED
    BY <1>1, <2>3 DEF CompleteCycle, progress
<1>. QED
  BY <1>3, <1>4, <1>5, <1>6, <1>7, <1>8 DEF For, Refusals, RobotFailures

-----------------------------------------------------------------------------
(* The two watchdogs.  The controller counts a tick for every device and   *)
(* hears it in the same tick; a device counts one in its own tick, and     *)
(* hears the controller in the next before it ticks again.                 *)
Before(d) ==
  CASE d = "conveyor" -> {"conveyor"}
    [] d = "vision" -> {"conveyor", "vision"}
    [] OTHER -> {"conveyor", "vision", "robot"}
After(d) == {"vision", "robot"} \ Before(d)

Steady(d) ==
  /\ device_misses[d] <= 1 /\ heartbeat_misses[d] <= 1
  /\ step = "controller" => device_misses[d] = 0
  /\ step = "firstPass" =>
       heartbeat_misses[d] = 0 \/ Coming("controller", d, ControllerHeartbeat)
  /\ step \in Before(d) => heartbeat_misses[d] = 0
  /\ ~Stopped =>
       /\ step \in After(d) => device_misses[d] = 0 \/ Has(tx[d], Alive(d))
       /\ step = "secondPass" => device_misses[d] = 0 \/ Coming(d, "controller", Alive(d))
       /\ step = "endOfTick" => device_misses[d] = 0

Beating == (step = "controller" => ~Stopped) /\ \A d \in Devices : Steady(d)

(* The shutdown.  Before a fault there is none; after it, the commands for *)
(* the three devices wait together or have gone out together.              *)
Spared(d) ==
  /\ ~shutdown_latched[d]
  /\ ~Coming("controller", d, Shutdown(d)) /\ ~Has(tx["controller"], Shutdown(d))
Condemned(d) ==
  /\ ~shutdown_latched[d]
  /\ ~Coming("controller", d, Shutdown(d)) /\ Later("controller", Shutdown(d))
Reached(d) == shutdown_latched[d] \/ Coming("controller", d, Shutdown(d))

Latching ==
  /\ phase # "Faulted" => \A d \in Devices : Spared(d)
  /\ phase = "Faulted" => (\A d \in Devices : Condemned(d)) \/ (\A d \in Devices : Reached(d))

(* Where the calls come in a tick.                                         *)
LEMMA Sides ==
  ASSUME NEW d \in Devices
  PROVE  /\ d \in Participants /\ d # "controller" /\ d \in Before(d)
         /\ Before(d) \cup After(d) \subseteq Devices
         /\ "robot" \notin After(d) => "robot" = d
         /\ "vision" \in Before(d) \/ "vision" \in After(d)
         /\ "robot" \in Before(d) \/ "robot" \in After(d)
         /\ "vision" \in Before(d) => d # "conveyor"
         /\ "robot" \in Before(d) => d = "robot" /\ "vision" \in Before(d)
         /\ "vision" \in Before(d) => "conveyor" \in Before(d)
         /\ "vision" \in After(d) => d = "conveyor"
         /\ "robot" \in After(d) => d \in {"conveyor", "vision"}
         /\ d = "conveyor" => "vision" \in After(d)
BY DEF Before, After, Devices, Participants

(* Everyone is on the bus and what is for someone is sent to someone else. *)
LEMMA Onward ==
  ASSUME Smooth, Smooth', Transport, NEW s \in Participants, NEW r \in Participants, s # r,
         NEW f \in Sent(s)
  PROVE  Coming(s, r, f)' <=> Coming(s, r, f)
<1>1. Registered(s) /\ Registered(r)
  BY Aboard DEF Smooth
<1>2. TypeOK /\ NoTwice /\ Staged /\ Origins /\ NoFrameLost /\ NoFrameLost'
  BY DEF Smooth, Basis, Inv
<1>. QED
  BY <1>1, <1>2, TransportComing

(* The heartbeats and the shutdowns are sent by whom one thinks.           *)
LEMMA Senders ==
  /\ ControllerHeartbeat \in Sent("controller")
  /\ \A d \in Devices : Shutdown(d) \in Sent("controller") /\ Alive(d) \in Sent(d)
<1>1. \A d \in Devices : Alive(d) \in Sent(d)
  BY DEF Alive, Sent, Devices, ConveyorMessages, VisionMessages, RobotMessages
<1>. QED
  BY <1>1, ControllersOwn DEF Sent

(* What waits in an output buffer of those who do not speak stays there.   *)
LEMMA KeptWaiting ==
  ASSUME Smooth, Transport, NEW s \in Participants, NEW f
  PROVE  Has(tx'[s], f) => Has(tx[s], f)
<1>1. TypeOK /\ NoTwice /\ Staged /\ Origins
  BY DEF Smooth, Basis, Inv
<1>2. \E g : g \in Sent(s)
  BY Senders DEF Participants
<1>. QED
  BY <1>1, <1>2, TransportComing


-----------------------------------------------------------------------------
(* The watchdogs, step by step.  The controller ticks: nobody is missing,  *)
(* and its heartbeat is on its way.                                        *)
LEMMA ControllerOnTime ==
  ASSUME DeviceHeartbeatTimeoutTicks > 1, Smooth, Smooth', Beating, ControllerStep
  PROVE  /\ ~Stopped /\ step = "controller" /\ step' = "firstPass"
         /\ stage = "idle" /\ stage' = "drain"
         /\ UNCHANGED <<watchdogVars, drawn, devices, rx, bus, passes, fault_latched, progress>>
         /\ device_misses' = [d \in Devices |-> device_misses[d] + 1]
         /\ \E fs : /\ Speaks("controller", fs)
                    /\ \/ /\ bootstrapped /\ fs = <<ControllerHeartbeat>>
                          /\ UNCHANGED <<phase, bootstrapped>>
                       \/ /\ ~bootstrapped /\ fs = Bootstrap
                          /\ phase' = "WaitingInspection" /\ bootstrapped'
<1>1. TypeOK /\ Staged /\ Watching
  BY DEF Smooth, Basis, Inv
<1>2. /\ step = "controller" /\ step' = "firstPass" /\ stage = "idle" /\ stage' = "drain"
      /\ UNCHANGED <<watchdogVars, drawn, devices, rx, bus, passes>>
  BY <1>1, ControllerTicks
<1>3. PICK fs : Speaks("controller", fs) /\ Ticked(fs)
  BY <1>1, ControllerTicks
<1>4. ~Stopped /\ \A d \in Devices : device_misses[d] = 0
  BY <1>2 DEF Beating, Steady
<1>5. ~HeartbeatLost
  BY <1>4, ControllerAssumption DEF HeartbeatLost
<1>6. /\ UNCHANGED <<progress, fault_latched>>
      /\ device_misses' = [d \in Devices |-> device_misses[d] + 1]
      /\ \/ bootstrapped /\ fs = <<ControllerHeartbeat>> /\ UNCHANGED <<phase, bootstrapped>>
         \/ /\ ~bootstrapped /\ fs = Bootstrap
            /\ phase' = "WaitingInspection" /\ bootstrapped'
  BY <1>3, <1>4, <1>5 DEF Ticked
<1>. QED
  BY <1>2, <1>3, <1>4, <1>6

(* The controller counts a miss of each device and asks for an answer.     *)
LEMMA ControllerBeating ==
  ASSUME DeviceHeartbeatTimeoutTicks > 1, Smooth, Smooth', Beating, ControllerStep
  PROVE  Beating'
<1>1. /\ step = "controller" /\ step' = "firstPass" /\ stage = "idle" /\ stage' = "drain"
      /\ UNCHANGED <<watchdogVars, rx, bus>>
      /\ device_misses' = [d \in Devices |-> device_misses[d] + 1]
  BY ControllerOnTime
<1>2. PICK fs : Speaks("controller", fs) /\ fs \in {<<ControllerHeartbeat>>, Bootstrap}
  BY ControllerOnTime
<1>3. TypeOK /\ Staged /\ NoFrameLost' /\ "controller" \in Participants
  BY DEF Smooth, Basis, Inv, Participants
<1>4. Has(tx'["controller"], ControllerHeartbeat)
  <2>1. Has(fs, ControllerHeartbeat)
    BY <1>2, TickTexts, Zenon
  <2>. QED
    BY <1>2, <1>3, <2>1, SpeaksBuffer, Zenon
<1>5. ASSUME NEW d \in Devices PROVE Steady(d)'
  <2>1. device_misses[d] = 0 /\ heartbeat_misses[d] <= 1
    BY <1>1 DEF Beating, Steady
  <2>2. device_misses'[d] = 1 /\ heartbeat_misses'[d] <= 1
    BY <1>1, <2>1 DEF watchdogVars
  <2>3. d \in Participants /\ "firstPass" \notin Before(d) \cup After(d)
    BY Sides DEF Devices
  <2>4. Coming("controller", d, ControllerHeartbeat)'
    BY <1>1, <1>3, <1>4, <2>3, PassBegins
  <2>. QED
    BY <1>1, <2>2, <2>3, <2>4 DEF Steady, Before, After, Alive, ControllerHeartbeat
<1>. QED
  BY <1>1, <1>5 DEF Beating, Devices

(* A device ticks: it has heard the controller, so it tells that it is     *)
(* alive, unless it is shut down.                                          *)
LEMMA DeviceOnTime ==
  ASSUME ControllerHeartbeatTimeoutTicks > 1, Smooth, Smooth', Beating, DeviceStep
  PROVE  /\ step \in Devices /\ stage = "idle"
         /\ \/ step = "conveyor" /\ step' = "vision" /\ stage' = "idle"
            \/ step = "vision" /\ step' = "robot" /\ stage' = "idle"
            \/ step = "robot" /\ step' = "secondPass" /\ stage' = "drain"
         /\ UNCHANGED <<controllerVars, devices, rx, bus, passes, drawn, shutdown_latched>>
         /\ heartbeat_misses'[step] <= 1
         /\ \A d \in Devices : d # step => heartbeat_misses'[d] = heartbeat_misses[d]
         /\ \A s \in Participants : s # step => tx'[s] = tx[s]
         /\ \A s \in Participants : \A f : Has(tx[s], f) => Has(tx'[s], f)
         /\ ~shutdown_latched[step] => Has(tx'[step], Alive(step))
<1>1. TypeOK /\ Staged /\ Watching /\ NoFrameLost'
  BY DEF Smooth, Basis, Inv
<1>2. /\ stage = "idle"
      /\ \/ step = "conveyor" /\ step' = "vision" /\ stage' = "idle"
         \/ step = "vision" /\ step' = "robot" /\ stage' = "idle"
         \/ step = "robot" /\ step' = "secondPass" /\ stage' = "drain"
      /\ UNCHANGED <<controllerVars, devices, rx, bus, passes>>
  BY <1>1, DeviceTicks
<1>3. PICK fs : Speaks(step, fs) /\ Clocked(step, fs)
  BY <1>1, DeviceTicks
<1>4. step \in Devices /\ step \in Participants
  BY <1>2 DEF Devices, Participants
<1>5. heartbeat_misses[step] = 0
  BY <1>4, Sides DEF Beating, Steady
<1>6. ~WatchdogExpires(step)
  BY <1>5, WatchdogAssumption DEF WatchdogExpires
<1>7. /\ UNCHANGED <<drawn, shutdown_latched>>
      /\ \/ shutdown_latched[step] /\ UNCHANGED heartbeat_misses
         \/ /\ ~shutdown_latched[step] /\ Has(fs, Alive(step))
            /\ heartbeat_misses' = [heartbeat_misses EXCEPT ![step] =
                                      IF heartbeat_seen[step] THEN @ + 1 ELSE @]
  BY <1>3, <1>6 DEF Clocked
<1>8. /\ heartbeat_misses'[step] <= 1
      /\ \A d \in Devices : d # step => heartbeat_misses'[d] = heartbeat_misses[d]
  BY <1>1, <1>4, <1>5, <1>7 DEF Watching
<1>9. /\ \A s \in Participants : s # step => tx'[s] = tx[s]
      /\ \A s \in Participants : \A f : Has(tx[s], f) => Has(tx'[s], f)
      /\ \A f : Has(fs, f) => Has(tx'[step], f)
  BY <1>1, <1>3, <1>4, SpeaksBuffer
<1>10. ~shutdown_latched[step] => Has(tx'[step], Alive(step))
  BY <1>7, <1>9
<1>. QED
  BY <1>2, <1>4, <1>7, <1>8, <1>9, <1>10

(* A device counts a miss of the controller, and answers what it heard.    *)
LEMMA DeviceBeating ==
  ASSUME ControllerHeartbeatTimeoutTicks > 1, Smooth, Smooth', Beating, Latching, DeviceStep
  PROVE  Beating'
<1>1. /\ step \in Devices /\ stage = "idle"
      /\ \/ step = "conveyor" /\ step' = "vision" /\ stage' = "idle"
         \/ step = "vision" /\ step' = "robot" /\ stage' = "idle"
         \/ step = "robot" /\ step' = "secondPass" /\ stage' = "drain"
      /\ UNCHANGED <<phase, device_misses, rx, bus>>
      /\ heartbeat_misses'[step] <= 1
      /\ \A d \in Devices : d # step => heartbeat_misses'[d] = heartbeat_misses[d]
      /\ \A s \in Participants : \A f : Has(tx[s], f) => Has(tx'[s], f)
      /\ ~shutdown_latched[step] => Has(tx'[step], Alive(step))
  BY DeviceOnTime DEF controllerVars
<1>2. Staged
  BY DEF Smooth, Basis
<1>3. ~Stopped => ~shutdown_latched[step]
  BY <1>1 DEF Latching, Spared, Stopped
<1>4. ASSUME NEW d \in Devices PROVE Steady(d)'
  <2>1. /\ device_misses[d] <= 1 /\ heartbeat_misses[d] <= 1
        /\ step \in Before(d) => heartbeat_misses[d] = 0
        /\ ~Stopped => (step \in After(d) => device_misses[d] = 0 \/ Has(tx[d], Alive(d)))
    BY DEF Beating, Steady
  <2>2. device_misses'[d] <= 1 /\ heartbeat_misses'[d] <= 1
    BY <1>1, <2>1
  <2>3. step' # "controller" /\ step' # "firstPass" /\ step' # "endOfTick" /\ Stopped' = Stopped
    BY <1>1 DEF Stopped
  <2>4. d \in Participants /\ "controller" \in Participants
    BY DEF Devices, Participants
  <2>5. step' \in Before(d) => heartbeat_misses'[d] = 0
    <3>1. step' \in Before(d) => step \in Before(d) /\ step # d
      BY <1>1, Sides DEF Devices
    <3>. QED
      BY <1>1, <2>1, <3>1
  <2>6. /\ step = "robot" => d = "robot" \/ "robot" \in After(d)
        /\ step' \in After(d) => step = d \/ step \in After(d)
    BY <1>1, Sides
  <2>7. ~Stopped => device_misses[d] = 0 \/ Has(tx'[d], Alive(d)) \/ step \notin After(d) \cup {d}
    BY <1>1, <1>3, <2>1, <2>4
  <2>8. step' = "secondPass" /\ ~Stopped =>
          device_misses'[d] = 0 \/ Coming(d, "controller", Alive(d))'
    <3>1. step' = "secondPass" => step = "robot" /\ stage' = "drain"
      BY <1>1
    <3>2. stage' = "drain" => (Coming(d, "controller", Alive(d))' <=> Has(tx'[d], Alive(d)))
      BY <1>1, <1>2, <2>4, PassBegins DEF Alive
    <3>. QED
      BY <1>1, <2>6, <2>7, <3>1, <3>2
  <2>9. ~Stopped => (step' \in After(d) => device_misses'[d] = 0 \/ Has(tx[d], Alive(d))')
    <3>1. Has(tx[d], Alive(d))' <=> Has(tx'[d], Alive(d))
      BY DEF Has, Alive
    <3>. QED
      BY <1>1, <2>6, <2>7, <3>1
  <2>. QED
    BY <2>2, <2>3, <2>5, <2>8, <2>9 DEF Steady, Before, After
<1>. QED
  BY <1>1, <1>4 DEF Beating, Devices

(* What is carried keeps coming.                                           *)
LEMMA TransportBeating ==
  ASSUME Smooth, Smooth', Beating, Transport PROVE Beating'
<1>1. stage # "idle" /\ UNCHANGED <<step, phase, device_misses, heartbeat_misses>>
  BY Carried DEF controllerVars, watchdogVars
<1>2. step \in {"firstPass", "secondPass"} /\ Stopped' = Stopped
  BY <1>1 DEF Smooth, Basis, Staged, Stopped
<1>3. ASSUME NEW d \in Devices PROVE Steady(d)'
  <2>1. Steady(d) /\ d \in Participants /\ d # "controller" /\ "controller" \in Participants
    BY DEF Beating, Participants, Devices
  <2>2. step \notin Before(d) \cup After(d)
    BY <1>2, Sides DEF Devices
  <2>3. Coming("controller", d, ControllerHeartbeat)' <=> Coming("controller", d, ControllerHeartbeat)
    BY <2>1, Onward, Senders
  <2>4. Coming(d, "controller", Alive(d))' <=> Coming(d, "controller", Alive(d))
    BY <2>1, Onward, Senders
  <2>. QED
    BY <1>1, <1>2, <2>1, <2>2, <2>3, <2>4 DEF Steady, Before, After, Alive, ControllerHeartbeat
<1>. QED
  BY <1>1, <1>2, <1>3 DEF Beating, Devices

(* What is received is counted.                                            *)
LEMMA ReceiveBeating ==
  ASSUME Smooth, Smooth', Beating, NEW p \in Participants, Receive(p) PROVE Beating'
<1>1. TypeOK /\ Staged /\ Watching
  BY DEF Smooth, Basis, Inv
<1>2. stage = "process" /\ UNCHANGED step
  BY <1>1, Taken
<1>3. step \in {"firstPass", "secondPass"}
  BY <1>1, <1>2 DEF Staged
<1>. DEFINE g == Head(rx[p])
<1>4. CASE p \in Devices
  <2>1. UNCHANGED <<phase, device_misses>> /\ \E fs : Heard(p, g)
    BY <1>1, <1>4, DeviceReceives DEF controllerVars
  <2>2. ASSUME NEW d \in Devices PROVE Steady(d)'
    <3>1. Steady(d) /\ d \in Participants /\ d # "controller" /\ "controller" \in Participants
      BY DEF Beating, Participants, Devices
    <3>2. step \notin Before(d) \cup After(d)
      BY <1>3, Sides DEF Devices
    <3>3. /\ heartbeat_misses'[d] = heartbeat_misses[d] \/ heartbeat_misses'[d] = 0
          /\ p = d /\ g = ControllerHeartbeat => heartbeat_misses'[d] = 0
      BY <1>1, <1>4, <2>1 DEF Heard, Watching
    <3>4. Coming("controller", d, ControllerHeartbeat) =>
            Coming("controller", d, ControllerHeartbeat)' \/ heartbeat_misses'[d] = 0
      BY <1>1, <3>1, <3>3, ReceiveComing
    <3>5. Coming(d, "controller", Alive(d)) => Coming(d, "controller", Alive(d))'
      <4>1. p # "controller"
        BY <1>4 DEF Devices
      <4>. QED
        BY <1>1, <3>1, <4>1, ReceiveComing
    <3>6. Stopped' = Stopped
      BY <2>1 DEF Stopped
    <3>. QED
      BY <1>2, <1>3, <2>1, <3>1, <3>2, <3>3, <3>4, <3>5, <3>6
      DEF Steady, Before, After, Alive, ControllerHeartbeat
  <2>. QED
    BY <1>2, <1>3, <2>2 DEF Beating, Devices
<1>5. CASE p = "controller"
  <2>1. UNCHANGED heartbeat_misses /\ \E fs : Counted(g) /\ Decided(g, fs)
    BY <1>1, <1>5, ControllerReceives DEF watchdogVars
  <2>2. Stopped => Stopped'
    BY <2>1, StaysStopped
  <2>3. ASSUME NEW d \in Devices PROVE Steady(d)'
    <3>1. Steady(d) /\ d \in Participants /\ d # "controller" /\ "controller" \in Participants
      BY DEF Beating, Participants, Devices
    <3>2. step \notin Before(d) \cup After(d)
      BY <1>3, Sides DEF Devices
    <3>3. /\ device_misses'[d] = device_misses[d] \/ device_misses'[d] = 0
          /\ g = Alive(d) => device_misses'[d] = 0
      BY <2>1 DEF Counted
    <3>4. Coming(d, "controller", Alive(d)) =>
            Coming(d, "controller", Alive(d))' \/ device_misses'[d] = 0
      BY <1>1, <3>1, <3>3, ReceiveComing
    <3>5. Coming("controller", d, ControllerHeartbeat) =>
            Coming("controller", d, ControllerHeartbeat)'
      BY <1>1, <1>5, <3>1, ReceiveComing
    <3>. QED
      BY <1>2, <1>3, <2>1, <2>2, <3>1, <3>2, <3>3, <3>4, <3>5
      DEF Steady, Before, After, Alive, ControllerHeartbeat
  <2>. QED
    BY <1>2, <1>3, <2>3 DEF Beating, Devices
<1>. QED
  BY <1>4, <1>5 DEF Participants

(* At the end of a pass everyone who should have been heard has been.      *)
LEMMA EndsBeating ==
  ASSUME Smooth, Beating, EndPass \/ NextTick PROVE Beating'
<1>1. CASE EndPass
  <2>1. TypeOK /\ Staged /\ Origins
    BY DEF Smooth, Basis, Inv
  <2>2. /\ stage = "process" /\ \A p \in Participants : rx[p] = <<>>
        /\ \/ step = "firstPass" /\ step' = "conveyor"
           \/ step = "secondPass" /\ step' = "endOfTick"
        /\ UNCHANGED <<controllerVars, watchdogVars>>
    BY <1>1, <2>1, PassEnds
  <2>3. UNCHANGED <<phase, device_misses, heartbeat_misses>> /\ Stopped' = Stopped
    BY <2>2 DEF controllerVars, watchdogVars, Stopped
  <2>4. ASSUME NEW d \in Devices PROVE Steady(d)'
    <3>1. Steady(d) /\ d \in Participants /\ "controller" \in Participants
      BY DEF Beating, Participants, Devices
    <3>2. ~Coming("controller", d, ControllerHeartbeat) /\ ~Coming(d, "controller", Alive(d))
      BY <2>1, <2>2, <3>1, NothingLeft
    <3>3. "endOfTick" \notin Before(d) \cup After(d) /\ "conveyor" \notin After(d)
      BY Sides DEF Devices, After
    <3>. QED
      BY <2>2, <2>3, <3>1, <3>2, <3>3 DEF Steady, Before, After
  <2>. QED
    BY <2>2, <2>4 DEF Beating, Devices
<1>2. CASE NextTick
  <2>1. /\ step = "endOfTick" /\ step' = "controller" /\ ~Stopped
        /\ UNCHANGED <<phase, device_misses, heartbeat_misses>> /\ Stopped' = Stopped
    BY <1>2 DEF NextTick, controllerVars, watchdogVars, Stopped
  <2>2. ASSUME NEW d \in Devices PROVE Steady(d)'
    <3>1. Steady(d)
      BY DEF Beating
    <3>2. "controller" \notin Before(d) \cup After(d)
      BY Sides DEF Devices
    <3>. QED
      BY <2>1, <3>1, <3>2 DEF Steady, Before, After
  <2>. QED
    BY <2>1, <2>2 DEF Beating, Devices
<1>. QED
  BY <1>1, <1>2

-----------------------------------------------------------------------------
(* The shutdown, step by step.  What the watchdogs send is not it.         *)
LEMMA ControllerLatching ==
  ASSUME DeviceHeartbeatTimeoutTicks > 1, Smooth, Smooth', Beating, Latching, ControllerStep
  PROVE  Latching'
<1>1. /\ ~Stopped /\ stage = "idle" /\ stage' = "drain"
      /\ UNCHANGED <<watchdogVars, rx, bus>>
      /\ phase' \in {phase, "WaitingInspection"}
  BY ControllerOnTime
<1>2. PICK fs : Speaks("controller", fs) /\ fs \in {<<ControllerHeartbeat>>, Bootstrap}
  BY ControllerOnTime
<1>3. TypeOK /\ Staged /\ "controller" \in Participants
  BY DEF Smooth, Basis, Inv, Participants
<1>4. phase # "Faulted" /\ phase' # "Faulted" /\ UNCHANGED shutdown_latched
  BY <1>1 DEF Stopped, watchdogVars
<1>5. ASSUME NEW d \in Devices PROVE Spared(d)'
  <2>1. Spared(d) /\ d \in Participants
    BY <1>4 DEF Latching, Participants
  <2>2. ~Has(fs, Shutdown(d))
    BY <1>2, TickTexts
  <2>3. ~Has(tx'["controller"], Shutdown(d))
    BY <1>2, <1>3, <2>1, <2>2, SpeaksBuffer DEF Spared
  <2>4. ~Coming("controller", d, Shutdown(d))'
    BY <1>1, <1>3, <2>1, <2>3, PassBegins DEF Shutdown
  <2>. QED
    BY <1>4, <2>1, <2>3, <2>4 DEF Spared, Has, Shutdown
<1>. QED
  BY <1>4, <1>5 DEF Latching, Devices

(* The last of the devices to tick sends the commands that wait.           *)
LEMMA DeviceLatching ==
  ASSUME ControllerHeartbeatTimeoutTicks > 1, Smooth, Smooth', Beating, Latching, DeviceStep
  PROVE  Latching'
<1>1. /\ step \in Devices /\ stage = "idle" /\ stage' \in {"idle", "drain"}
      /\ UNCHANGED <<phase, rx, bus, shutdown_latched>>
      /\ \A s \in Participants : s # step => tx'[s] = tx[s]
  BY DeviceOnTime DEF controllerVars
<1>2. Staged /\ Staged' /\ "controller" \in Participants /\ tx'["controller"] = tx["controller"]
  BY <1>1 DEF Smooth, Basis, Participants, Devices
<1>3. ASSUME NEW d \in Devices
      PROVE  /\ ~Coming("controller", d, Shutdown(d))
             /\ stage' = "idle" => ~Coming("controller", d, Shutdown(d))'
             /\ stage' = "drain" => (Coming("controller", d, Shutdown(d))'
                                       <=> Has(tx["controller"], Shutdown(d)))
  <2>1. d \in Participants
    BY DEF Participants
  <2>2. stage' = "idle" => ~Coming("controller", d, Shutdown(d))'
    BY <1>2, <2>1, NothingYetNext DEF Participants, Shutdown
  <2>. QED
    BY <1>1, <1>2, <2>1, <2>2, NothingYet, PassBegins DEF Shutdown
<1>4. ASSUME phase # "Faulted", NEW d \in Devices PROVE Spared(d)'
  <2>1. Spared(d)
    BY <1>4 DEF Latching
  <2>. QED
    BY <1>1, <1>2, <1>3, <2>1 DEF Spared, Has, Shutdown
<1>5. ASSUME \A d \in Devices : Condemned(d)
      PROVE  (\A d \in Devices : Condemned(d)') \/ (\A d \in Devices : Reached(d)')
  <2>1. CASE stage' = "idle"
    <3>1. ASSUME NEW d \in Devices PROVE Condemned(d)'
      BY <1>1, <1>2, <1>3, <1>5, <2>1 DEF Condemned, Later, Has, Shutdown
    <3>. QED
      BY <3>1
  <2>2. CASE stage' = "drain"
    <3>1. ASSUME NEW d \in Devices PROVE Reached(d)'
      BY <1>1, <1>2, <1>3, <1>5, <2>2 DEF Condemned, Reached, Later, Has, Shutdown
    <3>. QED
      BY <3>1
  <2>. QED
    BY <1>1, <2>1, <2>2
<1>6. ASSUME \A d \in Devices : Reached(d), NEW d \in Devices PROVE Reached(d)'
  BY <1>1, <1>3, <1>6 DEF Reached
<1>. QED
  BY <1>1, <1>4, <1>5, <1>6 DEF Latching, Devices

(* The bus carries the shutdown but neither loses nor makes one.           *)
LEMMA TransportLatching ==
  ASSUME Smooth, Smooth', Latching, Transport PROVE Latching'
<1>1. stage \in {"drain", "distribute"} /\ UNCHANGED <<phase, shutdown_latched>>
  BY Carried DEF controllerVars, watchdogVars
<1>2. ASSUME NEW d \in Devices
      PROVE  /\ Coming("controller", d, Shutdown(d))' <=> Coming("controller", d, Shutdown(d))
             /\ Has(tx'["controller"], Shutdown(d)) => Has(tx["controller"], Shutdown(d))
  <2>1. d \in Participants /\ "controller" \in Participants /\ d # "controller"
    BY DEF Participants, Devices
  <2>. QED
    BY <2>1, Onward, Senders, KeptWaiting
<1>3. ASSUME phase # "Faulted", NEW d \in Devices PROVE Spared(d)'
  <2>1. Spared(d)
    BY <1>3 DEF Latching
  <2>. QED
    BY <1>1, <1>2, <2>1 DEF Spared, Has, Shutdown
<1>4. \A d \in Devices : ~Condemned(d)
  BY <1>1 DEF Condemned, Later
<1>5. ASSUME phase = "Faulted", NEW d \in Devices PROVE Reached(d)'
  <2>1. Reached(d)
    BY <1>4, <1>5 DEF Latching
  <2>. QED
    BY <1>1, <1>2, <2>1 DEF Reached
<1>. QED
  BY <1>1, <1>3, <1>5 DEF Latching, Devices

(* What the controller decides says whether it sends a shutdown.           *)
LEMMA DecidedShutdown ==
  ASSUME Basis, NEW f, NEW fs, Decided(f, fs), NEW d \in Devices
  PROVE  /\ phase' # "Faulted" => phase # "Faulted" /\ ~Has(fs, Shutdown(d))
         /\ phase # "Faulted" /\ phase' = "Faulted" => Has(fs, Shutdown(d))
<1>1. \A c \in {"robot.Pick", "robot.Place", "robot.RemoveReject", "conveyor.Stop",
                "conveyor.RequestPartArrived"} : Shutdown(d) # Command(c)
  BY DEF Shutdown, Command, Devices
<1>2. \A g : Has(<<g>>, Shutdown(d)) <=> g = Shutdown(d)
  BY DEF Has
<1>3. ~Has(<<>>, Shutdown(d)) /\ Has(ShutdownFrames, Shutdown(d))
  BY HasNone, ShutdownForAll
<1>4. CASE fs = <<>> /\ UNCHANGED phase
  BY <1>3, <1>4
<1>5. CASE f \in Faults /\ phase' = "Faulted" /\ fs = IF fault_latched THEN <<>> ELSE ShutdownFrames
  BY <1>3, <1>5 DEF Basis
<1>6. CASE \E g : fs = <<g>> /\ Moves(f, phase, g, phase')
  BY <1>1, <1>2, <1>6 DEF Moves
<1>7. CASE /\ Done(f)
           /\ \/ fs = <<Command("conveyor.Stop")>> /\ phase' = "Finished"
              \/ fs = <<Request>> /\ phase' = "WaitingInspection"
  BY <1>1, <1>2, <1>7 DEF Done, Request
<1>. QED
  BY <1>4, <1>5, <1>6, <1>7 DEF Decided

(* A device that receives it shuts down; a controller that receives a      *)
(* fault sends it, to everyone.                                            *)
LEMMA ReceiveLatching ==
  ASSUME Smooth, Smooth', Latching, NEW p \in Participants, Receive(p) PROVE Latching'
<1>1. TypeOK /\ Staged /\ Watching /\ NoFrameLost' /\ "controller" \in Participants
  BY DEF Smooth, Basis, Inv, Participants
<1>2. stage = "process" /\ UNCHANGED stage
  BY <1>1, Taken
<1>. DEFINE g == Head(rx[p])
<1>3. CASE p \in Devices
  <2>1. UNCHANGED phase /\ \E fs : Speaks(p, fs) /\ Heard(p, g)
    BY <1>1, <1>3, DeviceReceives DEF controllerVars
  <2>2. tx'["controller"] = tx["controller"]
    <3>1. "controller" # p
      BY <1>3 DEF Devices
    <3>. QED
      BY <1>1, <2>1, <3>1, SpeaksBuffer
  <2>3. ASSUME NEW d \in Devices
        PROVE  /\ Coming("controller", d, Shutdown(d))' => Coming("controller", d, Shutdown(d))
               /\ Coming("controller", d, Shutdown(d)) =>
                    Coming("controller", d, Shutdown(d))' \/ shutdown_latched'[d]
               /\ shutdown_latched[d] => shutdown_latched'[d]
               /\ shutdown_latched'[d] => shutdown_latched[d] \/ Coming("controller", d, Shutdown(d))
    <3>1. d \in Participants
      BY DEF Participants
    <3>2. /\ Coming("controller", d, Shutdown(d))' => Coming("controller", d, Shutdown(d))
          /\ Coming("controller", d, Shutdown(d)) =>
               Coming("controller", d, Shutdown(d))' \/ (p = d /\ Shutdown(d) = g)
          /\ p = d /\ Shutdown(d) = g => Coming("controller", d, Shutdown(d))
      BY <1>1, <3>1, ReceiveComing
    <3>3. /\ shutdown_latched[d] => shutdown_latched'[d]
          /\ p = d /\ Shutdown(d) = g => shutdown_latched'[d]
          /\ shutdown_latched'[d] => shutdown_latched[d] \/ (p = d /\ Shutdown(d) = g)
      BY <1>1, <1>3, <2>1 DEF Heard, Watching
    <3>. QED
      BY <3>2, <3>3
  <2>4. ASSUME phase # "Faulted", NEW d \in Devices PROVE Spared(d)'
    <3>1. Spared(d)
      BY <2>4 DEF Latching
    <3>. QED
      BY <2>2, <2>3, <3>1 DEF Spared, Has, Shutdown
  <2>5. ASSUME \A d \in Devices : Condemned(d), NEW d \in Devices PROVE Condemned(d)'
    <3>1. Condemned(d)
      BY <2>5
    <3>. QED
      BY <1>2, <2>2, <2>3, <3>1 DEF Condemned, Later, Has, Shutdown
  <2>6. ASSUME \A d \in Devices : Reached(d), NEW d \in Devices PROVE Reached(d)'
    <3>1. Reached(d)
      BY <2>6
    <3>. QED
      BY <2>3, <3>1 DEF Reached
  <2>. QED
    BY <2>1, <2>4, <2>5, <2>6 DEF Latching, Devices
<1>4. CASE p = "controller"
  <2>1. UNCHANGED shutdown_latched
    BY <1>1, <1>4, ControllerReceives DEF watchdogVars
  <2>2. PICK fs : Speaks("controller", fs) /\ Decided(g, fs)
    BY <1>1, <1>4, ControllerReceives
  <2>3. ASSUME NEW d \in Devices
        PROVE  /\ Coming("controller", d, Shutdown(d))' <=> Coming("controller", d, Shutdown(d))
               /\ Has(tx["controller"], Shutdown(d)) => Has(tx'["controller"], Shutdown(d))
               /\ Has(tx'["controller"], Shutdown(d)) =>
                    Has(tx["controller"], Shutdown(d)) \/ Has(fs, Shutdown(d))
               /\ Has(fs, Shutdown(d)) => Has(tx'["controller"], Shutdown(d))
               /\ phase' # "Faulted" => phase # "Faulted" /\ ~Has(fs, Shutdown(d))
               /\ phase # "Faulted" /\ phase' = "Faulted" => Has(fs, Shutdown(d))
    <3>1. d \in Participants /\ d # "controller"
      BY DEF Participants, Devices
    <3>2. Coming("controller", d, Shutdown(d))' <=> Coming("controller", d, Shutdown(d))
      BY <1>1, <1>4, <3>1, ReceiveComing
    <3>3. /\ phase' # "Faulted" => phase # "Faulted" /\ ~Has(fs, Shutdown(d))
          /\ phase # "Faulted" /\ phase' = "Faulted" => Has(fs, Shutdown(d))
      BY <2>2, DecidedShutdown DEF Smooth
    <3>. QED
      BY <1>1, <2>2, <3>2, <3>3, SpeaksBuffer
  <2>4. ASSUME phase' # "Faulted", NEW d \in Devices PROVE Spared(d)'
    <3>1. phase # "Faulted"
      BY <2>3, <2>4
    <3>2. Spared(d)
      BY <3>1 DEF Latching
    <3>. QED
      BY <2>1, <2>3, <2>4, <3>2 DEF Spared, Has, Shutdown
  <2>5. ASSUME phase # "Faulted", phase' = "Faulted", NEW d \in Devices PROVE Condemned(d)'
    <3>1. Spared(d)
      BY <2>5 DEF Latching
    <3>. QED
      BY <1>2, <2>1, <2>3, <2>5, <3>1 DEF Spared, Condemned, Later, Has, Shutdown
  <2>6. ASSUME \A d \in Devices : Condemned(d), NEW d \in Devices PROVE Condemned(d)'
    <3>1. Condemned(d)
      BY <2>6
    <3>. QED
      BY <1>2, <2>1, <2>3, <3>1 DEF Condemned, Later, Has, Shutdown
  <2>7. ASSUME \A d \in Devices : Reached(d), NEW d \in Devices PROVE Reached(d)'
    <3>1. Reached(d)
      BY <2>7
    <3>. QED
      BY <2>1, <2>3, <3>1 DEF Reached
  <2>. QED
    BY <2>4, <2>5, <2>6, <2>7 DEF Latching, Devices
<1>. QED
  BY <1>3, <1>4 DEF Participants

(* At the end of a pass whatever was to reach the devices has.             *)
LEMMA EndsLatching ==
  ASSUME Smooth, Smooth', Latching, EndPass \/ NextTick PROVE Latching'
<1>1. CASE EndPass
  <2>1. TypeOK /\ Staged /\ Origins
    BY DEF Smooth, Basis, Inv
  <2>2. /\ stage = "process" /\ stage' = "idle" /\ \A p \in Participants : rx[p] = <<>>
        /\ UNCHANGED <<controllerVars, watchdogVars, tx>>
    BY <1>1, <2>1, PassEnds
  <2>3. UNCHANGED <<phase, shutdown_latched, tx>>
    BY <2>2 DEF controllerVars, watchdogVars
  <2>4. ASSUME NEW d \in Devices
        PROVE  ~Coming("controller", d, Shutdown(d)) /\ ~Coming("controller", d, Shutdown(d))'
    <3>1. d \in Participants /\ "controller" \in Participants
      BY DEF Participants
    <3>2. ~Coming("controller", d, Shutdown(d))'
      BY <2>2, <3>1, NothingYetNext DEF Participants, Shutdown, Smooth, Basis
    <3>. QED
      BY <2>1, <2>2, <3>1, <3>2, NothingLeft
  <2>5. ASSUME NEW d \in Devices
        PROVE  /\ Spared(d) => Spared(d)'
               /\ Condemned(d) => Condemned(d)'
               /\ Reached(d) => Reached(d)'
    BY <2>2, <2>3, <2>4 DEF Spared, Condemned, Reached, Later, Has, Shutdown
  <2>. QED
    BY <2>3, <2>5 DEF Latching, Devices
<1>2. CASE NextTick
  BY <1>2 DEF NextTick, controllerVars, watchdogVars, Latching, Spared, Condemned, Reached,
     Coming, Later, Has, From, Shutdown, Devices
<1>. QED
  BY <1>1, <1>2

-----------------------------------------------------------------------------
(* The timetable.  While the controller waits, a frame of the part's       *)
(* journey is on its way, and the passes made since the part was requested *)
(* are the hops that frame has behind it.                                  *)
Hop(f) ==
  CASE f = Request -> 0
    [] f \in {ConveyorStatus("PartArrived"), ConveyorStatus("ConveyorFault")} -> 1
    [] f \in {VisionStatus("VisionFault"), VisionStatus("VisionTimeout"), Accepting, Rejecting} -> 2
    [] f \in {Command("robot.Pick"), Command("robot.RemoveReject")} -> 3
    [] f \in {RobotStatus("PickCompleted"), RobotStatus("PickFailed"),
              RobotStatus("RejectRemoved")} -> 4
    [] f = Command("robot.Place") -> 5
    [] OTHER -> 6

Elapsed == passes - (7 * accepted + 5 * rejected)
Waitings == {"WaitingInspection", "WaitingPickComplete", "WaitingPlaceComplete",
             "WaitingRejectRemoval"}

Draws(f) == IF f \in FailureFrames THEN \E e \in Events : drawn = {e} ELSE drawn = {}

Travels(s, r, f) ==
  /\ f \in Journey(phase) /\ f \in Sent(s) /\ f \in For(r)
  /\ \/ Coming(s, r, f) /\ Elapsed = Hop(f)
     \/ Later(s, f) /\ Elapsed = IF stage = "process" THEN Hop(f) - 1 ELSE Hop(f)
  /\ Draws(f)

NoPartYet ==
  /\ step = "controller" /\ passes = 0 /\ accepted = 0 /\ rejected = 0
  /\ drawn = {} /\ ~bootstrapped

NoPartLeft ==
  /\ drawn = {} /\ Elapsed \in {-1, 0, 1}
  /\ Elapsed = -1 => stage = "process"
  /\ Elapsed = 1 => step = "endOfTick"
  /\ step = "firstPass" => Elapsed = -1

PartFailed == Flying(Tracked) = 0 /\ \E e \in Events : drawn = {e}

Journeying ==
  /\ phase \in Waitings => \E s, r \in Participants : \E f : Travels(s, r, f)
  /\ phase = "Boot" => NoPartYet
  /\ phase = "Finished" => NoPartLeft
  /\ phase = "Faulted" => PartFailed

(* Whoever sends a frame is not whom it is for.                            *)
LEMMA ForOthers ==
  ASSUME NEW s \in Participants, NEW r \in Participants, NEW f \in Sent(s), f \in For(r)
  PROVE  s # r
<1>1. /\ Sent("controller") \cap For("controller") = {}
      /\ Sent("conveyor") \cap For("conveyor") = {}
      /\ Sent("vision") \cap For("vision") = {}
      /\ Sent("robot") \cap For("robot") = {}
  BY DEF Sent, For, Refusals, Accepting, Rejecting, Command, CommandFrames, ControllerHeartbeat,
     ConveyorStatus, VisionStatus, RobotStatus, Commands, RobotCommands, ConveyorCommands,
     VisionCommands, NoStatus
<1>. QED
  BY <1>1 DEF Participants, Devices

(* The answer of a device takes the part one hop on.                       *)
LEMMA NextHop ==
  ASSUME NEW ph \in Phases, NEW d \in Devices, NEW f \in Journey(ph) \cap For(d), NEW h \in Sequels(f)
  PROVE  /\ f \notin Strays /\ f \notin FailureFrames
         /\ h \in Journey(ph) /\ h \in Sent(d) /\ Hop(h) = Hop(f) + 1
         /\ \E r \in Participants : h \in For(r)
<1>1. Participants = {"controller", "conveyor", "vision", "robot"}
  BY DEF Participants, Devices
<1>2. CASE d = "conveyor"
  <2>1. f = Request /\ ph = "WaitingInspection"
    BY <1>2 DEF Journey, For, Phases, Requests, Refusals, Request, Accepting, Rejecting, Command,
       VisionStatus, ConveyorStatus, RobotStatus, NoStatus
  <2>2. h \in {ConveyorStatus("PartArrived"), ConveyorStatus("ConveyorFault")}
    BY <2>1 DEF Sequels, Request, Command, ConveyorStatus
  <2>3. h \in Sent(d) /\ h \in Journey(ph)
    BY <1>2, <2>1, <2>2 DEF Sent, ConveyorMessages, Journey, Requests, Refusals
  <2>4. Hop(f) = 0 /\ Hop(h) = 1 /\ f \notin Strays /\ f \notin FailureFrames
    BY <2>1, <2>2 DEF Hop, Strays, FailureFrames, Refusals, Request, Command, ConveyorStatus,
       VisionStatus, RobotStatus, NoStatus, Accepting, Rejecting
  <2>5. h \in For("vision") \/ h \in For("controller")
    BY <2>2 DEF For, Refusals
  <2>. QED
    BY <1>1, <2>3, <2>4, <2>5
<1>3. CASE d = "vision"
  <2>1. f = ConveyorStatus("PartArrived") /\ ph = "WaitingInspection"
    BY <1>3 DEF Journey, For, Phases, Requests, Refusals, Accepting, Rejecting, Command,
       VisionStatus, ConveyorStatus, RobotStatus, NoStatus
  <2>2. h \in {Accepting, Rejecting, VisionStatus("VisionFault"), VisionStatus("VisionTimeout")}
    BY <2>1 DEF Sequels, Request, Command, ConveyorStatus
  <2>3. h \in Sent(d) /\ h \in Journey(ph)
    BY <1>3, <2>1, <2>2 DEF Sent, VisionMessages, Journey, Refusals, Accepting, Rejecting
  <2>4. Hop(f) = 1 /\ Hop(h) = 2 /\ f \notin Strays /\ f \notin FailureFrames
    BY <2>1, <2>2 DEF Hop, Strays, FailureFrames, Refusals, Request, Command, ConveyorStatus,
       VisionStatus, RobotStatus, NoStatus, Accepting, Rejecting
  <2>5. h \in For("controller")
    BY <2>2 DEF For, Refusals
  <2>. QED
    BY <1>1, <2>3, <2>4, <2>5
<1>4. CASE d = "robot"
  <2>1. \/ f = Command("robot.Pick") /\ ph = "WaitingPickComplete"
        \/ f = Command("robot.Place") /\ ph = "WaitingPlaceComplete"
        \/ f = Command("robot.RemoveReject") /\ ph = "WaitingRejectRemoval"
    BY <1>4 DEF Journey, For, Phases, Requests, Refusals, Accepting, Rejecting, Command,
       VisionStatus, ConveyorStatus, RobotStatus, NoStatus
  <2>2. h \in Results(f)
    BY <2>1 DEF Sequels, Request, Command, ConveyorStatus
  <2>3. \/ /\ f = Command("robot.Pick") /\ ph = "WaitingPickComplete"
           /\ h \in {RobotStatus("PickCompleted"), RobotStatus("PickFailed")}
        \/ /\ f = Command("robot.Place") /\ ph = "WaitingPlaceComplete"
           /\ h \in {RobotStatus("PlaceCompleted"), RobotStatus("MotionFailed")}
        \/ /\ f = Command("robot.RemoveReject") /\ ph = "WaitingRejectRemoval"
           /\ h \in {RobotStatus("RejectRemoved"), RobotStatus("PickFailed")}
    BY <2>1, <2>2 DEF Results, Command
  <2>4. h \in Sent(d) /\ h \in Journey(ph)
    BY <1>4, <2>3 DEF Sent, RobotMessages, Journey
  <2>5. Hop(h) = Hop(f) + 1 /\ f \notin Strays /\ f \notin FailureFrames
    BY <2>3 DEF Hop, Strays, FailureFrames, Refusals, Request, Command, ConveyorStatus,
       VisionStatus, RobotStatus, NoStatus, Accepting, Rejecting
  <2>6. h \in For("controller")
    BY <2>3 DEF For
  <2>. QED
    BY <1>1, <2>4, <2>5, <2>6
<1>. QED
  BY <1>2, <1>3, <1>4 DEF Devices

(* So does the controller's answer.                                        *)
LEMMA NextCommand ==
  ASSUME NEW f, NEW from, NEW h, NEW to, Moves(f, from, h, to)
  PROVE  /\ f \notin FailureFrames /\ to \in Waitings /\ to # "Faulted" /\ from \in Waitings
         /\ h \in Journey(to) /\ h \in Sent("controller") /\ h \in For("robot")
         /\ Hop(h) = Hop(f) + 1
<1>1. \/ /\ f \in {Accepting, Rejecting} /\ Hop(f) = 2
         /\ h \in {Command("robot.Pick"), Command("robot.RemoveReject")} /\ Hop(h) = 3
      \/ f = RobotStatus("PickCompleted") /\ Hop(f) = 4 /\ h = Command("robot.Place") /\ Hop(h) = 5
  BY DEF Moves, Hop, Request, Command, ConveyorStatus, VisionStatus, RobotStatus, NoStatus,
     Accepting, Rejecting
<1>2. Hop(h) = Hop(f) + 1
  BY <1>1
<1>3. f \notin FailureFrames
  BY <1>1 DEF FailureFrames, Refusals, Accepting, Rejecting, ConveyorStatus, VisionStatus, RobotStatus
<1>4. h \in Sent("controller") /\ h \in For("robot")
  BY <1>1 DEF Sent, For, CommandFrames, Commands, RobotCommands
<1>5. to \in Waitings /\ from \in Waitings /\ h \in Journey(to)
  BY DEF Moves, Waitings, Journey
<1>. QED
  BY <1>2, <1>3, <1>4, <1>5 DEF Waitings

(* The phases in which there is a part in the line.                        *)
LEMMA WaitingPhases ==
  /\ \A ph \in Phases : ph \in Waitings <=> ph \notin {"Boot", "Finished", "Faulted"}
  /\ \A ph \in Phases \ Waitings : Journey(ph) = {}
  /\ \A ph \in Waitings : Journey(ph) \cap Strays = {}
  /\ Request \in Journey("WaitingInspection") /\ Request \in Sent("controller")
  /\ Request \in For("conveyor") /\ Hop(Request) = 0 /\ Request \notin FailureFrames
<1>1. \A ph \in Phases \ Waitings : Journey(ph) = {}
  BY DEF Journey, Waitings, Phases
<1>2. \A ph \in Waitings : Journey(ph) \cap Strays = {}
  BY DEF Journey, Waitings, Strays, Requests, Refusals, Accepting, Rejecting, Command,
     ConveyorStatus, VisionStatus, RobotStatus, NoStatus
<1>3. Request \in Journey("WaitingInspection") /\ Request \in For("conveyor") /\ Hop(Request) = 0
  BY DEF Request, Journey, Requests, For, Hop, Accepting, Rejecting, Command, ConveyorStatus,
     VisionStatus, RobotStatus
<1>4. Request \in Sent("controller") /\ Request \notin FailureFrames
  BY DEF Request, Sent, CommandFrames, Commands, ConveyorCommands, FailureFrames, Refusals,
     Command, ConveyorStatus, VisionStatus, RobotStatus, NoStatus
<1>. QED
  BY <1>1, <1>2, <1>3, <1>4 DEF Waitings, Phases

(* The numbers of a timetable.                                             *)
LEMMA HopNumbers ==
  ASSUME Basis
  PROVE  /\ \A f : Hop(f) \in {0, 1, 2, 3, 4, 5, 6}
         /\ passes \in Nat /\ accepted \in Nat /\ rejected \in Nat /\ Elapsed \in Int
<1>1. passes \in Nat /\ accepted \in Nat /\ rejected \in Nat
  BY DEF Basis, Inv, TypeOK, Watching
<1>2. \A f : Hop(f) \in {0, 1, 2, 3, 4, 5, 6}
  BY DEF Hop
<1>. QED
  BY <1>1, <1>2 DEF Elapsed

(* Whatever a frame of the part does, it is one of these.                  *)
LEMMA TravelsStill ==
  ASSUME UNCHANGED phase, NEW s, NEW r, NEW f, Travels(s, r, f), drawn' = drawn,
         \/ Coming(s, r, f)' /\ Elapsed' = Hop(f)
         \/ Later(s, f)' /\ Elapsed' = IF stage' = "process" THEN Hop(f) - 1 ELSE Hop(f)
  PROVE  Travels(s, r, f)'
<1>1. Draws(f)'
  BY DEF Travels, Draws
<1>2. f \in Journey(phase') /\ f \in Sent(s) /\ f \in For(r)
  BY DEF Travels
<1>. QED
  BY <1>1, <1>2 DEF Travels, Sent, For, Journey, Hop

(* Nothing of the part is left in a faulted line.                          *)
LEMMA StaysFailed ==
  ASSUME TypeOK, TypeOK', PartFailed, Flying(Tracked)' <= Flying(Tracked), UNCHANGED drawn
  PROVE  PartFailed'
<1>1. Flying(Tracked)' \in Nat
  BY FlyingNext
<1>2. Flying(Tracked)' = 0
  BY <1>1 DEF PartFailed
<1>. QED
  BY <1>2 DEF PartFailed

(* The controller requests the first part, or lets go what waits.          *)
LEMMA ControllerJourneying ==
  ASSUME DeviceHeartbeatTimeoutTicks > 1, Smooth, Smooth', Beating, Journeying, ControllerStep
  PROVE  Journeying'
<1>1. /\ ~Stopped /\ stage = "idle" /\ stage' = "drain"
      /\ UNCHANGED <<drawn, rx, bus, passes, progress>>
  BY ControllerOnTime
<1>2. PICK fs : /\ Speaks("controller", fs)
                /\ \/ /\ bootstrapped /\ fs = <<ControllerHeartbeat>> /\ UNCHANGED phase
                   \/ /\ ~bootstrapped /\ fs = Bootstrap /\ phase' = "WaitingInspection"
  BY ControllerOnTime
<1>3. /\ TypeOK /\ Staged /\ Tally /\ NoFrameLost' /\ "controller" \in Participants
      /\ "conveyor" \in Participants /\ phase \in Phases
  BY DEF Smooth, Basis, Inv, Participants, Devices, TypeOK
<1>4. UNCHANGED <<accepted, rejected>> /\ Elapsed' = Elapsed
  BY <1>1 DEF progress, Elapsed
<1>5. CASE bootstrapped /\ fs = <<ControllerHeartbeat>> /\ UNCHANGED phase
  <2>1. phase \in Waitings
    BY <1>1, <1>3, <1>5, WaitingPhases DEF Journeying, NoPartYet, Stopped
  <2>2. PICK s \in Participants, r \in Participants : \E f : Travels(s, r, f)
    BY <2>1 DEF Journeying
  <2>3. PICK f : Travels(s, r, f)
    BY <2>2
  <2>4. Has(tx[s], f) /\ Elapsed = Hop(f)
    BY <1>1, <1>3, <2>3, NothingYet DEF Travels, Later
  <2>5. Coming(s, r, f)'
    BY <1>1, <1>2, <1>3, <2>4, SpeaksBuffer, PassBegins
  <2>6. Travels(s, r, f)'
    BY <1>1, <1>4, <1>5, <2>3, <2>4, <2>5, TravelsStill
  <2>. QED
    BY <1>5, <2>1, <2>6 DEF Journeying, Waitings
<1>6. CASE ~bootstrapped /\ fs = Bootstrap /\ phase' = "WaitingInspection"
  <2>1. NoPartYet
    BY <1>1, <1>3, <1>6 DEF Tally, Journeying, Stopped
  <2>2. Elapsed' = 0 /\ drawn' = {}
    BY <1>1, <1>4, <2>1 DEF NoPartYet, Elapsed
  <2>3. Has(tx'["controller"], Request)
    BY <1>2, <1>3, <1>6, TickTexts, SpeaksBuffer
  <2>4. Coming("controller", "conveyor", Request)'
    BY <1>1, <1>3, <2>3, PassBegins DEF Request
  <2>5. Draws(Request)'
    BY <2>2, WaitingPhases DEF Draws, Request, FailureFrames
  <2>6. Travels("controller", "conveyor", Request)'
    BY <1>6, <2>2, <2>4, <2>5, WaitingPhases DEF Travels, Request, Sent, For, Journey, Hop
  <2>. QED
    BY <1>3, <1>6, <2>6 DEF Journeying, Participants, Devices
<1>. QED
  BY <1>2, <1>5, <1>6

(* The last device that ticks lets go what waits.                          *)
LEMMA DeviceJourneying ==
  ASSUME ControllerHeartbeatTimeoutTicks > 1, Smooth, Smooth', Beating, Journeying, DeviceStep
  PROVE  Journeying'
<1>1. /\ step \in Devices /\ stage = "idle" /\ stage' \in {"idle", "drain"}
      /\ step' \notin {"firstPass", "endOfTick"}
      /\ UNCHANGED <<controllerVars, rx, bus, passes, drawn>>
      /\ \A s \in Participants : \A f : Has(tx[s], f) => Has(tx'[s], f)
  BY DeviceOnTime
<1>2. TypeOK /\ TypeOK' /\ Staged
  BY DEF Smooth, Basis, Inv
<1>3. UNCHANGED <<phase, accepted, rejected>> /\ Elapsed' = Elapsed
  BY <1>1 DEF controllerVars, Elapsed
<1>4. ASSUME phase \in Waitings
      PROVE  \E s, r \in Participants : \E f : Travels(s, r, f)'
  <2>1. PICK s \in Participants, r \in Participants : \E f : Travels(s, r, f)
    BY <1>4 DEF Journeying
  <2>2. PICK f : Travels(s, r, f)
    BY <2>1
  <2>3. Has(tx[s], f) /\ Elapsed = Hop(f)
    BY <1>1, <1>2, <2>2, NothingYet DEF Travels, Later
  <2>4. CASE stage' = "idle"
    <3>1. Later(s, f)'
      BY <1>1, <2>3, <2>4 DEF Later, Has
    <3>. QED
      BY <1>1, <1>3, <2>2, <2>3, <2>4, <3>1, TravelsStill
  <2>5. CASE stage' = "drain"
    <3>1. Coming(s, r, f)'
      BY <1>1, <1>2, <2>3, <2>5, PassBegins
    <3>. QED
      BY <1>1, <1>3, <2>2, <2>3, <3>1, TravelsStill
  <2>. QED
    BY <1>1, <2>4, <2>5
<1>5. phase # "Boot"
  BY <1>1 DEF Journeying, NoPartYet, Devices
<1>6. phase = "Finished" => NoPartLeft'
  <2>1. phase = "Finished" => NoPartLeft /\ stage # "process" /\ step # "endOfTick"
    BY <1>1 DEF Journeying, Devices
  <2>. QED
    BY <1>1, <1>3, <2>1 DEF NoPartLeft
<1>7. phase = "Faulted" => PartFailed'
  <2>1. PICK p \in Participants : \E fs, g : Says(p, fs, g) /\ g \notin Tracked
    BY <1>2, DeviceTickSays
  <2>2. PICK fs, g : Says(p, fs, g) /\ g \notin Tracked
    BY <2>1
  <2>3. Flying(Tracked)' <= Flying(Tracked)
    BY <1>1, <1>2, <2>2, TickCount, FlyingTyped, FlyingNext, NothingSent
  <2>. QED
    BY <1>1, <1>2, <2>3, StaysFailed DEF Journeying
<1>. QED
  BY <1>3, <1>4, <1>5, <1>6, <1>7 DEF Journeying, Waitings, Participants, Devices

(* What is carried keeps travelling.                                       *)
LEMMA TransportJourneying ==
  ASSUME Smooth, Smooth', Journeying, Transport PROVE Journeying'
<1>1. /\ stage \in {"drain", "distribute"} /\ stage' # "idle"
      /\ UNCHANGED <<controllerVars, devices, drawn, step, passes>>
  BY Carried
<1>2. TypeOK /\ TypeOK' /\ Staged /\ NoTwice
  BY DEF Smooth, Basis, Inv
<1>3. UNCHANGED <<phase, accepted, rejected>> /\ Elapsed' = Elapsed
  BY <1>1 DEF controllerVars, Elapsed
<1>4. ASSUME phase \in Waitings
      PROVE  \E s, r \in Participants : \E f : Travels(s, r, f)'
  <2>1. PICK s \in Participants, r \in Participants : \E f : Travels(s, r, f)
    BY <1>4 DEF Journeying
  <2>2. PICK f : Travels(s, r, f)
    BY <2>1
  <2>3. Coming(s, r, f) /\ Elapsed = Hop(f) /\ f \in Sent(s) /\ f \in For(r)
    BY <1>1, <2>2 DEF Travels, Later
  <2>4. Coming(s, r, f)'
    BY <2>3, ForOthers, Onward
  <2>. QED
    BY <1>1, <1>3, <2>2, <2>3, <2>4, TravelsStill
<1>5. step \in {"firstPass", "secondPass"}
  BY <1>1, <1>2 DEF Staged
<1>6. phase # "Boot"
  BY <1>5 DEF Journeying, NoPartYet
<1>7. phase = "Finished" => NoPartLeft'
  <2>1. phase = "Finished" => NoPartLeft /\ stage # "process"
    BY <1>1 DEF Journeying
  <2>. QED
    BY <1>1, <1>3, <2>1 DEF NoPartLeft
<1>8. Flying(Tracked)' <= Flying(Tracked)
  <2>1. CASE UNCHANGED <<tx, rx, bus>>
    <3>1. Flying(Tracked)' = Flying(Tracked)
      BY <2>1 DEF Flying, Sending, Arriving, HowMany, Entry, Tracked, For, Participants, Devices
    <3>. QED
      BY <1>2, <3>1, FlyingTyped
  <2>2. ASSUME NEW p \in Participants, DrainFrame(p) PROVE Flying(Tracked)' <= Flying(Tracked)
    <3>1. UNCHANGED rx
      BY <2>2 DEF DrainFrame
    <3>2. \A H : Flying(H)' <= Flying(H)
      BY <1>2, <2>2, <3>1, DrainCount
    <3>. QED
      BY <3>2
  <2>3. CASE DistributeFrame
    <3>1. \A H : Flying(H)' <= Flying(H)
      BY <1>2, <2>3, DistributeCount
    <3>. QED
      BY <3>1
  <2>. QED
    BY <2>1, <2>2, <2>3 DEF Transport, DrainDone, DistributeDone
<1>9. phase = "Faulted" => PartFailed'
  BY <1>1, <1>2, <1>8, StaysFailed DEF Journeying
<1>. QED
  BY <1>3, <1>4, <1>6, <1>7, <1>9 DEF Journeying, Waitings, Participants, Devices

(* The count of the passes goes as far as the line does.                   *)
LEMMA PassIsCounted ==
  ASSUME MaxPasses > 7 * RunLength, Smooth, CountPass,
         \/ phase \in Waitings /\ Elapsed <= 5
         \/ phase = "Finished" /\ Elapsed <= 0
  PROVE  passes' = passes + 1
<1>1. /\ passes \in Nat /\ accepted \in Nat /\ rejected \in Nat /\ MaxPasses \in Nat
      /\ RunLength \in Nat \ {0}
  BY HopNumbers, RuntimeAssumption, ControllerAssumption DEF Smooth, RunLength
<1>2. /\ accepted + rejected <= RunLength
      /\ phase \in Waitings => accepted + rejected < RunLength
  BY <1>1 DEF Smooth, Basis, Inv, Tally, Waitings
<1>3. passes < MaxPasses
  BY <1>1, <1>2 DEF Elapsed, Waitings
<1>. QED
  BY <1>3 DEF CountPass

(* The end of a pass is the end of a hop.                                  *)
LEMMA PassJourneying ==
  ASSUME MaxPasses > 7 * RunLength, Smooth, Smooth', Journeying, EndPass
  PROVE  Journeying'
<1>1. TypeOK /\ TypeOK' /\ Staged /\ Origins /\ Basis
  BY DEF Smooth, Basis, Inv
<1>2. /\ stage = "process" /\ stage' = "idle" /\ \A p \in Participants : rx[p] = <<>>
      /\ \/ step = "firstPass" /\ step' = "conveyor"
         \/ step = "secondPass" /\ step' = "endOfTick"
      /\ UNCHANGED <<controllerVars, drawn, tx, rx, bus>>
  BY <1>1, PassEnds
<1>3. UNCHANGED <<phase, accepted, rejected>> /\ CountPass
  BY <1>2 DEF controllerVars, EndPass
<1>4. /\ \A f : Hop(f) \in {0, 1, 2, 3, 4, 5, 6}
      /\ passes \in Nat /\ accepted \in Nat /\ rejected \in Nat /\ Elapsed \in Int
  BY <1>1, HopNumbers
<1>5. passes' = passes + 1 => Elapsed' = Elapsed + 1
  BY <1>3, <1>4 DEF Elapsed
<1>6. ASSUME phase \in Waitings
      PROVE  \E s, r \in Participants : \E f : Travels(s, r, f)'
  <2>1. PICK s \in Participants, r \in Participants : \E f : Travels(s, r, f)
    BY <1>6 DEF Journeying
  <2>2. PICK f : Travels(s, r, f)
    BY <2>1
  <2>3. Has(tx[s], f) /\ Elapsed = Hop(f) - 1
    BY <1>1, <1>2, <2>2, NothingLeft DEF Travels, Later
  <2>4. Elapsed <= 5 /\ Elapsed + 1 = Hop(f)
    BY <1>4, <2>3
  <2>5. Elapsed' = Hop(f)
    BY <1>3, <1>5, <1>6, <2>4, PassIsCounted
  <2>6. Later(s, f)'
    BY <1>2, <2>3 DEF Later, Has
  <2>. QED
    BY <1>2, <1>3, <2>2, <2>5, <2>6, TravelsStill
<1>7. phase # "Boot"
  BY <1>2 DEF Journeying, NoPartYet
<1>8. phase = "Finished" => NoPartLeft'
  <2>. SUFFICES ASSUME phase = "Finished" PROVE NoPartLeft'
    OBVIOUS
  <2>1. /\ NoPartLeft /\ Elapsed \in {-1, 0}
        /\ step = "firstPass" => Elapsed = -1
    BY <1>2 DEF Journeying, NoPartLeft
  <2>2. Elapsed' = Elapsed + 1
    BY <1>3, <1>5, <2>1, PassIsCounted
  <2>. QED
    BY <1>2, <2>1, <2>2 DEF NoPartLeft
<1>9. Flying(Tracked)' <= Flying(Tracked)
  <2>1. Flying(Tracked)' = Flying(Tracked)
    BY <1>2 DEF Flying, Sending, Arriving, HowMany, Entry, Tracked, For, Participants, Devices
  <2>. QED
    BY <1>1, <2>1, FlyingTyped
<1>10. phase = "Faulted" => PartFailed'
  BY <1>1, <1>2, <1>9, StaysFailed DEF Journeying
<1>. QED
  BY <1>3, <1>6, <1>7, <1>8, <1>10 DEF Journeying, Waitings, Participants, Devices

(* Between two ticks nothing moves.                                        *)
LEMMA NextTickJourneying ==
  ASSUME Smooth, Journeying, NextTick PROVE Journeying'
<1>1. /\ step = "endOfTick" /\ phase \notin {"Finished", "Faulted"} /\ phase' = phase
      /\ UNCHANGED <<controllerVars, drawn, tx, rx, bus, stage, passes>>
  BY DEF NextTick, controllerVars, Stopped
<1>2. UNCHANGED <<accepted, rejected>> /\ Elapsed' = Elapsed
  BY <1>1 DEF controllerVars, Elapsed
<1>3. phase # "Boot"
  BY <1>1 DEF Journeying, NoPartYet
<1>4. ASSUME phase \in Waitings
      PROVE  \E s, r \in Participants : \E f : Travels(s, r, f)'
  <2>1. PICK s \in Participants, r \in Participants : \E f : Travels(s, r, f)
    BY <1>4 DEF Journeying
  <2>2. PICK f : Travels(s, r, f)
    BY <2>1
  <2>3. (Coming(s, r, f)' <=> Coming(s, r, f)) /\ (Later(s, f)' <=> Later(s, f))
    BY <1>1 DEF Coming, Later, Has, From
  <2>4. Travels(s, r, f)'
    BY <1>1, <1>2, <2>2, <2>3, TravelsStill DEF Travels
  <2>. QED
    BY <2>4
<1>. QED
  BY <1>1, <1>3, <1>4 DEF Journeying, Waitings, Participants, Devices

-----------------------------------------------------------------------------
(* The journey when a frame is received.                                   *)

(* One that waits to be sent, ...                                          *)
LEMMA WaitingFlies ==
  ASSUME TypeOK, NEW s \in Participants, NEW f, Has(tx[s], f)
  PROVE  Sending({f}) >= 1
<1>1. tx[s] \in Seq(Frame)
  BY Buffers
<1>2. PICK i \in DOMAIN tx[s] : tx[s][i] = f
  BY DEF Has
<1>3. HowMany(tx[s], {f}) >= 1
  BY <1>1, <1>2, CountSome
<1>. DEFINE a(d) == HowMany(tx[d], {f})
<1>4. /\ Sending({f}) = a("controller") + a("conveyor") + a("vision") + a("robot")
      /\ \A d \in Participants : a(d) \in Nat
      /\ a(s) >= 1
  BY <1>3, CountsNat DEF Sending
<1>. HIDE DEF a
<1>. QED
  BY <1>4 DEF Participants, Devices

(* ... and one that can be received, is in flight.                         *)
LEMMA ReceivedFlies ==
  ASSUME TypeOK, NEW r \in Participants, NEW f \in For(r), Has(rx[r], f)
  PROVE  Arriving({f}) >= 1
<1>1. rx[r] \in Seq(Frame)
  BY Buffers
<1>2. PICK i \in DOMAIN rx[r] : rx[r][i] = f
  BY DEF Has
<1>3. HowMany(rx[r], {f} \cap For(r)) >= 1
  BY <1>1, <1>2, CountSome
<1>. DEFINE a(d) == HowMany(rx[d], {f} \cap For(d))
<1>4. /\ Arriving({f}) = a("controller") + a("conveyor") + a("vision") + a("robot")
      /\ \A d \in Participants : a(d) \in Nat
      /\ a(r) >= 1
  BY <1>3, CountsNat DEF Arriving
<1>. HIDE DEF a
<1>. QED
  BY <1>4 DEF Participants, Devices

(* The frame of the part is received by whom it is for, and nothing else   *)
(* that is received is for who receives it.                                *)
LEMMA OnlyIt ==
  ASSUME Smooth, stage = "process", phase \in Waitings,
         NEW s \in Participants, NEW r \in Participants, NEW f, Travels(s, r, f),
         NEW p \in Participants, NEW g, Has(rx[p], g), g \in For(p)
  PROVE  p = r /\ g = f /\ Coming(s, r, f) /\ Elapsed = Hop(f)
<1>1. TypeOK /\ Staged /\ OneOfThisPart /\ phase # "Faulted"
  BY DEF Smooth, Basis, Inv, Waitings
<1>2. f \in For(r) /\ f \in Tracked /\ g \in Tracked
  BY DEF Travels, Tracked
<1>3. \A H : Sending(H) \in Nat /\ Arriving(H) \in Nat /\ HowMany(bus, Entry(H)) \in Nat
  BY <1>1, FlyingNat, CountsNat
<1>4. Arriving({g}) >= 1
  BY <1>1, ReceivedFlies
<1>5. \/ Coming(s, r, f) /\ Elapsed = Hop(f) /\ Arriving({f}) >= 1
      \/ Sending({f}) >= 1
  <2>1. CASE Coming(s, r, f) /\ Elapsed = Hop(f)
    <3>1. Has(rx[r], f)
      BY <1>1, <2>1, HasNone DEF Coming, Staged
    <3>. QED
      BY <1>1, <1>2, <2>1, <3>1, ReceivedFlies
  <2>2. CASE Later(s, f)
    BY <1>1, <2>2, WaitingFlies DEF Later
  <2>. QED
    BY <2>1, <2>2 DEF Travels
<1>6. Flying({g}) > 0 /\ Flying({f}) >= 1
  BY <1>3, <1>4, <1>5 DEF Flying
<1>7. \A H \in SUBSET Tracked : Flying(H) <= Is(g, H)
  BY <1>1, <1>2, <1>6, OnlyFrame
<1>8. f = g /\ Flying({f}) <= 1
  <2>1. Flying({f}) <= Is(g, {f})
    BY <1>2, <1>7
  <2>2. Flying({f}) \in Nat
    BY <1>1, FlyingTyped
  <2>. QED
    BY <1>6, <2>1, <2>2 DEF Is
<1>9. ~(Sending({f}) >= 1)
  BY <1>3, <1>4, <1>8 DEF Flying
<1>10. p = r
  BY <1>2, <1>8, ForOne
<1>. QED
  BY <1>5, <1>8, <1>9, <1>10

(* Frames that are not for who receives them make up no journey, and       *)
(* nobody takes note of them.                                              *)
LEMMA PassedBy ==
  ASSUME Smooth, Smooth', NEW p \in Participants, Receive(p), Head(rx[p]) \notin For(p)
  PROVE  /\ \A H \in SUBSET Tracked : Flying(H)' <= Flying(H)
         /\ Flying(Tracked)' <= Flying(Tracked)
         /\ UNCHANGED <<phase, progress, last_result>>
<1>. DEFINE f == Head(rx[p])
<1>1. TypeOK /\ TypeOK'
  BY DEF Smooth, Basis, Inv
<1>2. /\ rx[p] # <<>> /\ f \in Frame /\ rx' = [rx EXCEPT ![p] = Tail(@)] /\ UNCHANGED bus
  BY <1>1, Taken
<1>3. ASSUME NEW fs, NEW g, Says(p, fs, g), g \notin Tracked, NEW H \in SUBSET Tracked
      PROVE  Flying(H)' <= Flying(H)
  <2>1. Flying(H)' + Is(f, H \cap For(p)) <= Flying(H) + Is(g, H)
    BY <1>1, <1>2, <1>3, HandleCount
  <2>2. Is(g, H) = 0 /\ Is(f, H \cap For(p)) \in Nat
    BY <1>3 DEF Is
  <2>3. Flying(H) \in Nat /\ Flying(H)' \in Nat
    BY <1>1, FlyingTyped, FlyingNext
  <2>. QED
    BY <2>1, <2>2, <2>3
<1>4. /\ UNCHANGED <<phase, progress, last_result>>
      /\ \E fs, g : Says(p, fs, g) /\ g \notin Tracked
  <2>1. CASE p = "conveyor"
    <3>1. /\ ConveyorReceive(f) /\ f # Command("conveyor.RequestPartArrived")
          /\ UNCHANGED <<controllerVars, visionVars>>
      BY <2>1 DEF Receive, For
    <3>. QED
      BY <1>1, <1>2, <2>1, <3>1, ConveyorSays DEF controllerVars, visionVars, progress
  <2>2. CASE p = "vision"
    <3>1. VisionReceive(f) /\ f # ConveyorStatus("PartArrived") /\ UNCHANGED controllerVars
      BY <2>2 DEF Receive, For
    <3>2. PICK fs, g : Says("vision", fs, g) /\ g \notin Tracked /\ UNCHANGED last_result
      BY <1>1, <1>2, <2>2, <3>1, VisionSays
    <3>. QED
      BY <2>2, <3>1, <3>2 DEF controllerVars, progress
  <2>3. CASE p = "robot"
    <3>1. RobotReceive(f) /\ Results(f) = {} /\ UNCHANGED <<controllerVars, visionVars>>
      BY <2>3 DEF Receive, For, Results
    <3>. QED
      BY <1>1, <1>2, <2>3, <3>1, RobotSays DEF controllerVars, visionVars, progress
  <2>4. CASE p = "controller"
    <3>1. ControllerReceive(f) /\ UNCHANGED visionVars
      BY <2>4 DEF Receive, Devices
    <3>2. f \notin Faults /\ ~Done(f) /\ \A ph, h, qh : ~Moves(f, ph, h, qh)
      BY <2>4 DEF For, Faults, RobotFailures, Done, Moves
    <3>3. PICK fs, g : /\ Says("controller", fs, g) /\ g \notin Tracked
                       /\ UNCHANGED <<phase, progress>>
      BY <1>1, <1>2, <3>1, <3>2, ControllerReceiveSays
    <3>. QED
      BY <2>4, <3>1, <3>3 DEF visionVars
  <2>. QED
    BY <2>1, <2>2, <2>3, <2>4 DEF Participants, Devices
<1>5. \A H \in SUBSET Tracked : Flying(H)' <= Flying(H)
  BY <1>3, <1>4
<1>. QED
  BY <1>4, <1>5

(* Nobody receives anything for it when there is no part in the line.      *)
LEMMA NothingForAnyone ==
  ASSUME Smooth, Journeying, phase \in {"Finished", "Faulted"},
         NEW p \in Participants, NEW g, Has(rx[p], g)
  PROVE  g \notin For(p)
<1>1. TypeOK /\ OneOfThisPart
  BY DEF Smooth, Basis, Inv
<1>2. Flying(Tracked) = 0
  <2>1. CASE phase = "Finished"
    <3>1. Tracked \ Journey(phase) = Tracked
      BY <2>1 DEF Journey
    <3>. QED
      BY <1>1, <2>1, <3>1 DEF OneOfThisPart
  <2>2. CASE phase = "Faulted"
    BY <2>2 DEF Journeying, PartFailed
  <2>. QED
    BY <2>1, <2>2
<1>3. ASSUME g \in For(p) PROVE FALSE
  <2>1. Arriving({g}) >= 1 /\ {g} \in SUBSET Tracked
    BY <1>1, <1>3, ReceivedFlies DEF Tracked
  <2>2. Flying({g}) <= Flying(Tracked)
    BY <1>1, <2>1, FlyingPart
  <2>3. Sending({g}) \in Nat /\ Arriving({g}) \in Nat /\ HowMany(bus, Entry({g})) \in Nat
    BY <1>1, FlyingNat, CountsNat
  <2>. QED
    BY <1>2, <2>1, <2>2, <2>3 DEF Flying
<1>. QED
  BY <1>3

(* A frame that is not the part's leaves it where it is.                   *)
LEMMA TravelsOn ==
  ASSUME Smooth, NEW p \in Participants, Receive(p), Head(rx[p]) \notin For(p), NEW fs, Speaks(p, fs),
         UNCHANGED <<phase, accepted, rejected, drawn>>,
         NEW s \in Participants, NEW r \in Participants, NEW f, Travels(s, r, f)
  PROVE  Travels(s, r, f)'
<1>1. TypeOK /\ Staged
  BY DEF Smooth, Basis, Inv
<1>2. stage = "process" /\ UNCHANGED <<stage, passes>>
  BY <1>1, Taken
<1>3. Elapsed' = Elapsed
  BY <1>2 DEF Elapsed
<1>4. f \in For(r)
  BY DEF Travels
<1>5. Coming(s, r, f) => Coming(s, r, f)'
  BY <1>1, <1>4, ReceiveComing
<1>6. Later(s, f) => Later(s, f)'
  <2>1. Has(tx[s], f) => Has(tx'[s], f)
    BY <1>1, SpeaksBuffer
  <2>. QED
    BY <1>2, <2>1 DEF Later, Has
<1>. QED
  BY <1>2, <1>3, <1>5, <1>6, TravelsStill DEF Travels

(* A device receives: it passes the part on, or says why not.              *)
LEMMA DeviceHandles ==
  ASSUME Smooth, Smooth', Latching, Journeying, NEW p \in Devices, Receive(p)
  PROVE  Journeying'
<1>. DEFINE g == Head(rx[p])
<1>1. TypeOK /\ TypeOK' /\ Staged /\ Watching /\ NoFrameLost' /\ p \in Participants
  BY DEF Smooth, Basis, Inv, Participants
<1>2. /\ stage = "process" /\ UNCHANGED <<stage, step, passes>> /\ Has(rx[p], g)
  BY <1>1, Taken
<1>3. UNCHANGED controllerVars
  BY <1>1, DeviceReceives
<1>4. PICK fs : Speaks(p, fs) /\ Answered(p, g, fs)
  BY <1>1, DeviceReceives
<1>5. UNCHANGED <<phase, accepted, rejected>> /\ Elapsed' = Elapsed
  BY <1>2, <1>3 DEF controllerVars, Elapsed
<1>6. step \in {"firstPass", "secondPass"} /\ phase # "Boot"
  BY <1>1, <1>2 DEF Staged, Journeying, NoPartYet
<1>7. ASSUME phase \in Waitings
      PROVE  \E s, r \in Participants : \E f : Travels(s, r, f)'
  <2>1. PICK s \in Participants, r \in Participants : \E f : Travels(s, r, f)
    BY <1>7 DEF Journeying
  <2>2. PICK f : Travels(s, r, f)
    BY <2>1
  <2>3. CASE g \notin For(p)
    <3>1. UNCHANGED drawn
      BY <1>4, <2>3 DEF Answered
    <3>2. Travels(s, r, f)'
      BY <1>1, <1>4, <1>5, <2>2, <2>3, <3>1, TravelsOn
    <3>. QED
      BY <3>2
  <2>4. CASE g \in For(p)
    <3>1. p = r /\ g = f /\ Elapsed = Hop(f)
      BY <1>1, <1>2, <1>7, <2>2, <2>4, OnlyIt
    <3>2. f \in Journey(phase) \cap For(p) /\ Draws(f) /\ phase \in Phases
      BY <1>1, <2>2, <3>1 DEF Travels, TypeOK
    <3>3. f \notin Strays /\ phase # "Faulted"
      BY <1>7, <3>2, WaitingPhases DEF Waitings
    <3>4. ~shutdown_latched[p]
      BY <3>3 DEF Latching, Spared
    <3>5. PICK h \in Sequels(f) :
            /\ Has(fs, h)
            /\ IF h \in FailureFrames THEN \E e \in Events : drawn' = drawn \cup {e}
               ELSE UNCHANGED drawn
      BY <1>4, <3>1, <3>2, <3>3, <3>4 DEF Answered
    <3>6. /\ f \notin FailureFrames /\ h \in Journey(phase) /\ h \in Sent(p) /\ Hop(h) = Hop(f) + 1
          /\ \E q \in Participants : h \in For(q)
      BY <3>2, <3>5, NextHop
    <3>7. PICK q \in Participants : h \in For(q)
      BY <3>6
    <3>8. Later(p, h)'
      <4>1. Has(tx'[p], h)
        BY <1>1, <1>4, <3>5, SpeaksBuffer
      <4>. QED
        BY <1>2, <4>1 DEF Later, Has
    <3>9. Elapsed' = Hop(h) - 1
      <4>1. Hop(f) \in {0, 1, 2, 3, 4, 5, 6}
        BY HopNumbers DEF Smooth
      <4>. QED
        BY <1>5, <3>1, <3>6, <4>1
    <3>10. Draws(h)'
      <4>1. drawn = {}
        BY <3>2, <3>6 DEF Draws
      <4>2. IF h \in FailureFrames THEN \E e \in Events : drawn' = {e} ELSE drawn' = {}
        BY <3>5, <4>1
      <4>. QED
        BY <4>2 DEF Draws, FailureFrames
    <3>11. h \in Journey(phase')
      BY <1>5, <3>6
    <3>12. Travels(p, q, h)'
      BY <1>2, <3>6, <3>7, <3>8, <3>9, <3>10, <3>11 DEF Travels, Sent, For, Journey, Hop
    <3>. QED
      BY <1>1, <3>12
  <2>. QED
    BY <2>3, <2>4
<1>8. ASSUME phase \in {"Finished", "Faulted"} PROVE g \notin For(p) /\ UNCHANGED drawn
  <2>1. g \notin For(p)
    BY <1>1, <1>2, <1>8, NothingForAnyone
  <2>. QED
    BY <1>4, <2>1 DEF Answered
<1>9. phase = "Finished" => NoPartLeft'
  BY <1>2, <1>5, <1>8 DEF Journeying, NoPartLeft
<1>10. phase = "Faulted" => PartFailed'
  <2>1. phase = "Faulted" => Flying(Tracked)' <= Flying(Tracked)
    BY <1>1, <1>8, PassedBy
  <2>. QED
    BY <1>1, <1>8, <2>1, StaysFailed DEF Journeying
<1>. QED
  BY <1>5, <1>6, <1>7, <1>9, <1>10 DEF Journeying, Waitings, Participants, Devices

(* The controller receives: it gives the next command, requests the next   *)
(* part, finishes, or stops the line for the failure that was drawn.       *)
LEMMA ControllerHandles ==
  ASSUME Smooth, Smooth', Journeying, Receive("controller")
  PROVE  Journeying'
<1>. DEFINE p == "controller"
            g == Head(rx[p])
<1>1. /\ TypeOK /\ TypeOK' /\ Staged /\ Watching /\ NoFrameLost' /\ OneOfThisPart
      /\ p \in Participants /\ "conveyor" \in Participants /\ "robot" \in Participants
  BY DEF Smooth, Basis, Inv, Participants, Devices
<1>2. /\ stage = "process" /\ UNCHANGED <<stage, step, passes, bus>> /\ Has(rx[p], g) /\ g \in Frame
      /\ rx[p] # <<>> /\ rx' = [rx EXCEPT ![p] = Tail(@)]
  BY <1>1, Taken
<1>3. UNCHANGED drawn
  BY <1>1, ControllerReceives
<1>4. PICK fs : Speaks(p, fs) /\ Decided(g, fs)
  BY <1>1, ControllerReceives
<1>5. ControllerReceive(g)
  BY DEF Receive, Devices
<1>6. step \in {"firstPass", "secondPass"} /\ phase # "Boot"
  BY <1>1, <1>2 DEF Staged, Journeying, NoPartYet
<1>7. \A f : Has(fs, f) => Later(p, f)'
  <2>1. \A f : Has(fs, f) => Has(tx'[p], f)
    BY <1>1, <1>4, SpeaksBuffer
  <2>. QED
    BY <1>2, <2>1 DEF Later, Has
<1>8. g \notin For(p) => UNCHANGED <<phase, progress>>
  BY <1>4 DEF Decided, Faults, RobotFailures, For, Moves, Done
<1>9. CASE phase \in Waitings
  <2>1. PICK s \in Participants, r \in Participants : \E f : Travels(s, r, f)
    BY <1>9 DEF Journeying
  <2>2. PICK f : Travels(s, r, f)
    BY <2>1
  <2>3. CASE g \notin For(p)
    <3>1. UNCHANGED <<phase, accepted, rejected>>
      BY <1>8, <2>3 DEF progress
    <3>2. Travels(s, r, f)'
      BY <1>1, <1>3, <1>4, <2>2, <2>3, <3>1, TravelsOn
    <3>. QED
      BY <1>9, <3>1, <3>2 DEF Journeying, Waitings, Participants, Devices
  <2>4. CASE g \in For(p)
    <3>1. g = f /\ Elapsed = Hop(f) /\ f \in Journey(phase) \cap For(p) /\ Draws(f)
      <4>1. p = r /\ g = f /\ Elapsed = Hop(f)
        BY <1>1, <1>2, <1>9, <2>2, <2>4, OnlyIt
      <4>. QED
        BY <4>1, <2>2 DEF Travels
    <3>2. ~UNCHANGED <<phase, progress>>
      BY <1>1, <1>5, <3>1, Heeded
    <3>3. /\ Hop(f) \in {0, 1, 2, 3, 4, 5, 6}
          /\ passes \in Nat /\ accepted \in Nat /\ rejected \in Nat
      BY HopNumbers DEF Smooth
    <3>4. CASE f \in Faults /\ phase' = "Faulted"
      <4>1. f \in FailureFrames
        <5>1. f \notin Strays
          BY <1>9, <3>1, WaitingPhases
        <5>. QED
          BY <3>4, <5>1 DEF Faults, RobotFailures, Strays, FailureFrames
      <4>2. \E e \in Events : drawn' = {e}
        BY <1>3, <3>1, <4>1 DEF Draws
      <4>3. PICK gs, h : /\ Says(p, gs, h)
                         /\ h \notin Tracked \/ Moves(g, phase, h, phase') \/ Done(g)
        BY <1>1, <1>2, <1>5, ControllerReceiveSays
      <4>4. ~Moves(g, phase, h, phase') /\ ~Done(g)
        BY <3>1, <3>4 DEF Moves, Done, Faults, Refusals, RobotFailures, ConveyorStatus,
           VisionStatus, RobotStatus
      <4>5. Flying(Tracked)' <= Is(h, Tracked)
        BY <1>1, <1>2, <1>9, <2>4, <4>3, Replaced DEF Waitings
      <4>6. Flying(Tracked)' = 0
        BY <1>1, <4>3, <4>4, <4>5, FlyingNext DEF Is
      <4>. QED
        BY <3>4, <4>2, <4>6 DEF Journeying, Waitings, PartFailed
    <3>5. CASE (\E h : fs = <<h>> /\ Moves(f, phase, h, phase')) /\ UNCHANGED progress
      <4>1. PICK h : fs = <<h>> /\ Moves(f, phase, h, phase')
        BY <3>5
      <4>2. /\ f \notin FailureFrames /\ phase' \in Waitings
            /\ h \in Journey(phase') /\ h \in Sent(p) /\ h \in For("robot")
            /\ Hop(h) = Hop(f) + 1
        BY <4>1, NextCommand
      <4>3. Later(p, h)'
        BY <1>7, <4>1 DEF Has
      <4>4. Elapsed' = Hop(h) - 1
        BY <1>2, <3>1, <3>3, <3>5, <4>2 DEF Elapsed, progress
      <4>5. drawn' = {} /\ h \notin FailureFrames
        <5>1. h \notin FailureFrames
          BY <4>1 DEF Moves, FailureFrames, Refusals, Command, ConveyorStatus, VisionStatus,
             RobotStatus, NoStatus
        <5>. QED
          BY <1>3, <3>1, <4>2, <5>1 DEF Draws
      <4>6. Draws(h)'
        BY <4>5 DEF Draws, FailureFrames
      <4>7. Travels(p, "robot", h)'
        BY <1>2, <4>2, <4>3, <4>4, <4>6 DEF Travels, Sent, For, Journey, Hop
      <4>. QED
        BY <1>1, <4>2, <4>7 DEF Journeying, Waitings, Participants, Devices
    <3>6. CASE /\ Done(f)
               /\ \/ fs = <<Command("conveyor.Stop")>> /\ phase' = "Finished"
                  \/ fs = <<Request>> /\ phase' = "WaitingInspection"
      <4>1. Elapsed' = -1
        <5>1. \/ /\ Hop(f) = 6 /\ accepted' = accepted + 1 /\ rejected' = rejected
              \/ /\ Hop(f) = 4 /\ rejected' = rejected + 1 /\ accepted' = accepted
          BY <3>6 DEF Done, Hop, Request, Accepting, Rejecting, Command, ConveyorStatus,
             VisionStatus, RobotStatus
        <5>. QED
          BY <1>2, <3>1, <3>3, <5>1 DEF Elapsed
      <4>2. drawn' = {}
        <5>1. f \notin FailureFrames
          BY <3>6 DEF Done, FailureFrames, Refusals, ConveyorStatus, VisionStatus, RobotStatus
        <5>. QED
          BY <1>3, <3>1, <5>1 DEF Draws
      <4>3. CASE fs = <<Command("conveyor.Stop")>> /\ phase' = "Finished"
        <5>1. NoPartLeft'
          BY <1>2, <1>6, <4>1, <4>2 DEF NoPartLeft
        <5>. QED
          BY <4>3, <5>1 DEF Journeying, Waitings
      <4>4. CASE fs = <<Request>> /\ phase' = "WaitingInspection"
        <5>1. Later(p, Request)'
          BY <1>7, <4>4 DEF Has
        <5>2. Draws(Request)'
          BY <4>2, WaitingPhases DEF Draws, Request, FailureFrames
        <5>3. Travels(p, "conveyor", Request)'
          BY <1>2, <4>1, <4>4, <5>1, <5>2, WaitingPhases
          DEF Travels, Request, Sent, For, Journey, Hop
        <5>. QED
          BY <1>1, <4>4, <5>3 DEF Journeying, Participants, Devices
      <4>. QED
        BY <3>6, <4>3, <4>4
    <3>. QED
      BY <1>4, <3>1, <3>2, <3>4, <3>5, <3>6 DEF Decided
  <2>. QED
    BY <2>3, <2>4
<1>10. CASE phase \in {"Finished", "Faulted"}
  <2>1. g \notin For(p)
    BY <1>1, <1>2, <1>10, NothingForAnyone
  <2>2. UNCHANGED <<phase, accepted, rejected>> /\ Elapsed' = Elapsed
    BY <1>2, <1>8, <2>1 DEF progress, Elapsed
  <2>3. phase = "Finished" => NoPartLeft'
    BY <1>2, <1>3, <2>2 DEF Journeying, NoPartLeft
  <2>4. phase = "Faulted" => PartFailed'
    <3>1. Flying(Tracked)' <= Flying(Tracked)
      BY <1>1, <2>1, PassedBy
    <3>. QED
      BY <1>1, <1>3, <3>1, StaysFailed DEF Journeying
  <2>. QED
    BY <1>10, <2>2, <2>3, <2>4 DEF Journeying, Waitings
<1>. QED
  BY <1>1, <1>6, <1>9, <1>10, WaitingPhases DEF TypeOK

-----------------------------------------------------------------------------
(* The clockwork, as a whole.                                              *)
Clockwork == Booked /\ Beating /\ Latching /\ Journeying

(* Buffers as large as a burst, watchdogs that wait more than a tick, and  *)
(* a count of passes that is not cut off before the run ends.              *)
Geared ==
  /\ QueueCapacity > Burst /\ BusCapacity > Burst
  /\ DeviceHeartbeatTimeoutTicks > 1 /\ ControllerHeartbeatTimeoutTicks > 1
  /\ MaxPasses > 7 * RunLength

(* The books keep everything smooth.                                       *)
LEMMA BookedSmooth == Geared /\ Booked => Smooth
BY LedgerSuffices DEF Geared, Booked, Smooth, Basis, Inv

(* ... also after the step.                                                *)
LEMMA BookedSmoothNext == (Geared /\ Booked => Smooth)'
BY BookedSmooth, PTL

(* A line that has just been set up.                                       *)
LEMMA ClockworkInit == Init => Clockwork
<1>. SUFFICES ASSUME Init PROVE Clockwork
  OBVIOUS
<1>1. Booked
  BY BookedInit
<1>2. /\ phase = "Boot" /\ step = "controller" /\ stage = "idle" /\ passes = 0
      /\ accepted = 0 /\ rejected = 0 /\ drawn = {} /\ ~bootstrapped
      /\ \A d \in Devices : device_misses[d] = 0 /\ heartbeat_misses[d] = 0 /\ ~shutdown_latched[d]
      /\ tx["controller"] = <<>>
  BY DEF Init, ControllerInit, WatchdogInit, Participants
<1>3. Beating
  BY <1>2 DEF Beating, Steady, Stopped, Before, After
<1>4. Latching
  <2>1. \A s, r \in Participants : \A f : ~Coming(s, r, f)
    BY <1>1, <1>2, NothingYet DEF Booked, Basis
  <2>2. \A d \in Devices : Spared(d)
    BY <1>2, <2>1, HasNone DEF Spared, Participants, Devices
  <2>. QED
    BY <1>2, <2>2 DEF Latching
<1>5. Journeying
  BY <1>2 DEF Journeying, NoPartYet, Waitings
<1>. QED
  BY <1>1, <1>3, <1>4, <1>5 DEF Clockwork

(* When nothing happens, nothing changes.                                  *)
LEMMA ClockworkStutter ==
  ASSUME Clockwork, UNCHANGED vars, Booked' PROVE Clockwork'
<1>1. /\ UNCHANGED <<controllerVars, watchdogVars, drawn, tx, rx, bus, stage, step, passes>>
  BY DEF vars
<1>2. UNCHANGED <<phase, accepted, rejected, bootstrapped, device_misses, heartbeat_misses,
                  shutdown_latched>>
  BY <1>1 DEF controllerVars, watchdogVars
<1>3. Beating'
  BY <1>1, <1>2 DEF Clockwork, Beating, Steady, Stopped, Before, After, Coming, Has, From, Alive
<1>4. Latching'
  BY <1>1, <1>2 DEF Clockwork, Latching, Spared, Condemned, Reached, Coming, Later, Has, From, Shutdown
<1>5. Journeying'
  <2>1. ASSUME NEW s \in Participants, NEW r \in Participants, NEW f, Travels(s, r, f)
        PROVE  Travels(s, r, f)'
    BY <1>1, <1>2, <2>1 DEF Travels, Draws, Coming, Later, Has, From, Elapsed
  <2>2. Flying(Tracked)' = Flying(Tracked)
    BY <1>1 DEF Flying, Sending, Arriving, HowMany, Entry, Tracked, For, Sent
  <2>. QED
    BY <1>1, <1>2, <2>1, <2>2 DEF Clockwork, Journeying, NoPartYet, NoPartLeft, PartFailed, Elapsed
<1>. QED
  BY <1>3, <1>4, <1>5 DEF Clockwork

(* Every step keeps it.                                                    *)
LEMMA ClockworkStep ==
  ASSUME Geared, Clockwork, [Next]_vars PROVE Clockwork'
<1>1. Booked'
  BY BookedStep DEF Clockwork
<1>2. Smooth /\ Smooth'
  BY <1>1, BookedSmooth, BookedSmoothNext DEF Clockwork, Geared, Burst
<1>3. Beating /\ Latching /\ Journeying
  BY DEF Clockwork
<1>4. CASE ControllerStep
  BY <1>1, <1>2, <1>3, <1>4, ControllerBeating, ControllerLatching, ControllerJourneying
     DEF Clockwork, Geared
<1>5. CASE DeviceStep
  BY <1>1, <1>2, <1>3, <1>5, DeviceBeating, DeviceLatching, DeviceJourneying
     DEF Clockwork, Geared
<1>6. CASE Transport
  BY <1>1, <1>2, <1>3, <1>6, TransportBeating, TransportLatching, TransportJourneying DEF Clockwork
<1>7. ASSUME NEW p \in Participants, Receive(p) PROVE Clockwork'
  <2>1. Beating' /\ Latching'
    BY <1>2, <1>3, <1>7, ReceiveBeating, ReceiveLatching
  <2>2. Journeying'
    <3>1. CASE p \in Devices
      BY <1>2, <1>3, <1>7, <3>1, DeviceHandles
    <3>2. CASE p = "controller"
      BY <1>2, <1>3, <1>7, <3>2, ControllerHandles
    <3>. QED
      BY <3>1, <3>2 DEF Participants
  <2>. QED
    BY <1>1, <2>1, <2>2 DEF Clockwork
<1>8. CASE EndPass
  BY <1>1, <1>2, <1>3, <1>8, EndsBeating, EndsLatching, PassJourneying DEF Clockwork, Geared
<1>9. CASE NextTick
  BY <1>1, <1>2, <1>3, <1>9, EndsBeating, EndsLatching, NextTickJourneying DEF Clockwork
<1>10. CASE UNCHANGED vars
  BY <1>1, <1>10, ClockworkStutter
<1>. QED
  BY <1>4, <1>5, <1>6, <1>7, <1>8, <1>9, <1>10 DEF Next, RuntimeStep, TickStep

(* So it holds throughout a run.                                           *)
LEMMA ClockworkAlways ==
  ASSUME Geared PROVE Spec => []Clockwork
<1>1. Init => Clockwork
  BY ClockworkInit
<1>2. Clockwork /\ [Next]_vars => Clockwork'
  BY ClockworkStep
<1>. QED
  BY <1>1, <1>2, PTL DEF Spec

-----------------------------------------------------------------------------
(* What follows from it.  No heartbeat is more than a tick late, and a     *)
(* controller that has faulted did so for exactly one injected failure.    *)
THEOREM NoAlarmIsFalse ==
  ASSUME Geared PROVE Spec => []NoFalseAlarm
<1>1. Clockwork => NoFalseAlarm
  <2>. SUFFICES ASSUME Clockwork PROVE NoFalseAlarm
    OBVIOUS
  <2>1. phase = "Faulted" => \E e \in Events : drawn = {e}
    BY DEF Clockwork, Journeying, PartFailed
  <2>2. \A e : Cardinality({e}) = 1
    BY FS_Singleton
  <2>. QED
    BY <2>1, <2>2 DEF NoFalseAlarm, Clockwork, Beating, Steady
<1>. QED
  BY <1>1, ClockworkAlways, PTL

(* The shutdown reaches all three devices or none of them, and in the      *)
(* latter case the three commands wait in the controller's output buffer.  *)
THEOREM ShutdownIsWhole ==
  ASSUME Geared PROVE Spec => []ShutdownAllOrNothing
<1>1. Clockwork => ShutdownAllOrNothing
  <2>. SUFFICES ASSUME Clockwork, Over, phase = "Faulted" PROVE
         \/ \A d \in Devices : shutdown_latched[d]
         \/ /\ \A d \in Devices : ~shutdown_latched[d]
            /\ \A c \in {"conveyor.Shutdown", "robot.Shutdown", "vision.Shutdown"} :
                 \E i \in DOMAIN tx["controller"] : tx["controller"][i] = Command(c)
    BY DEF ShutdownAllOrNothing
  <2>1. Staged /\ stage = "idle"
    BY DEF Clockwork, Booked, Basis, Staged, Over
  <2>2. \A d \in Devices : ~Coming("controller", d, Shutdown(d))
    BY <2>1, NothingYet DEF Participants, Devices
  <2>3. CASE \A d \in Devices : Reached(d)
    BY <2>2, <2>3 DEF Reached
  <2>4. CASE \A d \in Devices : Condemned(d)
    <3>1. \A d \in Devices : ~shutdown_latched[d] /\ Has(tx["controller"], Shutdown(d))
      BY <2>4 DEF Condemned, Later
    <3>2. /\ Has(tx["controller"], Command("conveyor.Shutdown"))
          /\ Has(tx["controller"], Command("robot.Shutdown"))
          /\ Has(tx["controller"], Command("vision.Shutdown"))
      BY <3>1 DEF Shutdown, Devices
    <3>. QED
      BY <3>1, <3>2 DEF Has
  <2>. QED
    BY <2>3, <2>4 DEF Clockwork, Latching
<1>. QED
  BY <1>1, ClockworkAlways, PTL

(* An accepted part takes seven passes and a rejected one five: between    *)
(* two passes their number tells how far the current part is.              *)
THEOREM LineInLockstep ==
  ASSUME Geared PROVE Spec => []Lockstep
<1>1. Clockwork => Lockstep
  <2>. SUFFICES ASSUME Clockwork, stage = "idle" PROVE
         /\ phase = "Boot" => Elapsed = 0
         /\ phase = "WaitingInspection" => Elapsed \in 0 .. 2
         /\ phase = "WaitingPickComplete" => Elapsed \in 3 .. 4
         /\ phase = "WaitingRejectRemoval" => Elapsed \in 3 .. 4
         /\ phase = "WaitingPlaceComplete" => Elapsed \in 5 .. 6
         /\ phase = "Finished" => Elapsed \in 0 .. 1
    BY DEF Lockstep, Elapsed
  <2>1. Journeying /\ Staged /\ TypeOK
    BY DEF Clockwork, Booked, Basis, Inv
  <2>2. \A s, r \in Participants : \A f : ~Coming(s, r, f)
    BY <2>1, NothingYet
  <2>3. phase \in Waitings => \E f \in Journey(phase) : Elapsed = Hop(f)
    BY <2>1, <2>2 DEF Journeying, Travels
  <2>4. \A f \in Journey("WaitingInspection") : Hop(f) \in {0, 1, 2}
    BY DEF Journey, Hop, Requests, Refusals, Request, Command, ConveyorStatus, VisionStatus,
       RobotStatus, Accepting, Rejecting
  <2>5. \A f \in Journey("WaitingPickComplete") : Hop(f) \in {3, 4}
    BY DEF Journey, Hop, Request, Command, ConveyorStatus, VisionStatus, RobotStatus, Accepting,
       Rejecting
  <2>6. \A f \in Journey("WaitingRejectRemoval") : Hop(f) \in {3, 4}
    BY DEF Journey, Hop, Request, Command, ConveyorStatus, VisionStatus, RobotStatus, Accepting,
       Rejecting
  <2>7. \A f \in Journey("WaitingPlaceComplete") : Hop(f) \in {5, 6}
    BY DEF Journey, Hop, Request, Command, ConveyorStatus, VisionStatus, RobotStatus, Accepting,
       Rejecting
  <2>8. phase = "Boot" => Elapsed = 0
    BY <2>1 DEF Journeying, NoPartYet, Elapsed
  <2>9. phase = "Finished" => Elapsed \in {0, 1}
    BY <2>1 DEF Journeying, NoPartLeft
  <2>. QED
    BY <2>3, <2>4, <2>5, <2>6, <2>7, <2>8, <2>9 DEF Waitings
<1>. QED
  BY <1>1, ClockworkAlways, PTL

-----------------------------------------------------------------------------
(* A frame of the journey is on a leg from who sends it to whom it is for, *)
LEMMA OnALeg ==
  ASSUME NEW ph \in Waitings, NEW s \in Participants, NEW r \in Participants,
         NEW f \in Journey(ph), f \in Sent(s), f \in For(r)
  PROVE  \E l \in Legs(ph) : l.from = s /\ l.to = r /\ f \in l.frames
<1>1. Participants = {"controller", "conveyor", "vision", "robot"}
  BY DEF Participants, Devices
<1>2. ASSUME NEW a \in Participants, NEW b \in Participants, f \in Sent(a), f \in For(b)
      PROVE  s = a /\ r = b
  BY <1>2, SentApart, ForOne
<1>3. /\ \A c \in Commands : Command(c) \in Sent("controller")
      /\ \A m \in ConveyorMessages : ConveyorStatus(m) \in Sent("conveyor")
      /\ \A m \in VisionMessages : VisionStatus(m) \in Sent("vision")
      /\ \A m \in RobotMessages : RobotStatus(m) \in Sent("robot")
  BY DEF Sent, CommandFrames
<1>4. ASSUME NEW l \in Legs(ph), f \in l.frames, f \in Sent(l.from) PROVE l.from = s /\ l.to = r
  BY <1>2, <1>4, LegFrames
<1>5. \A l \in Legs(ph) : l.frames \subseteq Sent(l.from)
  <2>1. /\ {Command("conveyor.RequestPartArrived"), Command("robot.Pick"), Command("robot.Place"),
            Command("robot.RemoveReject")} \subseteq Sent("controller")
        /\ {ConveyorStatus("PartArrived"), ConveyorStatus("ConveyorFault")} \subseteq Sent("conveyor")
        /\ {VisionStatus(m) : m \in {"PartAccepted", "RejectDetected", "VisionFault",
                                     "VisionTimeout"}} \subseteq Sent("vision")
        /\ {RobotStatus("PickCompleted"), RobotStatus("PickFailed"), RobotStatus("PlaceCompleted"),
            RobotStatus("MotionFailed"), RobotStatus("RejectRemoved")} \subseteq Sent("robot")
    <3>1. /\ {"conveyor.RequestPartArrived", "robot.Pick", "robot.Place", "robot.RemoveReject"}
               \subseteq Commands
          /\ {"PartArrived", "ConveyorFault"} \subseteq ConveyorMessages
          /\ {"PartAccepted", "RejectDetected", "VisionFault", "VisionTimeout"}
               \subseteq VisionMessages
          /\ {"PickCompleted", "PickFailed", "PlaceCompleted", "MotionFailed", "RejectRemoved"}
               \subseteq RobotMessages
      BY DEF Commands, RobotCommands, ConveyorCommands, ConveyorMessages, VisionMessages,
         RobotMessages
    <3>. QED
      BY <1>3, <3>1
  <2>2. CASE ph = "WaitingInspection"
    BY <2>1, <2>2 DEF Legs, Leg
  <2>3. CASE ph = "WaitingPickComplete"
    BY <2>1, <2>3 DEF Legs, Leg
  <2>4. CASE ph = "WaitingPlaceComplete"
    BY <2>1, <2>4 DEF Legs, Leg
  <2>5. CASE ph = "WaitingRejectRemoval"
    BY <2>1, <2>5 DEF Legs, Leg
  <2>. QED
    BY <2>2, <2>3, <2>4, <2>5 DEF Waitings
<1>6. \E l \in Legs(ph) : f \in l.frames
  BY DEF Legs, Leg, Waitings, Journey, Requests, Refusals, Accepting, Rejecting
<1>. QED
  BY <1>4, <1>5, <1>6

(* ... so while a frame travels, something is under way.                   *)
LEMMA SomethingUnderway ==
  ASSUME phase \in Waitings, NEW s \in Participants, NEW r \in Participants, NEW f, Travels(s, r, f)
  PROVE  \E l \in Legs(phase) : \E u : u \in Underway(l)
<1>1. PICK l \in Legs(phase) : l.from = s /\ l.to = r /\ f \in l.frames
  BY OnALeg DEF Travels
<1>2. Has(tx[s], f) \/ Has(bus, From(s, f)) \/ Has(rx[r], f)
  BY DEF Travels, Coming, Later
<1>3. \/ \E i \in DOMAIN tx[l.from] : tx[l.from][i] \in l.frames
      \/ \E i \in DOMAIN bus : bus[i].frame \in l.frames
      \/ \E i \in DOMAIN rx[l.to] : rx[l.to][i] \in l.frames
  BY <1>1, <1>2 DEF Has, From
<1>4. \E u : u \in Underway(l)
  BY <1>3 DEF Underway
<1>. QED
  BY <1>4

(* In a faulted line nothing is.                                           *)
LEMMA NothingUnderway ==
  ASSUME TypeOK, Flying(Tracked) = 0, NEW p \in Phases, NEW l \in Legs(p)
  PROVE  Underway(l) = {}
<1>1. l.frames \in SUBSET Tracked
  BY LegFrames, JourneyTracked
<1>2. Flying(l.frames) <= 0 /\ Flying(l.frames) \in Nat
  BY <1>1, FlyingPart, FlyingTyped
<1>3. ASSUME NEW u \in Underway(l) PROVE FALSE
  BY <1>2, UnderwayFlies
<1>. QED
  BY <1>3

(* One frame of the current part is in flight while the controller waits,  *)
(* on a leg of the phase it is in, and none otherwise.                     *)
THEOREM ExactlyOneFrame ==
  ASSUME Geared PROVE Spec => []OneFramePerPart
<1>1. Clockwork => OneFramePerPart
  <2>. SUFFICES ASSUME Clockwork PROVE OneFramePerPart
    OBVIOUS
  <2>. DEFINE U == UNION {Underway(l) : l \in Legs(phase)}
  <2>1. Journeying /\ Inv /\ TypeOK /\ phase \in Phases
    BY DEF Clockwork, Booked, Basis, Inv, TypeOK
  <2>2. Cardinality({}) = 0 /\ \A u : Cardinality({u}) = 1
    BY FS_EmptySet, FS_Singleton
  <2>3. CASE phase \in Waitings
    <3>1. \A u, v \in U : u = v
      BY <2>1, <2>3, OneUnderway DEF Waitings
    <3>2. PICK u : u \in U
      BY <2>1, <2>3, SomethingUnderway DEF Journeying
    <3>3. U = {u}
      BY <3>1, <3>2
    <3>4. Legs(phase) # {}
      BY <3>2
    <3>5. \A p \in Phases : \A l \in Legs(p) \ Legs(phase) : Underway(l) = {}
      BY <2>1, <2>3, OneUnderway DEF Waitings
    <3>. QED
      BY <2>2, <3>3, <3>4, <3>5 DEF OneFramePerPart
  <2>4. CASE phase \notin Waitings
    <3>1. Legs(phase) = {} /\ U = {}
      BY <2>1, <2>4 DEF Legs, Waitings, Phases
    <3>2. \A p \in Phases : \A l \in Legs(p) \ Legs(phase) : Underway(l) = {}
      <4>1. CASE phase = "Faulted"
        BY <2>1, <4>1, NothingUnderway DEF Journeying, PartFailed
      <4>2. CASE phase # "Faulted"
        BY <2>1, <4>2, OneUnderway
      <4>. QED
        BY <4>1, <4>2
    <3>. QED
      BY <2>2, <3>1, <3>2 DEF OneFramePerPart
  <2>. QED
    BY <2>3, <2>4
<1>. QED
  BY <1>1, ClockworkAlways, PTL

-----------------------------------------------------------------------------
(* The line as its operator sees it.  Where the frame of the part says the *)
(* part is.                                                                *)
PlaceOf(f) ==
  CASE f \in FailureFrames -> "failed"
    [] f = Request -> "requested"
    [] f = ConveyorStatus("PartArrived") -> "camera"
    [] f \in {Accepting, Rejecting, Command("robot.Pick"), Command("robot.RemoveReject")} -> "inspected"
    [] f \in {RobotStatus("PickCompleted"), Command("robot.Place")} -> "gripped"
    [] f = RobotStatus("PlaceCompleted") -> "placed"
    [] OTHER -> "removed"

Flies(f) == f \in Tracked /\ Flying({f}) >= 1

(* A frame is in flight wherever it is.                                    *)
LEMMA FlyingAny ==
  ASSUME TypeOK, NEW H, Sending(H) >= 1 \/ HowMany(bus, Entry(H)) >= 1 \/ Arriving(H) >= 1
  PROVE  Flying(H) >= 1
<1>1. Sending(H) \in Nat /\ Arriving(H) \in Nat /\ HowMany(bus, Entry(H)) \in Nat
  BY FlyingNat, CountsNat
<1>. QED
  BY <1>1 DEF Flying

(* What is under way between two participants is in flight.                *)
LEMMA InFlightFlies ==
  ASSUME TypeOK, NEW from \in Participants, NEW to \in Participants, NEW H \in SUBSET For(to),
         InFlight(from, to, H)
  PROVE  \E f \in H : Flies(f)
<1>1. For(to) \subseteq Tracked
  BY DEF Tracked
<1>2. ASSUME NEW f \in H, Has(tx[from], f) PROVE Flies(f)
  BY <1>1, <1>2, WaitingFlies, FlyingAny DEF Flies
<1>3. ASSUME NEW f \in H, Has(rx[to], f) PROVE Flies(f)
  BY <1>1, <1>3, ReceivedFlies, FlyingAny DEF Flies
<1>4. ASSUME NEW i \in DOMAIN bus, bus[i].frame \in H PROVE Flies(bus[i].frame)
  <2>1. bus \in Seq(Entry(Frame)) /\ bus[i] \in Entry(Frame)
    BY <1>4, Buffers
  <2>2. bus[i] \in Entry({bus[i].frame})
    BY <2>1 DEF Entry
  <2>3. HowMany(bus, Entry({bus[i].frame})) >= 1
    BY <1>4, <2>1, <2>2, CountSome
  <2>. QED
    BY <1>1, <1>4, <2>3, FlyingAny DEF Flies
<1>5. \/ \E i \in DOMAIN tx[from] : tx[from][i] \in H
      \/ \E i \in DOMAIN bus : bus[i].frame \in H
      \/ \E i \in DOMAIN rx[to] : rx[to][i] \in H
  BY DEF InFlight, Underway, Leg
<1>. QED
  BY <1>2, <1>3, <1>4, <1>5 DEF Has

(* A frame that travels is in flight.                                      *)
LEMMA TravelsFlies ==
  ASSUME TypeOK, NEW s \in Participants, NEW r \in Participants, NEW f, Travels(s, r, f)
  PROVE  Flies(f)
<1>1. f \in For(r) /\ {f} \in SUBSET For(r) /\ (Has(tx[s], f) \/ Has(bus, From(s, f)) \/ Has(rx[r], f))
  BY DEF Travels, Coming, Later
<1>2. InFlight(s, r, {f})
  <2>1. \/ \E i \in DOMAIN tx[s] : tx[s][i] \in {f}
        \/ \E i \in DOMAIN bus : bus[i].frame \in {f}
        \/ \E i \in DOMAIN rx[r] : rx[r][i] \in {f}
    BY <1>1 DEF Has, From
  <2>. QED
    BY <2>1 DEF InFlight, Underway, Leg
<1>. QED
  BY <1>1, <1>2, InFlightFlies

(* Only one is.                                                            *)
LEMMA OneFlies ==
  ASSUME TypeOK, OneOfThisPart, phase # "Faulted", NEW f, NEW g, Flies(f), Flies(g)
  PROVE  f = g /\ f \in Journey(phase)
<1>1. f \in Tracked /\ g \in Tracked /\ Flying({f}) > 0 /\ Flying({g}) >= 1 /\ {g} \in SUBSET Tracked
  <2>1. Flying({f}) \in Nat
    BY FlyingTyped
  <2>. QED
    BY <2>1 DEF Flies
<1>2. f \in Journey(phase) /\ Flying({g}) <= Is(f, {g})
  BY <1>1, OnlyFrame
<1>3. Flying({g}) \in Nat
  BY FlyingTyped
<1>. QED
  BY <1>1, <1>2, <1>3 DEF Is

(* So what is under way between two participants is the frame that         *)
(* travels, if it is one that goes between them.                           *)
LEMMA InFlightExactly ==
  ASSUME Smooth, phase \in Waitings,
         NEW s \in Participants, NEW r \in Participants, NEW f, Travels(s, r, f),
         NEW from \in Participants, NEW to \in Participants, NEW H,
         H \subseteq For(to), H \subseteq Sent(from)
  PROVE  InFlight(from, to, H) <=> f \in H
<1>1. TypeOK /\ OneOfThisPart /\ phase # "Faulted"
  BY DEF Smooth, Basis, Inv, Waitings
<1>2. Flies(f)
  BY <1>1, TravelsFlies
<1>3. InFlight(from, to, H) => f \in H
  BY <1>1, <1>2, InFlightFlies, OneFlies
<1>4. ASSUME f \in H PROVE InFlight(from, to, H)
  <2>1. s = from /\ r = to
    BY <1>4, SentApart, ForOne DEF Travels
  <2>2. Has(tx[s], f) \/ Has(bus, From(s, f)) \/ Has(rx[r], f)
    BY DEF Travels, Coming, Later
  <2>3. \/ \E i \in DOMAIN tx[from] : tx[from][i] \in H
        \/ \E i \in DOMAIN bus : bus[i].frame \in H
        \/ \E i \in DOMAIN rx[to] : rx[to][i] \in H
    BY <1>4, <2>1, <2>2 DEF Has, From
  <2>. QED
    BY <2>3 DEF InFlight, Underway, Leg
<1>. QED
  BY <1>3, <1>4

(* The ways between the participants that the journeys take.               *)
LEMMA Ways ==
  /\ {Request, Command("robot.Pick"), Command("robot.RemoveReject"), Command("robot.Place")}
       \subseteq Sent("controller")
  /\ {ConveyorStatus("PartArrived"), ConveyorStatus("ConveyorFault")} \subseteq Sent("conveyor")
  /\ {Accepting, Rejecting, VisionStatus("VisionFault"), VisionStatus("VisionTimeout")}
       \subseteq Sent("vision")
  /\ {RobotStatus(m) : m \in RobotResults} \subseteq Sent("robot")
<1>1. /\ {"conveyor.RequestPartArrived", "robot.Pick", "robot.Place", "robot.RemoveReject"}
           \subseteq Commands
      /\ {"PartArrived", "ConveyorFault"} \subseteq ConveyorMessages
      /\ {"PartAccepted", "RejectDetected", "VisionFault", "VisionTimeout"} \subseteq VisionMessages
      /\ RobotResults \subseteq RobotMessages
  BY DEF Commands, RobotCommands, ConveyorCommands, ConveyorMessages, VisionMessages,
     RobotMessages, RobotResults, RobotFailures
<1>. QED
  BY <1>1 DEF Sent, CommandFrames, Request, Accepting, Rejecting

(* The part is where the frame says that travels.                          *)
LEMMA WhereaboutsOf ==
  ASSUME Smooth, phase \in Waitings,
         NEW s \in Participants, NEW r \in Participants, NEW f, Travels(s, r, f)
  PROVE  Whereabouts = PlaceOf(f)
<1>1. /\ "controller" \in Participants /\ "conveyor" \in Participants
      /\ "vision" \in Participants /\ "robot" \in Participants
  BY DEF Participants, Devices
<1>2. /\ InFlight("conveyor", "controller", {ConveyorStatus("ConveyorFault")})
           <=> f \in {ConveyorStatus("ConveyorFault")}
      /\ InFlight("vision", "controller", {VisionStatus("VisionFault"), VisionStatus("VisionTimeout")})
           <=> f \in {VisionStatus("VisionFault"), VisionStatus("VisionTimeout")}
      /\ InFlight("robot", "controller", {RobotStatus(m) : m \in RobotFailures})
           <=> f \in {RobotStatus(m) : m \in RobotFailures}
  <2>1. /\ {ConveyorStatus("ConveyorFault")} \subseteq For("controller")
        /\ {VisionStatus("VisionFault"), VisionStatus("VisionTimeout")} \subseteq For("controller")
        /\ {RobotStatus(m) : m \in RobotFailures} \subseteq For("controller")
    BY DEF For, Refusals, RobotFailures
  <2>2. {RobotStatus(m) : m \in RobotFailures} \subseteq Sent("robot")
    BY Ways DEF RobotResults
  <2>. QED
    BY <1>1, <2>1, <2>2, Ways, InFlightExactly
<1>3. /\ InFlight("controller", "conveyor", {Request}) <=> f \in {Request}
      /\ InFlight("conveyor", "vision", {ConveyorStatus("PartArrived")})
           <=> f \in {ConveyorStatus("PartArrived")}
      /\ InFlight("vision", "controller", {Accepting, Rejecting}) <=> f \in {Accepting, Rejecting}
  <2>1. /\ {Request} \subseteq For("conveyor")
        /\ {ConveyorStatus("PartArrived")} \subseteq For("vision")
        /\ {Accepting, Rejecting} \subseteq For("controller")
    BY DEF For, Request
  <2>. QED
    BY <1>1, <2>1, Ways, InFlightExactly
<1>4. /\ InFlight("controller", "robot", {Command("robot.Pick"), Command("robot.RemoveReject")})
           <=> f \in {Command("robot.Pick"), Command("robot.RemoveReject")}
      /\ InFlight("controller", "robot", {Command("robot.Place")}) <=> f \in {Command("robot.Place")}
  <2>1. /\ {Command("robot.Pick"), Command("robot.RemoveReject")} \subseteq For("robot")
        /\ {Command("robot.Place")} \subseteq For("robot")
    BY DEF For
  <2>. QED
    BY <1>1, <2>1, Ways, InFlightExactly
<1>5. \A m \in {"PickCompleted", "PlaceCompleted", "RejectRemoved"} :
        InFlight("robot", "controller", {RobotStatus(m)}) <=> f \in {RobotStatus(m)}
  <2>1. \A m \in {"PickCompleted", "PlaceCompleted", "RejectRemoved"} :
          /\ {RobotStatus(m)} \subseteq For("controller")
          /\ {RobotStatus(m)} \subseteq Sent("robot")
    BY Ways DEF For, RobotResults
  <2>. QED
    BY <1>1, <2>1, InFlightExactly
<1>6. f \in Journey(phase) /\ f \notin Strays
  BY WaitingPhases DEF Travels
<1>7. Failures <=> f \in FailureFrames
  BY <1>2, <1>6 DEF Failures, FailureFrames, Refusals, RobotFailures, Strays
<1>8. {VisionStatus(m) : m \in {"PartAccepted", "RejectDetected"}} = {Accepting, Rejecting}
  BY DEF Accepting, Rejecting
<1>9. Whereabouts =
        CASE Failures -> "failed"
          [] InFlight("controller", "conveyor", {Request}) -> "requested"
          [] InFlight("conveyor", "vision", {ConveyorStatus("PartArrived")}) -> "camera"
          [] InFlight("vision", "controller", {Accepting, Rejecting}) -> "inspected"
          [] InFlight("controller", "robot", {Command("robot.Pick"), Command("robot.RemoveReject")})
               -> "inspected"
          [] InFlight("robot", "controller", {RobotStatus("PickCompleted")}) -> "gripped"
          [] InFlight("controller", "robot", {Command("robot.Place")}) -> "gripped"
          [] InFlight("robot", "controller", {RobotStatus("PlaceCompleted")}) -> "placed"
          [] InFlight("robot", "controller", {RobotStatus("RejectRemoved")}) -> "removed"
          [] OTHER -> "nowhere"
  BY <1>8 DEF Whereabouts, Waitings, Stopped, Request, Accepting, Rejecting
<1>. QED
  BY <1>3, <1>4, <1>5, <1>6, <1>7, <1>9
  DEF PlaceOf, Journey, Waitings, Requests, Refusals, Request, Accepting, Rejecting, FailureFrames,
      Command, ConveyorStatus, VisionStatus, RobotStatus, NoStatus

(* There is a frame of the part while the controller waits, and whichever  *)
(* is in flight says where the part is.                                    *)
LEMMA WhereaboutsAre ==
  Smooth /\ Journeying /\ phase \in Waitings =>
    /\ \E f : Flies(f)
    /\ \A f : Flies(f) => Whereabouts = PlaceOf(f) /\ f \in Journey(phase)
<1>. SUFFICES ASSUME Smooth, Journeying, phase \in Waitings
     PROVE  /\ \E f : Flies(f)
            /\ \A f : Flies(f) => Whereabouts = PlaceOf(f) /\ f \in Journey(phase)
  OBVIOUS
<1>1. TypeOK /\ OneOfThisPart /\ phase # "Faulted"
  BY DEF Smooth, Basis, Inv, Waitings
<1>2. PICK s \in Participants, r \in Participants : \E f : Travels(s, r, f)
  BY DEF Journeying
<1>3. PICK f : Travels(s, r, f)
  BY <1>2
<1>4. Flies(f) /\ Whereabouts = PlaceOf(f)
  BY <1>1, <1>3, TravelsFlies, WhereaboutsOf
<1>. QED
  BY <1>1, <1>4, OneFlies

(* The same after a step.                                                  *)
LEMMA WhereaboutsNext ==
  ASSUME Smooth', Journeying', phase' \in Waitings
  PROVE  /\ \E f \in Tracked : Flying({f})' >= 1
         /\ \A f \in Tracked : Flying({f})' >= 1 =>
              Whereabouts' = PlaceOf(f) /\ f \in Journey(phase')
<1>1. (Smooth /\ Journeying /\ phase \in Waitings =>
         /\ \E f : Flies(f)
         /\ \A f : Flies(f) => Whereabouts = PlaceOf(f) /\ f \in Journey(phase))'
  BY WhereaboutsAre, PTL
<1>2. (phase \in Waitings)' <=> phase' \in Waitings
  BY DEF Waitings
<1>3. \A f : Flies(f)' <=> f \in Tracked /\ Flying({f})' >= 1
  BY DEF Flies, Tracked, For, Participants, Devices
<1>4. \A f : PlaceOf(f)' = PlaceOf(f)
  BY DEF PlaceOf
<1>5. \A f : (f \in Journey(phase))' <=> f \in Journey(phase')
  BY DEF Journey
<1>. QED
  BY <1>1, <1>2, <1>3, <1>4, <1>5

LineMoves == [Line!Next]_(Line!vars)

(* Nothing is in flight when there is no part, or none any more.           *)
LEMMA NothingFlies ==
  ASSUME Smooth, Journeying, phase \notin Waitings
  PROVE  \A f : ~Flies(f)
<1>1. TypeOK /\ OneOfThisPart /\ phase \in {"Boot", "Finished", "Faulted"}
  BY WaitingPhases DEF Smooth, Basis, Inv, TypeOK
<1>2. Flying(Tracked) = 0
  <2>1. CASE phase = "Faulted"
    BY <2>1 DEF Journeying, PartFailed
  <2>2. CASE phase # "Faulted"
    <3>1. Tracked \ Journey(phase) = Tracked
      BY <1>1, <2>2 DEF Journey
    <3>. QED
      BY <1>1, <2>2, <3>1 DEF OneOfThisPart
  <2>. QED
    BY <2>1, <2>2
<1>3. ASSUME NEW f, Flies(f) PROVE FALSE
  <2>1. Flying({f}) <= Flying(Tracked) /\ Flying({f}) >= 1 /\ Flying({f}) \in Nat
    BY <1>1, <1>3, FlyingPart, FlyingTyped DEF Flies
  <2>. QED
    BY <1>2, <2>1
<1>. QED
  BY <1>3

(* So the phase tells where the part is.                                   *)
LEMMA WhereaboutsElse ==
  Smooth /\ Journeying =>
    /\ phase = "Boot" => Whereabouts = "depot"
    /\ phase = "Finished" => Whereabouts = "complete"
    /\ phase = "Faulted" => Whereabouts = "stopped"
<1>. SUFFICES ASSUME Smooth, Journeying, phase \in {"Boot", "Finished", "Faulted"}
     PROVE  /\ phase = "Boot" => Whereabouts = "depot"
            /\ phase = "Finished" => Whereabouts = "complete"
            /\ phase = "Faulted" => Whereabouts = "stopped"
  OBVIOUS
<1>1. /\ "controller" \in Participants /\ "conveyor" \in Participants
      /\ "vision" \in Participants /\ "robot" \in Participants /\ TypeOK
  BY DEF Participants, Devices, Smooth, Basis, Inv
<1>2. ASSUME NEW from \in Participants, NEW to \in Participants, NEW H \in SUBSET For(to)
      PROVE  ~InFlight(from, to, H)
  BY <1>1, <1>2, InFlightFlies, NothingFlies DEF Waitings
<1>3. /\ ~InFlight("conveyor", "controller", {ConveyorStatus("ConveyorFault")})
      /\ ~InFlight("vision", "controller", {VisionStatus("VisionFault"), VisionStatus("VisionTimeout")})
      /\ ~InFlight("robot", "controller", {RobotStatus(m) : m \in RobotFailures})
      /\ ~InFlight("vision", "controller", {VisionStatus(m) : m \in {"PartAccepted", "RejectDetected"}})
      /\ \A m \in {"PickCompleted", "PlaceCompleted", "RejectRemoved"} :
           ~InFlight("robot", "controller", {RobotStatus(m)})
  <2>1. /\ {ConveyorStatus("ConveyorFault")} \subseteq For("controller")
        /\ {VisionStatus("VisionFault"), VisionStatus("VisionTimeout")} \subseteq For("controller")
        /\ {RobotStatus(m) : m \in RobotFailures} \subseteq For("controller")
        /\ {VisionStatus(m) : m \in {"PartAccepted", "RejectDetected"}} \subseteq For("controller")
        /\ \A m \in {"PickCompleted", "PlaceCompleted", "RejectRemoved"} :
             {RobotStatus(m)} \subseteq For("controller")
    BY DEF For, Refusals, RobotFailures, Accepting, Rejecting
  <2>. QED
    BY <1>1, <1>2, <2>1
<1>4. /\ ~InFlight("controller", "conveyor", {Command("conveyor.RequestPartArrived")})
      /\ ~InFlight("conveyor", "vision", {ConveyorStatus("PartArrived")})
      /\ ~InFlight("controller", "robot", {Command("robot.Pick"), Command("robot.RemoveReject")})
      /\ ~InFlight("controller", "robot", {Command("robot.Place")})
  <2>1. /\ {Command("conveyor.RequestPartArrived")} \subseteq For("conveyor")
        /\ {ConveyorStatus("PartArrived")} \subseteq For("vision")
        /\ {Command("robot.Pick"), Command("robot.RemoveReject")} \subseteq For("robot")
        /\ {Command("robot.Place")} \subseteq For("robot")
    BY DEF For
  <2>. QED
    BY <1>1, <1>2, <2>1
<1>5. ~Failures
  BY <1>3 DEF Failures
<1>. QED
  BY <1>3, <1>4, <1>5 DEF Whereabouts

(* ... after a step as well.                                               *)
LEMMA WhereaboutsElseNext ==
  ASSUME Smooth', Journeying'
  PROVE  /\ phase' = "Boot" => Whereabouts' = "depot"
         /\ phase' = "Finished" => Whereabouts' = "complete"
         /\ phase' = "Faulted" => Whereabouts' = "stopped"
<1>1. (Smooth /\ Journeying =>
         /\ phase = "Boot" => Whereabouts = "depot"
         /\ phase = "Finished" => Whereabouts = "complete"
         /\ phase = "Faulted" => Whereabouts = "stopped")'
  BY WhereaboutsElse, PTL
<1>. QED
  BY <1>1

(* When no frame of the part is sent or received the line rests.           *)
LEMMA LineRests ==
  ASSUME Smooth, Smooth', Journeying, Journeying',
         UNCHANGED <<phase, accepted, rejected, last_result>>,
         \A H \in SUBSET Tracked : Flying(H)' <= Flying(H)
  PROVE  LineMoves
<1>1. Whereabouts' = Whereabouts
  <2>1. CASE phase \in Waitings
    <3>1. PICK f \in Tracked : Flying({f})' >= 1 /\ Whereabouts' = PlaceOf(f)
      BY <2>1, WhereaboutsNext
    <3>2. Flying({f})' <= Flying({f}) /\ Flying({f})' \in Nat /\ Flying({f}) \in Nat
      BY <3>1, FlyingTyped, FlyingNext DEF Smooth, Basis, Inv
    <3>3. Flies(f)
      BY <3>1, <3>2 DEF Flies
    <3>. QED
      BY <2>1, <3>1, <3>3, WhereaboutsAre
  <2>2. CASE phase \notin Waitings
    <3>1. phase \in {"Boot", "Finished", "Faulted"}
      BY <2>2, WaitingPhases DEF Smooth, Basis, Inv, TypeOK
    <3>. QED
      BY <3>1, WhereaboutsElse, WhereaboutsElseNext
  <2>. QED
    BY <2>1, <2>2
<1>. QED
  BY <1>1 DEF LineMoves, Line!vars

(* Steps that send nothing of the part and receive nothing.                *)
LEMMA NothingNew ==
  ASSUME Smooth, Smooth',
         \/ DeviceStep \/ Transport \/ EndPass \/ NextTick \/ UNCHANGED vars
  PROVE  /\ UNCHANGED <<phase, accepted, rejected, last_result>>
         /\ \A H \in SUBSET Tracked : Flying(H)' <= Flying(H)
<1>1. TypeOK /\ TypeOK' /\ NoTwice /\ Staged /\ Watching
  BY DEF Smooth, Basis, Inv
<1>2. UNCHANGED <<phase, accepted, rejected, last_result>>
  BY DEF DeviceStep, VisionTick, Transport, EndPass, NextTick, vars, controllerVars, visionVars
<1>3. CASE UNCHANGED <<tx, rx, bus>>
  <2>1. \A H : Flying(H)' = Flying(H)
    BY <1>3 DEF Flying, Sending, Arriving, HowMany, Entry, For, Participants, Devices
  <2>. QED
    BY <1>1, <1>2, <2>1, FlyingTyped
<1>4. CASE DeviceStep
  <2>1. PICK p \in Participants : \E fs, g : Says(p, fs, g) /\ g \notin Tracked
    BY <1>1, <1>4, DeviceTickSays
  <2>2. PICK fs, g : Says(p, fs, g) /\ g \notin Tracked
    BY <2>1
  <2>3. UNCHANGED <<rx, bus>>
    BY <1>4 DEF DeviceStep
  <2>. QED
    BY <1>1, <1>2, <2>2, <2>3, TickCount, FlyingTyped, FlyingNext, NothingSent
<1>5. CASE Transport
  <2>1. ASSUME NEW p \in Participants, DrainFrame(p) PROVE \A H : Flying(H)' <= Flying(H)
    <3>1. UNCHANGED rx
      BY <2>1 DEF DrainFrame
    <3>. QED
      BY <1>1, <2>1, <3>1, DrainCount
  <2>2. CASE DistributeFrame
    BY <1>1, <1>2, <2>2, DistributeCount
  <2>. QED
    BY <1>2, <1>3, <1>5, <2>1, <2>2 DEF Transport, DrainDone, DistributeDone
<1>6. CASE EndPass \/ NextTick \/ UNCHANGED vars
  BY <1>2, <1>3, <1>6 DEF EndPass, ProcessDone, NextTick, vars
<1>. QED
  BY <1>4, <1>5, <1>6

(* Which frames say what.                                                  *)
LEMMA Places ==
  /\ PlaceOf(Request) = "requested"
  /\ PlaceOf(ConveyorStatus("PartArrived")) = "camera"
  /\ \A f \in {Accepting, Rejecting, Command("robot.Pick"), Command("robot.RemoveReject")} :
       PlaceOf(f) = "inspected"
  /\ \A f \in {RobotStatus("PickCompleted"), Command("robot.Place")} : PlaceOf(f) = "gripped"
  /\ PlaceOf(RobotStatus("PlaceCompleted")) = "placed"
  /\ PlaceOf(RobotStatus("RejectRemoved")) = "removed"
  /\ \A f \in FailureFrames : PlaceOf(f) = "failed"
BY DEF PlaceOf, FailureFrames, Refusals, Request, Accepting, Rejecting, Command, ConveyorStatus,
   VisionStatus, RobotStatus, NoStatus

(* The controller ticks: it requests the first part, or does not concern   *)
(* itself with one.                                                        *)
LEMMA ControllerLine ==
  ASSUME DeviceHeartbeatTimeoutTicks > 1, Smooth, Smooth', Beating, Journeying, Journeying',
         ControllerStep
  PROVE  LineMoves
<1>1. TypeOK /\ TypeOK' /\ Tally /\ phase \in Phases
  BY DEF Smooth, Basis, Inv, TypeOK
<1>2. /\ ~Stopped /\ UNCHANGED <<rx, bus, progress, last_result>>
      /\ \/ bootstrapped /\ UNCHANGED phase
         \/ ~bootstrapped /\ phase' = "WaitingInspection"
  <2>1. UNCHANGED last_result
    BY DEF ControllerStep, visionVars
  <2>. QED
    BY <2>1, ControllerOnTime
<1>3. PICK fs, g : /\ Says("controller", fs, g)
                   /\ \/ g \notin Tracked /\ UNCHANGED <<phase, bootstrapped>>
                      \/ g \notin Tracked /\ ~Stopped /\ phase' = "Faulted"
                      \/ g = Request /\ ~bootstrapped
  BY <1>1, ControllerTickSays DEF ControllerStep
<1>4. "controller" \in Participants /\ UNCHANGED <<accepted, rejected>>
  BY <1>2 DEF Participants, progress
<1>5. CASE bootstrapped /\ UNCHANGED phase
  <2>1. g \notin Tracked
    BY <1>2, <1>3, <1>5 DEF Stopped
  <2>2. \A H \in SUBSET Tracked : Flying(H)' <= Flying(H)
    BY <1>1, <1>2, <1>3, <1>4, <2>1, TickCount, FlyingTyped, FlyingNext, NothingSent
  <2>. QED
    BY <1>2, <1>4, <1>5, <2>2, LineRests
<1>6. CASE ~bootstrapped /\ phase' = "WaitingInspection"
  <2>1. phase = "Boot"
    BY <1>1, <1>2, <1>6 DEF Tally, Stopped
  <2>2. Whereabouts = "depot" /\ \A f : ~Flies(f)
    BY <2>1, WhereaboutsElse, NothingFlies DEF Waitings
  <2>3. PICK f \in Tracked : Flying({f})' >= 1 /\ Whereabouts' = PlaceOf(f)
    BY <1>6, WhereaboutsNext DEF Waitings
  <2>4. f = g
    <3>1. Flying({f})' <= Flying({f}) + Is(g, {f}) /\ Flying({f}) \in Nat /\ Flying({f})' \in Nat
      BY <1>1, <1>2, <1>3, <1>4, <2>3, TickCount, FlyingTyped, FlyingNext
    <3>2. Flying({f}) = 0
      BY <2>2, <2>3, <3>1 DEF Flies
    <3>. QED
      BY <2>3, <3>1, <3>2 DEF Is
  <2>5. PlaceOf(Request) = "requested"
    BY Places
  <2>6. Whereabouts' = "requested"
    BY <1>3, <1>6, <2>1, <2>3, <2>4, <2>5
  <2>7. Line!Request
    BY <1>2, <1>4, <2>2, <2>6 DEF Line!Request, Line!Moves
  <2>. QED
    BY <2>7 DEF LineMoves, Line!Next
<1>. QED
  BY <1>2, <1>5, <1>6

(* A frame of the part is received: the part was where the frame says, ... *)
LEMMA HandedOver ==
  ASSUME Smooth, Journeying, NEW p \in Participants, Receive(p), Head(rx[p]) \in For(p)
  PROVE  /\ phase \in Waitings /\ Head(rx[p]) \in Journey(phase) /\ Head(rx[p]) \notin Strays
         /\ Whereabouts = PlaceOf(Head(rx[p]))
<1>. DEFINE f == Head(rx[p])
<1>1. TypeOK /\ rx[p] # <<>>
  BY Taken DEF Smooth, Basis, Inv
<1>2. f \in Tracked /\ Flying({f}) >= 1
  <2>1. f \in {f} \cap For(p)
    OBVIOUS
  <2>. QED
    BY <1>1, <2>1, HeadFlies DEF Tracked
<1>3. phase \in Waitings
  BY <1>2, NothingFlies DEF Flies
<1>. QED
  BY <1>2, <1>3, WhereaboutsAre, WaitingPhases DEF Flies

(* ... and is where the answer does.                                       *)
LEMMA TakenOn ==
  ASSUME Smooth, Smooth', Journeying, Journeying', NEW p \in Participants, Receive(p),
         Head(rx[p]) \in For(p), NEW fs, NEW g, Says(p, fs, g), phase' \in Waitings
  PROVE  Whereabouts' = PlaceOf(g) /\ g \in Journey(phase')
<1>1. /\ TypeOK /\ TypeOK' /\ OneOfThisPart
  BY DEF Smooth, Basis, Inv
<1>2. /\ rx[p] # <<>> /\ rx' = [rx EXCEPT ![p] = Tail(@)] /\ UNCHANGED bus
  BY <1>1, Taken
<1>3. phase # "Faulted"
  BY HandedOver DEF Waitings
<1>4. PICK h \in Tracked : Flying({h})' >= 1 /\ Whereabouts' = PlaceOf(h) /\ h \in Journey(phase')
  BY WhereaboutsNext
<1>5. Flying({h})' <= Is(g, {h})
  <2>1. {h} \in SUBSET Tracked
    BY <1>4
  <2>. QED
    BY <1>1, <1>2, <1>3, <2>1, Replaced
<1>6. Flying({h})' \in Nat
  BY <1>1, FlyingNext
<1>7. h = g
  BY <1>4, <1>5, <1>6 DEF Is
<1>. QED
  BY <1>4, <1>7

(* The conveyor moves the part before the camera, or fails, ...            *)
LEMMA ConveyorLine ==
  ASSUME Smooth, Smooth', Journeying, Journeying', Receive("conveyor"),
         Head(rx["conveyor"]) \in For("conveyor")
  PROVE  LineMoves
<1>. DEFINE f == Head(rx["conveyor"])
<1>1. TypeOK /\ f \in Frame /\ "conveyor" \in Participants
  BY Taken DEF Smooth, Basis, Inv, Participants, Devices
<1>2. ConveyorReceive(f) /\ UNCHANGED <<phase, accepted, rejected, last_result>>
  BY DEF Receive, controllerVars, visionVars
<1>3. phase \in Waitings /\ f \notin Strays /\ Whereabouts = PlaceOf(f)
  BY <1>1, HandedOver
<1>4. f = Request
  BY <1>3 DEF For, Strays, Request
<1>5. PICK fs, g : /\ Says("conveyor", fs, g)
                   /\ \/ g \notin Tracked
                      \/ g \in {ConveyorStatus("PartArrived"), ConveyorStatus("ConveyorFault")}
  BY <1>1, <1>2, <1>3, ConveyorSays
<1>6. Whereabouts' = PlaceOf(g) /\ g \in Tracked
  BY <1>1, <1>2, <1>3, <1>5, TakenOn, JourneyTracked
<1>7. Whereabouts = "requested" /\ Whereabouts' \in {"camera", "failed"}
  BY <1>3, <1>4, <1>5, <1>6, Places DEF FailureFrames, Refusals
<1>8. Line!Arrive \/ Line!Fail
  BY <1>2, <1>7 DEF Line!Arrive, Line!Fail, Line!Moves
<1>. QED
  BY <1>8 DEF LineMoves, Line!Next

(* ... the sensor gives its verdict, or fails, ...                         *)
LEMMA VisionLine ==
  ASSUME Smooth, Smooth', Journeying, Journeying', Receive("vision"),
         Head(rx["vision"]) \in For("vision")
  PROVE  LineMoves
<1>. DEFINE f == Head(rx["vision"])
<1>1. TypeOK /\ f \in Frame /\ "vision" \in Participants
  BY Taken DEF Smooth, Basis, Inv, Participants, Devices
<1>2. VisionReceive(f) /\ UNCHANGED <<phase, accepted, rejected>>
  BY DEF Receive, controllerVars
<1>3. phase \in Waitings /\ f \notin Strays /\ Whereabouts = PlaceOf(f)
  BY <1>1, HandedOver
<1>4. f = ConveyorStatus("PartArrived")
  BY <1>3 DEF For, Strays
<1>5. PICK fs, g : /\ Says("vision", fs, g)
                   /\ \/ g \notin Tracked
                      \/ g \in Refusals /\ UNCHANGED last_result
                      \/ g \in {Accepting, Rejecting}
  BY <1>1, <1>2, <1>3, VisionSays
<1>6. Whereabouts' = PlaceOf(g) /\ g \in Tracked
  BY <1>1, <1>2, <1>3, <1>5, TakenOn, JourneyTracked
<1>7. /\ Whereabouts = "camera"
      /\ \/ Whereabouts' = "inspected"
         \/ Whereabouts' = "failed" /\ UNCHANGED last_result
  BY <1>3, <1>4, <1>5, <1>6, Places DEF FailureFrames
<1>8. Line!Inspect \/ Line!Fail
  BY <1>2, <1>7 DEF Line!Inspect, Line!Fail, Line!Moves
<1>. QED
  BY <1>8 DEF LineMoves, Line!Next

(* ... and the robot handles the part as the verdict says, or fails.       *)
LEMMA RobotLine ==
  ASSUME Smooth, Smooth', Journeying, Journeying', Receive("robot"),
         Head(rx["robot"]) \in For("robot")
  PROVE  LineMoves
<1>. DEFINE f == Head(rx["robot"])
            good == last_result.verdict = "Valid"
<1>1. TypeOK /\ f \in Frame /\ "robot" \in Participants /\ RobotHandlesInspectedPart
  BY Taken, RobotHandlesWhatWasInspected DEF Smooth, Basis, Inv, Participants, Devices
<1>2. RobotReceive(f) /\ UNCHANGED <<phase, accepted, rejected, last_result>>
  BY DEF Receive, controllerVars, visionVars
<1>3. phase \in Waitings /\ f \in Journey(phase) /\ Whereabouts = PlaceOf(f)
  BY <1>1, HandedOver
<1>4. PICK fs, g : Says("robot", fs, g) /\ (g \notin Tracked \/ g \in Results(f))
  BY <1>1, <1>2, RobotSays
<1>5. Whereabouts' = PlaceOf(g) /\ g \in Results(f)
  BY <1>1, <1>2, <1>3, <1>4, TakenOn, JourneyTracked
<1>6. \/ f = Command("robot.Pick") /\ phase = "WaitingPickComplete"
      \/ f = Command("robot.Place") /\ phase = "WaitingPlaceComplete"
      \/ f = Command("robot.RemoveReject") /\ phase = "WaitingRejectRemoval"
  BY <1>3 DEF For, Journey, Waitings, Requests, Refusals, Accepting, Rejecting, Command,
     ConveyorStatus, VisionStatus, RobotStatus, NoStatus
<1>7. /\ phase = "WaitingPickComplete" => good
      /\ phase = "WaitingRejectRemoval" => ~good
  BY <1>1 DEF RobotHandlesInspectedPart
<1>8. CASE f = Command("robot.Pick") /\ phase = "WaitingPickComplete"
  <2>1. g \in {RobotStatus("PickCompleted"), RobotStatus("PickFailed")}
    BY <1>5, <1>8 DEF Results, Command
  <2>2. Whereabouts = "inspected" /\ Whereabouts' \in {"gripped", "failed"}
    BY <1>3, <1>5, <1>8, <2>1, Places DEF FailureFrames
  <2>3. Line!Pick \/ Line!Fail
    BY <1>2, <1>7, <1>8, <2>2 DEF Line!Pick, Line!Fail, Line!Moves
  <2>. QED
    BY <2>3 DEF LineMoves, Line!Next
<1>9. CASE f = Command("robot.Place") /\ phase = "WaitingPlaceComplete"
  <2>1. g \in {RobotStatus("PlaceCompleted"), RobotStatus("MotionFailed")}
    BY <1>5, <1>9 DEF Results, Command
  <2>2. Whereabouts = "gripped" /\ Whereabouts' \in {"placed", "failed"}
    BY <1>3, <1>5, <1>9, <2>1, Places DEF FailureFrames
  <2>3. Line!Place \/ Line!Fail
    BY <1>2, <2>2 DEF Line!Place, Line!Fail, Line!Moves
  <2>. QED
    BY <2>3 DEF LineMoves, Line!Next
<1>10. CASE f = Command("robot.RemoveReject") /\ phase = "WaitingRejectRemoval"
  <2>1. g \in {RobotStatus("RejectRemoved"), RobotStatus("PickFailed")}
    BY <1>5, <1>10 DEF Results, Command
  <2>2. Whereabouts = "inspected" /\ Whereabouts' \in {"removed", "failed"}
    BY <1>3, <1>5, <1>10, <2>1, Places DEF FailureFrames
  <2>3. Line!Remove \/ Line!Fail
    BY <1>2, <1>7, <1>10, <2>2 DEF Line!Remove, Line!Fail, Line!Moves
  <2>. QED
    BY <2>3 DEF LineMoves, Line!Next
<1>. QED
  BY <1>6, <1>8, <1>9, <1>10

(* The controller gives the next command, counts the part, or stops the    *)
(* line after a failure.                                                   *)
LEMMA DecisionLine ==
  ASSUME Smooth, Smooth', Journeying, Journeying', Receive("controller"),
         Head(rx["controller"]) \in For("controller")
  PROVE  LineMoves
<1>. DEFINE f == Head(rx["controller"])
<1>1. /\ TypeOK /\ f \in Frame /\ "controller" \in Participants /\ Tally
      /\ processed \in Nat /\ accepted \in Nat /\ rejected \in Nat
  BY Taken DEF Smooth, Basis, Inv, Participants, TypeOK
<1>2. ControllerReceive(f) /\ UNCHANGED last_result
  BY DEF Receive, visionVars, Devices
<1>3. phase \in Waitings /\ f \notin Strays /\ f \in Journey(phase) /\ Whereabouts = PlaceOf(f)
  BY <1>1, HandedOver
<1>4. PICK fs, g :
        /\ Says("controller", fs, g)
        /\ \/ g \notin Tracked /\ UNCHANGED <<phase, progress>>
           \/ f \in Faults /\ phase' = "Faulted" /\ UNCHANGED progress
           \/ Moves(f, phase, g, phase') /\ UNCHANGED progress
           \/ /\ Done(f)
              /\ IF processed + 1 >= TargetCycles
                 THEN phase' = "Finished"
                 ELSE g = Request /\ phase' = "WaitingInspection"
  BY <1>1, <1>2, ControllerReceiveSays
<1>5. phase' \in Waitings => Whereabouts' = PlaceOf(g) /\ g \in Tracked
  BY <1>1, <1>4, TakenOn, JourneyTracked
<1>6. CASE g \notin Tracked /\ UNCHANGED <<phase, progress>>
  BY <1>3, <1>5, <1>6
<1>7. CASE f \in Faults /\ phase' = "Faulted" /\ UNCHANGED progress
  <2>1. f \in FailureFrames
    BY <1>3, <1>7 DEF Faults, RobotFailures, Strays, FailureFrames
  <2>2. Whereabouts = "failed" /\ Whereabouts' = "stopped"
    BY <1>3, <1>7, <2>1, Places, WhereaboutsElseNext
  <2>3. Line!Stop
    BY <1>2, <1>7, <2>2 DEF Line!Stop, Line!Moves, progress
  <2>. QED
    BY <2>3 DEF LineMoves, Line!Next
<1>8. CASE Moves(f, phase, g, phase') /\ UNCHANGED progress
  <2>1. \/ f \in {Accepting, Rejecting} /\ g \in {Command("robot.Pick"), Command("robot.RemoveReject")}
        \/ f = RobotStatus("PickCompleted") /\ g = Command("robot.Place")
    BY <1>8 DEF Moves
  <2>2. phase' \in Waitings
    BY <1>8 DEF Moves, Waitings
  <2>3. Whereabouts' = Whereabouts
    BY <1>3, <1>5, <2>1, <2>2, Places
  <2>. QED
    BY <1>2, <1>8, <2>3 DEF LineMoves, Line!vars, progress
<1>9. CASE /\ Done(f)
           /\ IF processed + 1 >= TargetCycles
              THEN phase' = "Finished"
              ELSE g = Request /\ phase' = "WaitingInspection"
  <2>1. \/ Whereabouts = "placed" /\ accepted' = accepted + 1 /\ UNCHANGED rejected
        \/ Whereabouts = "removed" /\ rejected' = rejected + 1 /\ UNCHANGED accepted
    BY <1>3, <1>9, Places DEF Done
  <2>2. Whereabouts' = IF processed + 1 >= TargetCycles THEN "complete" ELSE "requested"
    BY <1>5, <1>9, Places, WhereaboutsElseNext DEF Waitings
  <2>3. processed + 1 >= TargetCycles <=> ~(accepted + rejected + 1 < RunLength)
    BY <1>1, ControllerAssumption DEF Tally, RunLength
  <2>4. Line!Count
    BY <1>2, <2>1, <2>2, <2>3 DEF Line!Count
  <2>. QED
    BY <2>4 DEF LineMoves, Line!Next
<1>. QED
  BY <1>4, <1>6, <1>7, <1>8, <1>9

(* Every step of the runtime is one of the line, or none.                  *)
LEMMA LineStep ==
  ASSUME Geared, Clockwork, Clockwork', [Next]_vars PROVE LineMoves
<1>1. Smooth /\ Smooth' /\ Beating /\ Journeying /\ Journeying'
  BY BookedSmooth, BookedSmoothNext DEF Clockwork, Geared, Burst
<1>2. CASE ControllerStep
  BY <1>1, <1>2, ControllerLine DEF Geared
<1>3. CASE DeviceStep \/ Transport \/ EndPass \/ NextTick \/ UNCHANGED vars
  BY <1>1, <1>3, NothingNew, LineRests
<1>4. ASSUME NEW p \in Participants, Receive(p) PROVE LineMoves
  <2>1. CASE Head(rx[p]) \notin For(p)
    <3>1. UNCHANGED <<phase, accepted, rejected, last_result>>
          /\ \A H \in SUBSET Tracked : Flying(H)' <= Flying(H)
      BY <1>1, <1>4, <2>1, PassedBy DEF progress
    <3>. QED
      BY <1>1, <3>1, LineRests
  <2>2. CASE Head(rx[p]) \in For(p)
    BY <1>1, <1>4, <2>2, ConveyorLine, VisionLine, RobotLine, DecisionLine
       DEF Participants, Devices
  <2>. QED
    BY <2>1, <2>2
<1>. QED
  BY <1>2, <1>3, <1>4 DEF Next, RuntimeStep, TickStep

(* The runtime is a production line: it handles one part after the other,  *)
(* each the way it was inspected, counts it once, and stops for a failure  *)
(* (ImplementsLine without its fairness).                                  *)
THEOREM RuntimeIsLine ==
  ASSUME Geared PROVE Spec => Line!Init /\ [][Line!Next]_(Line!vars)
<1>1. Init => Line!Init
  <2>. SUFFICES ASSUME Init PROVE Line!Init
    OBVIOUS
  <2>1. Clockwork /\ phase = "Boot" /\ accepted = 0 /\ rejected = 0
        /\ last_result.verdict = "Unknown"
    BY ClockworkInit DEF Init, ControllerInit, VisionInit
  <2>2. Whereabouts = "depot"
    BY <2>1, BookedSmooth, WhereaboutsElse DEF Clockwork
  <2>. QED
    BY <2>1, <2>2 DEF Line!Init
<1>2. Clockwork /\ Clockwork' /\ [Next]_vars => [Line!Next]_(Line!vars)
  BY LineStep DEF LineMoves
<1>. QED
  BY <1>1, <1>2, ClockworkAlways, PTL DEF Spec

=============================================================================
