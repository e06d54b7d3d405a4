------------------------- MODULE SurroundingsProofs -------------------------
(***************************************************************************)
(* A runtime in its surroundings: on a bus that its participants leave and *)
(* come back to, and in the main loop that replaces it when it has ended.  *)
(*                                                                         *)
(* Who is on the bus changes who gets a frame, and so whether the line     *)
(* gets on; it never doubles a frame or sets the parts apart.  The         *)
(* invariant is that of RuntimeProofs, which asks of the devices on the    *)
(* bus only that none is registered twice: unregistering moves the last    *)
(* device into the free slot and must not leave a copy.                    *)
(*                                                                         *)
(* The watchdogs are told by counting: of two passes that a participant    *)
(* misses one is heard of in a tick of whoever waits for it.  That holds   *)
(* because nothing of who is away is carried, and because a heartbeat of   *)
(* the controller is heard in the first pass of a tick only, so that a     *)
(* device has counted again when the tick is over.  After the controller   *)
(* has stopped, its heartbeats can still come late, when it was away; but  *)
(* then the shutdown comes with them.                                      *)
(*                                                                         *)
(* What main adds up is sound, for every tick budget and however often the *)
(* line is restarted, because of what RuntimeProofs shows of each run: a   *)
(* finished run has counted exactly its length and a faulted one less, so  *)
(* it matters to main only in which of its branches a run ends.            *)
(***************************************************************************)
EXTENDS Network, MainLoop, RuntimeProofs

-----------------------------------------------------------------------------
(* Who is on the bus.                                                      *)

(* What becomes of the registry when d leaves.                             *)
LEMMA SlotFilled ==
  ASSUME NEW d, devices \in Seq(Participants), Unregister(d)
  PROVE  \E i \in DOMAIN devices :
           /\ devices[i] = d
           /\ devices' \in Seq(Participants) /\ DOMAIN devices' = 1 .. Len(devices) - 1
           /\ \A j \in 1 .. Len(devices) - 1 :
                devices'[j] = IF j = i THEN devices[Len(devices)] ELSE devices[j]
<1>1. PICK i \in DOMAIN devices :
        /\ devices[i] = d
        /\ devices' = SubSeq([devices EXCEPT ![i] = devices[Len(devices)]], 1, Len(devices) - 1)
  BY DEF Unregister
<1>. DEFINE n == Len(devices)
            s == [devices EXCEPT ![i] = devices[n]]
<1>2. n \in Nat /\ DOMAIN devices = 1 .. n /\ n >= 1
      /\ \A j \in 1 .. n : devices[j] \in Participants
  BY <1>1
<1>3. /\ s \in Seq(Participants) /\ Len(s) = n
      /\ \A j \in 1 .. n : s[j] = IF j = i THEN devices[n] ELSE devices[j]
  <2>1. s \in [1 .. n -> Participants]
    BY <1>2
  <2>. QED
    BY <1>2, <2>1
<1>. HIDE DEF s
<1>4. devices' = SubSeq(s, 1, n - 1)
  BY <1>1 DEF s
<1>5. /\ devices' \in Seq(Participants) /\ DOMAIN devices' = 1 .. n - 1
      /\ \A j \in 1 .. n - 1 : devices'[j] = s[j]
  <2>1. \A j \in 1 .. n - 1 : s[j] \in Participants
    BY <1>2, <1>3
  <2>2. /\ SubSeq(s, 1, n - 1) \in Seq(Participants)
        /\ Len(SubSeq(s, 1, n - 1)) = IF 1 <= n - 1 THEN (n - 1) - 1 + 1 ELSE 0
        /\ \A j \in 1 .. (n - 1) - 1 + 1 : SubSeq(s, 1, n - 1)[j] = s[1 + j - 1]
    BY <1>2, <2>1, SubSeqProperties
  <2>. QED
    BY <1>2, <1>4, <2>2
<1>. QED
  BY <1>1, <1>2, <1>3, <1>5

(* A device that leaves is gone, and the others are registered once, ...   *)
LEMMA LeaveOnce ==
  ASSUME NEW d, devices \in Seq(Participants), NoTwice, Unregister(d)
  PROVE  devices' \in Seq(Participants) /\ NoTwice'
<1>. DEFINE n == Len(devices)
<1>1. PICK i \in DOMAIN devices :
        /\ devices' \in Seq(Participants) /\ DOMAIN devices' = 1 .. n - 1
        /\ \A j \in 1 .. n - 1 : devices'[j] = IF j = i THEN devices[n] ELSE devices[j]
  BY SlotFilled
<1>2. n \in Nat /\ DOMAIN devices = 1 .. n
  BY LenProperties, Zenon
<1>3. ASSUME NEW j \in 1 .. n - 1, NEW k \in 1 .. n - 1, devices'[j] = devices'[k] PROVE j = k
  <2>1. n \in Nat => \A x \in 1 .. n - 1 : x \in 1 .. n /\ n \in 1 .. n /\ x # n
    OBVIOUS
  <2>. QED
    BY <1>1, <1>2, <1>3, <2>1 DEF NoTwice
<1>. QED
  BY <1>1, <1>3 DEF NoTwice

(* ... and stay.                                                           *)
LEMMA LeavesAlone ==
  ASSUME NEW d, devices \in Seq(Participants), Unregister(d), NEW q, q # d, Registered(q)
  PROVE  Registered(q)'
<1>. DEFINE n == Len(devices)
<1>1. PICK i \in DOMAIN devices :
        /\ devices[i] = d /\ DOMAIN devices' = 1 .. n - 1
        /\ \A j \in 1 .. n - 1 : devices'[j] = IF j = i THEN devices[n] ELSE devices[j]
  BY SlotFilled
<1>2. PICK j \in DOMAIN devices : devices[j] = q
  BY DEF Registered
<1>3. n \in Nat /\ DOMAIN devices = 1 .. n
  BY LenProperties
<1>4. \/ j \in 1 .. n - 1 /\ devices'[j] = q
      \/ i \in 1 .. n - 1 /\ devices'[i] = q
  <2>1. CASE j = n
    <3>1. i \in 1 .. n - 1
      BY <1>1, <1>2, <1>3, <2>1
    <3>. QED
      BY <1>1, <1>2, <2>1, <3>1
  <2>2. CASE j # n
    <3>1. j \in 1 .. n - 1 /\ i # j
      BY <1>1, <1>2, <1>3, <2>2
    <3>. QED
      BY <1>1, <1>2, <3>1
  <2>. QED
    BY <2>1, <2>2
<1>. QED
  BY <1>1, <1>4 DEF Registered

(* A device that comes back is registered once.                            *)
LEMMA JoinOnce ==
  ASSUME NEW d \in Participants, devices \in Seq(Participants), NoTwice, ~OnBus(d), Register(d)
  PROVE  devices' \in Seq(Participants) /\ NoTwice'
<1>. DEFINE n == Len(devices)
<1>1. /\ devices' \in Seq(Participants) /\ Len(devices') = n + 1
      /\ \A i \in 1 .. n : devices'[i] = devices[i]
      /\ devices'[n + 1] = d
  BY Appended DEF Register
<1>2. n \in Nat /\ DOMAIN devices = 1 .. n /\ DOMAIN devices' = 1 .. n + 1
  BY <1>1
<1>3. \A i \in 1 .. n : devices[i] # d
  BY <1>2 DEF OnBus
<1>4. ASSUME NEW i \in 1 .. n + 1, NEW j \in 1 .. n + 1, devices'[i] = devices'[j] PROVE i = j
  <2>1. i = n + 1 \/ i \in 1 .. n
    BY <1>2
  <2>2. j = n + 1 \/ j \in 1 .. n
    BY <1>2
  <2>. QED
    BY <1>1, <1>2, <1>3, <1>4, <2>1, <2>2 DEF NoTwice
<1>. QED
  BY <1>1, <1>2, <1>4 DEF NoTwice

(* Nobody is unregistered by that.                                         *)
LEMMA JoinsAlone ==
  ASSUME NEW p \in Participants, devices \in Seq(Participants), Register(p), NEW q, Registered(q)
  PROVE  Registered(q)'
<1>1. PICK j \in DOMAIN devices : devices[j] = q
  BY DEF Registered
<1>2. devices' = Append(devices, p) /\ DOMAIN devices = 1 .. Len(devices)
  BY DEF Register
<1>3. j \in DOMAIN devices' /\ devices'[j] = devices[j]
  BY <1>1, <1>2
<1>. QED
  BY <1>1, <1>3 DEF Registered

(* What is in flight does not depend on who is on the bus.                 *)
LEMMA ChangeInv ==
  ASSUME Inv, Change PROVE Inv'
<1>1. UNCHANGED <<phase, bootstrapped, progress, input_part_counter, last_result, tx, rx, bus>>
  BY DEF Change, controllerVars, visionVars, progress
<1>2. PICK p \in Participants : Leave(p) \/ Join(p)
  BY DEF Change
<1>3. devices' \in Seq(Participants) /\ NoTwice'
  BY <1>2, LeaveOnce, JoinOnce DEF Leave, Join, Inv, TypeOK
<1>. QED
  BY <1>1, <1>3, RegisteredInv DEF Inv

-----------------------------------------------------------------------------
(* The invariant holds whoever is on the bus.                              *)

(* The runtime's invariant holds whoever is on the bus.                    *)
LEMMA NetworkInv == NetworkSpec => []Inv
<1>1. NetworkInit => Inv
  BY InitInv DEF NetworkInit
<1>2. Inv /\ [NetworkNext]_netVars => Inv'
  <2>. SUFFICES ASSUME Inv, [NetworkNext]_netVars PROVE Inv'
    OBVIOUS
  <2>1. CASE NetworkStep
    BY <2>1, TickStepInv DEF NetworkStep
  <2>2. CASE Change
    BY <2>2, ChangeInv
  <2>3. CASE KeepTicking
    BY <2>3, UnmovedInv DEF KeepTicking, lineVars, controllerVars, visionVars, progress
  <2>4. CASE UNCHANGED netVars
    BY <2>4, UnmovedInv DEF netVars, vars, lineVars, controllerVars, visionVars, progress
  <2>. QED
    BY <2>1, <2>2, <2>3, <2>4 DEF NetworkNext
<1>. QED
  BY <1>1, <1>2, PTL DEF NetworkSpec

-----------------------------------------------------------------------------
(* What is under way.                                                      *)

(* Sets of one element at most.                                            *)
LEMMA AtMostOne ==
  ASSUME NEW U, \A u, v \in U : u = v
  PROVE  Cardinality(U) <= 1
<1>1. CASE U = {}
  <2>1. Cardinality(U) = 0
    BY <1>1, FS_EmptySet
  <2>. QED
    BY <2>1
<1>2. ASSUME NEW u \in U PROVE Cardinality(U) <= 1
  <2>1. U = {u}
    OBVIOUS
  <2>2. Cardinality(U) = 1
    BY <2>1, FS_Singleton
  <2>. QED
    BY <2>2
<1>. QED
  BY <1>1, <1>2

(* At most one frame of the part is under way.                             *)
LEMMA OneFrame == Inv => AtMostOneFramePerPart
<1>. SUFFICES ASSUME Inv PROVE AtMostOneFramePerPart
  OBVIOUS
<1>1. Cardinality(UNION {Underway(l) : l \in Legs(phase)}) <= 1
  <2>1. CASE phase = "Faulted"
    <3>1. UNION {Underway(l) : l \in Legs(phase)} = {}
      BY <2>1 DEF Legs
    <3>. QED
      BY <3>1, FS_EmptySet
  <2>2. CASE phase # "Faulted"
    BY <2>2, OneUnderway, AtMostOne
  <2>. QED
    BY <2>1, <2>2
<1>. QED
  BY <1>1, OneUnderway DEF AtMostOneFramePerPart

-----------------------------------------------------------------------------
(* Whoever leaves the bus and comes back, whenever and how often: one      *)
(* frame of the current part at most is in flight, and none of a part that *)
(* is done.                                                                *)
THEOREM NeverTwoFrames == NetworkSpec => []AtMostOneFramePerPart
BY OneFrame, NetworkInv, PTL

(* And the robot handles the part that was inspected last, as its verdict  *)
(* says: a frame lost to a participant that is away delays the part, it    *)
(* does not let another one take its place.                                *)
THEOREM RightPartWhoeverIsThere == NetworkSpec => []RobotHandlesInspectedPart
BY RobotHandlesWhatWasInspected, NetworkInv, PTL

-----------------------------------------------------------------------------
(* Who is away, and when the controller is heard.                          *)

(* Nobody hears who is off the bus: what it has sent waits.                *)
Away ==
  \A s \in Participants : ~Registered(s) =>
    /\ \A f \in Sent(s) : ~Has(bus, From(s, f))
    /\ \A r \in Participants : \A f \in Sent(s) : ~Has(rx[r], f)

(* A controller heartbeat goes out in the first pass of a tick or, when    *)
(* the controller is away, of a later one, but never in a second pass.     *)
FirstPassOnly ==
  Registered("controller") =>
    /\ step = "firstPass" /\ stage = "process" =>
         ~Has(tx["controller"], ControllerHeartbeat)
    /\ step \in Devices \cup {"secondPass"} =>
         /\ ~Has(tx["controller"], ControllerHeartbeat)
         /\ \A r \in Participants : ~Coming("controller", r, ControllerHeartbeat)

(* A tick does not change who is on the bus.                               *)
LEMMA SameDevices ==
  ASSUME Basis, TickStep PROVE UNCHANGED devices
<1>1. CASE ControllerStep
  BY <1>1, ControllerTicks DEF Basis, Inv
<1>2. CASE DeviceStep
  BY <1>2, DeviceTicks DEF Basis, Inv
<1>3. CASE Transport
  BY <1>3, Carried
<1>4. CASE EndPass
  BY <1>4, PassEnds DEF Basis, Inv
<1>5. ASSUME NEW p \in Participants, Receive(p) PROVE UNCHANGED devices
  BY <1>5, Taken DEF Basis, Inv
<1>. QED
  BY <1>1, <1>2, <1>3, <1>4, <1>5 DEF TickStep

(* Who is away is not carried.                                             *)
LEMMA TransportAway ==
  ASSUME Basis, Away, Transport PROVE Away'
<1>0. TypeOK /\ NoTwice /\ Staged /\ Origins /\ UNCHANGED devices
  BY SameDevices DEF Basis, Inv, TickStep
<1>. SUFFICES ASSUME NEW s \in Participants, ~Registered(s), NEW f \in Sent(s)
     PROVE  /\ ~Has(bus, From(s, f))'
            /\ \A r \in Participants : ~Has(rx'[r], f)
  BY <1>0 DEF Away, Registered, From
<1>1. ~Has(bus, From(s, f)) /\ \A r \in Participants : ~Has(rx[r], f)
  BY DEF Away
<1>2. ASSUME NEW p \in Participants, DrainFrame(p)
      PROVE  ~Has(bus, From(s, f))' /\ \A r \in Participants : ~Has(rx'[r], f)
  <2>1. p # s /\ tx[p] # <<>> /\ rx' = rx
    BY <1>2 DEF DrainFrame, Turn, Registered
  <2>2. bus' = Push(bus, From(p, Head(tx[p])), BusCapacity)
    BY <1>2 DEF DrainFrame, Transmit, From
  <2>3. bus \in Seq(Entry(Frame)) /\ Head(tx[p]) \in Frame
    BY <1>0, <2>1, Buffers, HeadTailProperties
  <2>4. From(p, Head(tx[p])) \in Entry(Frame) /\ From(p, Head(tx[p])) # From(s, f)
    BY <2>1, <2>3 DEF From, Entry
  <2>5. Has(Append(bus, From(p, Head(tx[p]))), From(s, f)) <=>
          Has(bus, From(s, f)) \/ From(p, Head(tx[p])) = From(s, f)
    BY <2>3, <2>4, HasAppend
  <2>6. ~Has(bus', From(s, f))
    BY <1>1, <2>2, <2>4, <2>5 DEF Push
  <2>. QED
    BY <1>1, <2>1, <2>6 DEF Has
<1>3. CASE DrainDone
  BY <1>1, <1>3 DEF DrainDone, Has
<1>4. CASE DistributeFrame \/ DistributeDone
  <2>1. stage = "distribute"
    BY <1>4 DEF DistributeFrame, DistributeDone
  <2>2. \A r \in Participants : ~Coming(s, r, f)
    BY <1>1, <2>1 DEF Coming
  <2>3. \A r \in Participants : ~Coming(s, r, f)'
    BY <1>0, <2>2, TransportComing
  <2>4. "controller" \in Participants
    BY DEF Participants
  <2>. QED
    BY <2>3, <2>4 DEF Coming
<1>. QED
  BY <1>2, <1>3, <1>4 DEF Transport

(* Nor is it heard.                                                        *)
LEMMA TickAway ==
  ASSUME Basis, Away, TickStep PROVE Away'
<1>0. TypeOK /\ Staged /\ Origins /\ Watching /\ UNCHANGED devices
  BY SameDevices DEF Basis, Inv
<1>1. CASE UNCHANGED <<rx, bus>>
  BY <1>0, <1>1 DEF Away, Registered, Has, From
<1>2. CASE ControllerStep \/ DeviceStep
  BY <1>0, <1>1, <1>2, ControllerTicks, DeviceTicks
<1>3. CASE EndPass
  BY <1>0, <1>1, <1>3, PassEnds
<1>4. CASE Transport
  BY <1>4, TransportAway
<1>5. ASSUME NEW p \in Participants, Receive(p) PROVE Away'
  <2>1. UNCHANGED bus /\ \A r \in Participants : \A f : Has(rx'[r], f) => Has(rx[r], f)
    BY <1>0, <1>5, Taken
  <2>. QED
    BY <1>0, <2>1 DEF Away, Registered, Has, From
<1>. QED
  BY <1>2, <1>3, <1>4, <1>5 DEF TickStep

(* A command is not a heartbeat.                                           *)
LEMMA NoHeartbeatDecided ==
  ASSUME TypeOK, NEW f \in Frame, NEW fs, Decided(f, fs)
  PROVE  ~Has(fs, ControllerHeartbeat)
<1>1. \A c : Command(c) # ControllerHeartbeat
  BY DEF Command, ControllerHeartbeat, NoStatus
<1>2. CASE fs = <<>>
  BY <1>2, HasNone
<1>3. CASE fs = ShutdownFrames
  BY <1>1, <1>3 DEF ShutdownFrames, Has
<1>4. ASSUME NEW g, fs = <<g>>, g # ControllerHeartbeat
      PROVE  ~Has(fs, ControllerHeartbeat)
  BY <1>4 DEF Has
<1>5. ASSUME NEW g, fs = <<g>>, Moves(f, phase, g, phase') PROVE g # ControllerHeartbeat
  BY <1>1, <1>5 DEF Moves
<1>. QED
  BY <1>1, <1>2, <1>3, <1>4, <1>5 DEF Decided, Request

(* What is said outside the controller's tick does not bring a heartbeat   *)
(* to a controller that had none waiting.                                  *)
LEMMA NoneMore ==
  ASSUME Basis, FirstPassOnly, NEW p \in Participants, Receive(p)
  PROVE  FirstPassOnly'
<1>. DEFINE h == ControllerHeartbeat
<1>0. TypeOK /\ Staged /\ Watching /\ Origins
  BY DEF Basis, Inv
<1>1. /\ stage = "process" /\ stage' = "process" /\ UNCHANGED <<devices, step, bus>>
      /\ rx[p] # <<>> /\ Head(rx[p]) \in Frame
      /\ \A r \in Participants : Has(rx'[r], h) => Has(rx[r], h)
  BY <1>0, Taken
<1>2. Has(tx'["controller"], h) => Has(tx["controller"], h)
  <2>1. CASE p = "controller"
    <3>1. PICK fs : Speaks("controller", fs) /\ Decided(Head(rx[p]), fs)
      BY <1>0, <2>1, ControllerReceives
    <3>2. ~Has(fs, h)
      BY <1>0, <1>1, <3>1, NoHeartbeatDecided
    <3>. QED
      BY <1>0, <2>1, <3>1, <3>2, SpeaksBuffer
  <2>2. CASE p \in Devices
    <3>1. PICK fs : Speaks(p, fs)
      BY <1>0, <2>2, DeviceReceives
    <3>2. "controller" \in Participants /\ p # "controller"
      BY <2>2 DEF Participants, Devices
    <3>. QED
      BY <1>0, <3>1, <3>2, SpeaksBuffer
  <2>. QED
    BY <2>1, <2>2 DEF Participants, Devices
<1>3. \A r \in Participants : Coming("controller", r, h)' => Coming("controller", r, h)
  BY <1>1 DEF Coming, Has
<1>4. Registered("controller")' => Registered("controller")
  BY <1>1 DEF Registered
<1>. QED
  BY <1>1, <1>2, <1>3, <1>4 DEF FirstPassOnly

(* Nor does the bus.                                                       *)
LEMMA NoneCarried ==
  ASSUME Basis, FirstPassOnly, Transport PROVE FirstPassOnly'
<1>. DEFINE h == ControllerHeartbeat
<1>0. TypeOK /\ NoTwice /\ Staged /\ Origins /\ h \in Sent("controller")
      /\ "controller" \in Participants
  BY DEF Basis, Inv, Sent, Participants
<1>1. UNCHANGED <<devices, step>> /\ stage \in {"drain", "distribute"}
  BY Carried
<1>2. \A r \in Participants : Coming("controller", r, h)' => Coming("controller", r, h)
  BY <1>0, TransportComing
<1>3. Has(tx'["controller"], h) => Has(tx["controller"], h)
  BY <1>0, TransportComing
<1>4. stage' = "process" /\ Registered("controller") => ~Has(tx'["controller"], h)
  BY <1>0, TransportComing, HasNone
<1>5. Registered("controller")' <=> Registered("controller")
  BY <1>1 DEF Registered
<1>. QED
  BY <1>1, <1>2, <1>3, <1>4, <1>5 DEF FirstPassOnly

(* So it is in a whole tick.                                               *)
LEMMA TickFirstPassOnly ==
  ASSUME Basis, FirstPassOnly, TickStep PROVE FirstPassOnly'
<1>. DEFINE h == ControllerHeartbeat
<1>0. TypeOK /\ Staged /\ Origins /\ Watching /\ "controller" \in Participants
  BY DEF Basis, Inv, Participants
<1>1. CASE ControllerStep
  <2>1. step' = "firstPass" /\ stage' = "drain"
    BY <1>0, <1>1, ControllerTicks
  <2>. QED
    BY <2>1 DEF FirstPassOnly, Devices
<1>2. CASE DeviceStep
  <2>1. /\ step \in Devices /\ step' \in Devices \cup {"secondPass"} /\ step' # "firstPass"
        /\ stage = "idle" /\ UNCHANGED <<devices, rx, bus>>
    BY <1>0, <1>2, DeviceTicks DEF Devices
  <2>2. PICK fs : Speaks(step, fs)
    BY <1>0, <1>2, DeviceTicks
  <2>3. tx'["controller"] = tx["controller"]
    BY <1>0, <2>1, <2>2, SpeaksBuffer DEF Devices, Participants
  <2>4. Registered("controller")' => Registered("controller")
    BY <2>1 DEF Registered
  <2>5. \A r \in Participants : bus = <<>> /\ rx[r] = <<>>
    BY <1>0, <2>1 DEF Staged
  <2>6. ASSUME Registered("controller")
        PROVE  /\ ~Has(tx["controller"], h)
               /\ \A r \in Participants : ~Coming("controller", r, h)'
    BY <2>1, <2>3, <2>5, <2>6, HasNone DEF FirstPassOnly, Coming, Has
  <2>. QED
    BY <2>1, <2>3, <2>4, <2>6 DEF FirstPassOnly, Has
<1>3. CASE Transport
  BY <1>3, NoneCarried
<1>4. CASE EndPass
  <2>1. /\ stage = "process" /\ stage' = "idle" /\ UNCHANGED <<devices, tx>>
        /\ \/ step = "firstPass" /\ step' = "conveyor"
           \/ step = "secondPass" /\ step' = "endOfTick"
        /\ Staged'
    BY <1>0, <1>4, PassEnds
  <2>2. \A r \in Participants : ~Coming("controller", r, h)'
    BY <1>0, <2>1, NothingYetNext
  <2>3. Registered("controller")' => Registered("controller")
    BY <2>1 DEF Registered
  <2>. QED
    BY <2>1, <2>2, <2>3 DEF FirstPassOnly, Devices, Has
<1>5. ASSUME NEW p \in Participants, Receive(p) PROVE FirstPassOnly'
  BY <1>5, NoneMore
<1>. QED
  BY <1>1, <1>2, <1>3, <1>4, <1>5 DEF TickStep

-----------------------------------------------------------------------------
(* The watchdogs of a line whose participants come and go.                 *)

(* The passes that p has missed.                                           *)
Missed(p) == passes - left[p]

(* A device that waits for the controller, ...                             *)
Heeding(d) == heartbeat_seen[d] /\ ~shutdown_latched[d]

(* ... and what it has counted: a tick for every two passes it has missed. *)
DeviceCounts(d) ==
  Heeding(d) =>
    /\ heartbeat_misses[d] < ControllerHeartbeatTimeoutTicks
    /\ step \in After(d) \cup {"secondPass", "endOfTick", "controller"} =>
         heartbeat_misses[d] >= 1
    /\ ~Registered(d) =>
         /\ step \in {"endOfTick", "controller", "firstPass"} =>
              Missed(d) <= 2 * heartbeat_misses[d] - 2
         /\ step \in Before(d) => Missed(d) <= 2 * heartbeat_misses[d] - 1
         /\ step \in After(d) \cup {"secondPass"} => Missed(d) <= 2 * heartbeat_misses[d] - 3

(* What the controller has counted for d: the same, if d is away or itself.*)
ControllerCounts(d) ==
  ~Stopped =>
    /\ device_misses[d] < DeviceHeartbeatTimeoutTicks
    /\ \A p \in {d, "controller"} : ~Registered(p) =>
         /\ step \in {"endOfTick", "controller"} => Missed(p) <= 2 * device_misses[d]
         /\ step = "firstPass" => Missed(p) <= 2 * device_misses[d] - 2
         /\ step \in Devices \cup {"secondPass"} => Missed(p) <= 2 * device_misses[d] - 1

Attending ==
  /\ left \in [Participants -> Nat]
  /\ \A d \in Devices : DeviceCounts(d) /\ ControllerCounts(d)

(* What they count with.                                                   *)
LEMMA CountNumbers ==
  ASSUME Watching, Attending, NEW d \in Devices
  PROVE  /\ heartbeat_misses[d] \in Nat /\ device_misses[d] \in Nat /\ passes \in Nat
         /\ \A p \in Participants : left[p] \in Nat /\ Missed(p) \in Int
         /\ ControllerHeartbeatTimeoutTicks \in Nat \ {0}
         /\ DeviceHeartbeatTimeoutTicks \in Nat \ {0}
         /\ d \in Participants /\ "controller" \in Participants
BY WatchdogAssumption, ControllerAssumption
   DEF Watching, Attending, Missed, Participants, Devices

(* The controller counts a tick.                                           *)
LEMMA ControllerAttends ==
  ASSUME Basis, Attending, ControllerStep, UNCHANGED left PROVE Attending'
<1>0. TypeOK /\ Staged /\ Watching
  BY DEF Basis, Inv
<1>1. /\ step = "controller" /\ step' = "firstPass"
      /\ UNCHANGED <<watchdogVars, devices, passes>>
  BY <1>0, ControllerTicks
<1>. SUFFICES ASSUME NEW d \in Devices PROVE DeviceCounts(d)' /\ ControllerCounts(d)'
  BY DEF Attending
<1>2. DeviceCounts(d) /\ ControllerCounts(d)
  BY DEF Attending
<1>3. "firstPass" \notin Before(d) \cup After(d) \cup Devices
  BY DEF Before, After, Devices
<1>4. DeviceCounts(d)'
  BY <1>1, <1>2, <1>3 DEF DeviceCounts, Heeding, Registered, Missed, watchdogVars
<1>5. ControllerCounts(d)'
  <2>. SUFFICES ASSUME ~Stopped' PROVE ControllerCounts(d)'
    BY DEF ControllerCounts
  <2>1. PICK fs : Ticked(fs)
    BY <1>0, ControllerTicks
  <2>2. ~Stopped /\ ~HeartbeatLost /\ device_misses' = [e \in Devices |-> device_misses[e] + 1]
    BY <2>1 DEF Ticked, Stopped
  <2>3. device_misses'[d] = device_misses[d] + 1
        /\ device_misses[d] + 1 < DeviceHeartbeatTimeoutTicks
    BY <1>0, <2>2, CountNumbers DEF HeartbeatLost
  <2>4. ASSUME NEW p \in {d, "controller"}, ~Registered(p)
        PROVE  passes - left[p] <= 2 * (device_misses[d] + 1) - 2
    <3>1. Missed(p) <= 2 * device_misses[d]
      BY <1>1, <1>2, <2>2, <2>4 DEF ControllerCounts
    <3>2. left[p] \in Nat /\ passes \in Nat /\ device_misses[d] \in Nat
      BY <1>0, CountNumbers
    <3>. QED
      BY <3>1, <3>2 DEF Missed
  <2>. QED
    BY <1>1, <1>3, <2>3, <2>4 DEF ControllerCounts, Registered, Missed
<1>. QED
  BY <1>4, <1>5

(* A device counts one.                                                    *)
LEMMA DeviceAttends ==
  ASSUME Basis, Attending, DeviceStep, UNCHANGED left PROVE Attending'
<1>0. TypeOK /\ Staged /\ Watching
  BY DEF Basis, Inv
<1>1. /\ \/ step = "conveyor" /\ step' = "vision"
         \/ step = "vision" /\ step' = "robot"
         \/ step = "robot" /\ step' = "secondPass"
      /\ UNCHANGED <<controllerVars, devices, passes>>
  BY <1>0, DeviceTicks
<1>2. PICK fs : Clocked(step, fs)
  BY <1>0, DeviceTicks
<1>. SUFFICES ASSUME NEW d \in Devices PROVE DeviceCounts(d)' /\ ControllerCounts(d)'
  BY DEF Attending
<1>3. DeviceCounts(d) /\ ControllerCounts(d)
  BY DEF Attending
<1>4. ControllerCounts(d)'
  <2>1. step \in Devices /\ step' \in Devices \cup {"secondPass"}
        /\ step' \notin {"endOfTick", "controller", "firstPass"}
    BY <1>1 DEF Devices
  <2>. QED
    BY <1>1, <1>3, <2>1 DEF ControllerCounts, Registered, Missed, Stopped, controllerVars
<1>5. ASSUME d # step PROVE DeviceCounts(d)'
  <2>1. (Heeding(d)' => Heeding(d)) /\ heartbeat_misses'[d] = heartbeat_misses[d]
    BY <1>0, <1>2, <1>5 DEF Clocked, Watching, Heeding
  <2>2. /\ step' \notin {"endOfTick", "controller", "firstPass"}
        /\ step' \in Before(d) => step \in Before(d)
        /\ step' \in After(d) \cup {"secondPass"} => step \in After(d)
    BY <1>1, <1>5 DEF Before, After, Devices
  <2>. QED
    BY <1>1, <1>3, <2>1, <2>2 DEF DeviceCounts, Registered, Missed
<1>6. ASSUME d = step PROVE DeviceCounts(d)'
  <2>. SUFFICES ASSUME Heeding(d)' PROVE DeviceCounts(d)'
    BY DEF DeviceCounts
  <2>1. /\ Heeding(d) /\ ~WatchdogExpires(d)
        /\ heartbeat_misses'[d] = heartbeat_misses[d] + 1
    BY <1>0, <1>2, <1>6 DEF Clocked, Watching, Heeding
  <2>2. /\ step \in Before(d) /\ step' \in After(d) \cup {"secondPass"} /\ step' \notin Before(d)
        /\ step' \notin {"endOfTick", "controller", "firstPass"}
    BY <1>1, <1>6 DEF Before, After
  <2>3. heartbeat_misses[d] \in Nat /\ heartbeat_misses[d] + 1 < ControllerHeartbeatTimeoutTicks
    BY <1>0, <2>1, CountNumbers DEF WatchdogExpires, Heeding
  <2>4. ~Registered(d) => passes - left[d] <= 2 * (heartbeat_misses[d] + 1) - 3
    <3>1. ~Registered(d) => Missed(d) <= 2 * heartbeat_misses[d] - 1
      BY <1>3, <2>1, <2>2 DEF DeviceCounts
    <3>2. left[d] \in Nat /\ passes \in Nat
      BY <1>0, CountNumbers
    <3>. QED
      BY <2>3, <3>1, <3>2 DEF Missed
  <2>. QED
    BY <1>1, <2>1, <2>2, <2>3, <2>4 DEF DeviceCounts, Registered, Missed
<1>. QED
  BY <1>4, <1>5, <1>6

(* A pass ends, and counts for those who have missed it.                   *)
LEMMA PassAttends ==
  ASSUME Basis, Attending, EndPass, UNCHANGED left PROVE Attending'
<1>0. TypeOK /\ Staged /\ Origins /\ Watching
  BY DEF Basis, Inv
<1>1. /\ \/ step = "firstPass" /\ step' = "conveyor"
         \/ step = "secondPass" /\ step' = "endOfTick"
      /\ UNCHANGED <<controllerVars, watchdogVars, devices>>
  BY <1>0, PassEnds
<1>2. passes' \in {passes, passes + 1}
  BY DEF EndPass, CountPass
<1>. SUFFICES ASSUME NEW d \in Devices PROVE DeviceCounts(d)' /\ ControllerCounts(d)'
  BY DEF Attending
<1>3. DeviceCounts(d) /\ ControllerCounts(d)
  BY DEF Attending
<1>4. /\ heartbeat_misses[d] \in Nat /\ device_misses[d] \in Nat /\ passes \in Nat
      /\ \A p \in {d, "controller"} : left[p] \in Nat
  BY <1>0, CountNumbers
<1>5. /\ \A p \in {d, "controller"} : Registered(p)' <=> Registered(p)
      /\ \A p \in {d, "controller"} : Missed(p)' \in {Missed(p), Missed(p) + 1}
      /\ \A p \in {d, "controller"} : Missed(p) \in Int
  BY <1>1, <1>2, <1>4 DEF Registered, Missed
<1>6. step' = "conveyor" =>
        step' \notin After(d) \cup {"secondPass", "endOfTick", "controller", "firstPass"}
  BY DEF After, Before
<1>7. step' = "endOfTick" => step' \notin Before(d) \cup (After(d) \cup Devices)
  BY DEF After, Before, Devices
<1>8. DeviceCounts(d)'
  <2>. SUFFICES ASSUME Heeding(d)' PROVE DeviceCounts(d)'
    BY DEF DeviceCounts
  <2>1. Heeding(d) /\ heartbeat_misses' = heartbeat_misses
    BY <1>1 DEF Heeding, watchdogVars
  <2>2. CASE step = "firstPass" /\ step' = "conveyor"
    <3>1. ~Registered(d) => Missed(d)' <= 2 * heartbeat_misses[d] - 1
      BY <1>3, <1>4, <1>5, <2>1, <2>2 DEF DeviceCounts
    <3>. QED
      BY <1>3, <1>5, <1>6, <2>1, <2>2, <3>1 DEF DeviceCounts
  <2>3. CASE step = "secondPass" /\ step' = "endOfTick"
    <3>1. ~Registered(d) => Missed(d)' <= 2 * heartbeat_misses[d] - 2
      BY <1>3, <1>4, <1>5, <2>1, <2>3 DEF DeviceCounts
    <3>. QED
      BY <1>3, <1>5, <1>7, <2>1, <2>3, <3>1 DEF DeviceCounts
  <2>. QED
    BY <1>1, <2>2, <2>3
<1>9. ControllerCounts(d)'
  <2>. SUFFICES ASSUME ~Stopped' PROVE ControllerCounts(d)'
    BY DEF ControllerCounts
  <2>1. ~Stopped /\ device_misses' = device_misses
    BY <1>1 DEF Stopped, controllerVars
  <2>2. CASE step = "firstPass" /\ step' = "conveyor"
    <3>1. ASSUME NEW p \in {d, "controller"}, ~Registered(p)
          PROVE  Missed(p)' <= 2 * device_misses[d] - 1
      BY <1>3, <1>4, <1>5, <2>1, <2>2, <3>1 DEF ControllerCounts
    <3>. QED
      BY <1>3, <1>5, <1>6, <2>1, <2>2, <3>1 DEF ControllerCounts
  <2>3. CASE step = "secondPass" /\ step' = "endOfTick"
    <3>1. ASSUME NEW p \in {d, "controller"}, ~Registered(p)
          PROVE  Missed(p)' <= 2 * device_misses[d]
      BY <1>3, <1>4, <1>5, <2>1, <2>3, <3>1 DEF ControllerCounts
    <3>. QED
      BY <1>3, <1>5, <1>7, <2>1, <2>3, <3>1 DEF ControllerCounts
  <2>. QED
    BY <1>1, <2>2, <2>3
<1>. QED
  BY <1>8, <1>9

(* A controller is heard by who is on the bus, and in a first pass.        *)
LEMMA HeartbeatInTime ==
  ASSUME Basis, Away, FirstPassOnly, NEW d \in Devices, Receive(d),
         Head(rx[d]) = ControllerHeartbeat
  PROVE  Registered(d) /\ Registered("controller") /\ step = "firstPass"
<1>0. TypeOK /\ Staged /\ ControllerHeartbeat \in Sent("controller") /\ d \in Participants
      /\ "controller" \in Participants
  BY DEF Basis, Inv, Sent, Participants, Devices
<1>1. Registered(d) /\ Has(rx[d], ControllerHeartbeat) /\ stage = "process"
  BY <1>0, Taken
<1>2. Registered("controller")
  BY <1>0, <1>1 DEF Away
<1>3. Coming("controller", d, ControllerHeartbeat)
  BY <1>1 DEF Coming
<1>4. step \notin Devices \cup {"secondPass"}
  BY <1>0, <1>2, <1>3 DEF FirstPassOnly
<1>. QED
  BY <1>0, <1>1, <1>2, <1>4 DEF Staged

(* Who is heard starts anew, and is not away.                              *)
LEMMA ReceiveAttends ==
  ASSUME Basis, Away, FirstPassOnly, Attending, NEW p \in Participants, Receive(p),
         UNCHANGED left
  PROVE  Attending'
<1>0. TypeOK /\ Staged /\ Origins /\ Watching
  BY DEF Basis, Inv
<1>1. /\ UNCHANGED <<devices, stage, step, passes>> /\ Registered(p) /\ Head(rx[p]) \in Frame
      /\ Has(rx[p], Head(rx[p])) /\ stage = "process"
  BY <1>0, Taken
<1>. SUFFICES ASSUME NEW d \in Devices PROVE DeviceCounts(d)' /\ ControllerCounts(d)'
  BY DEF Attending
<1>2. DeviceCounts(d) /\ ControllerCounts(d)
  BY DEF Attending
<1>3. \A q : (Registered(q)' <=> Registered(q)) /\ Missed(q)' = Missed(q)
  BY <1>1 DEF Registered, Missed
<1>4. CASE p \in Devices
  <2>1. UNCHANGED controllerVars /\ Heard(p, Head(rx[p]))
    BY <1>0, <1>4, DeviceReceives
  <2>2. ControllerCounts(d)'
    BY <1>1, <1>2, <1>3, <2>1 DEF ControllerCounts, Stopped, controllerVars
  <2>3. CASE Head(rx[p]) = ControllerHeartbeat /\ p = d
    <3>1. Registered(d) /\ step = "firstPass"
      BY <1>4, <2>3, HeartbeatInTime
    <3>2. heartbeat_misses'[d] = 0
      BY <1>0, <2>1, <2>3 DEF Heard, Watching
    <3>3. "firstPass" \notin After(d) \cup {"secondPass", "endOfTick", "controller"}
      BY DEF After, Before
    <3>4. 0 < ControllerHeartbeatTimeoutTicks
      BY WatchdogAssumption
    <3>. QED
      BY <1>1, <1>3, <2>2, <3>1, <3>2, <3>3, <3>4 DEF DeviceCounts
  <2>4. CASE ~(Head(rx[p]) = ControllerHeartbeat /\ p = d)
    <3>1. heartbeat_misses'[d] = heartbeat_misses[d] /\ (Heeding(d)' => Heeding(d))
      BY <1>0, <2>1, <2>4 DEF Heard, Watching, Heeding
    <3>. QED
      BY <1>1, <1>2, <1>3, <2>2, <3>1 DEF DeviceCounts
  <2>. QED
    BY <2>3, <2>4
<1>5. CASE p = "controller"
  <2>1. PICK fs : Counted(Head(rx[p])) /\ Decided(Head(rx[p]), fs)
    BY <1>0, <1>5, ControllerReceives
  <2>2. UNCHANGED watchdogVars
    BY <1>0, <1>5, ControllerReceives
  <2>3. DeviceCounts(d)'
    BY <1>1, <1>2, <1>3, <2>2 DEF DeviceCounts, Heeding, watchdogVars
  <2>4. ~Stopped' => ~Stopped
    BY <2>1, StaysStopped
  <2>5. CASE device_misses'[d] = device_misses[d]
    BY <1>1, <1>2, <1>3, <2>3, <2>4, <2>5 DEF ControllerCounts
  <2>6. CASE Head(rx[p]) \in Sent(d) /\ device_misses'[d] = 0
    <3>1. Registered(d)
      BY <1>1, <1>5, <2>6 DEF Away, Participants, Devices
    <3>2. 0 < DeviceHeartbeatTimeoutTicks
      BY ControllerAssumption
    <3>. QED
      BY <1>1, <1>3, <1>5, <2>3, <2>6, <3>1, <3>2 DEF ControllerCounts
  <2>. QED
    BY <2>1, <2>5, <2>6 DEF Counted
<1>. QED
  BY <1>4, <1>5 DEF Participants, Devices

(* A whole tick.                                                           *)
LEMMA TickAttends ==
  ASSUME Basis, Away, FirstPassOnly, Attending, TickStep, UNCHANGED left
  PROVE  Attending'
<1>1. CASE Transport
  <2>1. UNCHANGED <<controllerVars, watchdogVars, devices, step, passes>>
    BY <1>1, Carried
  <2>. QED
    BY <2>1 DEF Attending, DeviceCounts, ControllerCounts, Heeding, Registered, Missed, Stopped,
       controllerVars, watchdogVars
<1>. QED
  BY <1>1, ControllerAttends, DeviceAttends, PassAttends, ReceiveAttends DEF TickStep

(* Between two ticks nothing is being carried, so nobody is in the way.    *)
LEMMA ChangeBasis ==
  ASSUME Basis, Change
  PROVE  Basis' /\ Away' /\ FirstPassOnly'
<1>1. /\ step \in {"controller", "endOfTick"}
      /\ UNCHANGED <<controllerVars, watchdogVars, tx, rx, bus, stage, step, passes>>
  BY DEF Change
<1>2. stage = "idle" /\ bus = <<>> /\ \A r \in Participants : rx[r] = <<>>
  BY <1>1 DEF Basis, Staged
<1>3. Staged'
  BY <1>1, <1>2 DEF Basis, Staged
<1>4. Origins' /\ Watching' /\ (fault_latched <=> phase = "Faulted")'
  BY <1>1 DEF Basis, Origins, Watching, Has, From, controllerVars, watchdogVars
<1>5. Inv'
  BY ChangeInv DEF Basis
<1>6. Away'
  BY <1>1, <1>2, HasNone DEF Away, Has, From
<1>7. FirstPassOnly'
  BY <1>1 DEF FirstPassOnly, Devices
<1>. QED
  BY <1>3, <1>4, <1>5, <1>6, <1>7 DEF Basis

(* Whoever leaves begins to miss passes.                                   *)
LEMMA ChangeAttends ==
  ASSUME Basis, Attending, Change PROVE Attending'
<1>1. /\ step \in {"controller", "endOfTick"}
      /\ UNCHANGED <<controllerVars, watchdogVars, step, passes>>
  BY DEF Change
<1>2. PICK p \in Participants : Leave(p) \/ Join(p)
  BY DEF Change
<1>3. devices \in Seq(Participants) /\ passes \in Nat /\ left \in [Participants -> Nat] /\ Watching
  BY DEF Basis, Inv, TypeOK, Watching, Attending
<1>4. left' \in [Participants -> Nat]
  BY <1>2, <1>3 DEF Leave, Join
<1>5. ASSUME NEW q \in Participants, ~Registered(q)'
      PROVE  (~Registered(q) /\ Missed(q)' = Missed(q)) \/ Missed(q)' = 0
  <2>1. CASE Leave(p)
    <3>1. CASE q = p
      BY <1>1, <1>3, <2>1, <3>1 DEF Leave, Missed
    <3>2. CASE q # p
      <4>1. ~Registered(q)
        BY <1>3, <1>5, <2>1, <3>2, LeavesAlone DEF Leave
      <4>. QED
        BY <1>1, <1>3, <2>1, <3>2, <4>1 DEF Leave, Missed
    <3>. QED
      BY <3>1, <3>2
  <2>2. CASE Join(p)
    <3>1. ~Registered(q)
      BY <1>3, <1>5, <2>2, JoinsAlone DEF Join
    <3>. QED
      BY <1>1, <2>2, <3>1 DEF Join, Missed
  <2>. QED
    BY <1>2, <2>1, <2>2
<1>. SUFFICES ASSUME NEW d \in Devices PROVE DeviceCounts(d)' /\ ControllerCounts(d)'
  BY <1>4 DEF Attending
<1>6. DeviceCounts(d) /\ ControllerCounts(d)
  BY DEF Attending
<1>7. heartbeat_misses[d] \in Nat /\ device_misses[d] \in Nat /\ d \in Participants
      /\ "controller" \in Participants
  BY <1>3, CountNumbers
<1>8. step \notin Before(d) \cup (After(d) \cup Devices) /\ step \notin {"firstPass", "secondPass"}
  BY <1>1 DEF Before, After, Devices
<1>9. DeviceCounts(d)'
  BY <1>1, <1>5, <1>6, <1>7, <1>8 DEF DeviceCounts, Heeding, watchdogVars
<1>10. ControllerCounts(d)'
  <2>1. /\ (~Stopped)' => ~Stopped
        /\ device_misses' = device_misses
    BY <1>1 DEF Stopped, controllerVars
  <2>. QED
    BY <1>1, <1>5, <1>6, <1>7, <1>8, <2>1 DEF ControllerCounts
<1>. QED
  BY <1>9, <1>10

-----------------------------------------------------------------------------
(* Whoever comes and goes.                                                 *)
Attended == Basis /\ Away /\ FirstPassOnly /\ Attending

(* It is always so.                                                        *)
LEMMA AttendedAlways == NetworkSpec => []Attended
<1>1. NetworkInit => Attended
  <2>. SUFFICES ASSUME NetworkInit PROVE Attended
    OBVIOUS
  <2>0. Init
    BY DEF NetworkInit
  <2>1. Basis
    BY <2>0, BasisInit
  <2>2. /\ bus = <<>> /\ \A p \in Participants : rx[p] = <<>>
        /\ step = "controller" /\ passes = 0 /\ left = [p \in Participants |-> 0]
        /\ \A d \in Devices : ~heartbeat_seen[d] /\ device_misses[d] = 0
    BY DEF NetworkInit, Init, ControllerInit, WatchdogInit
  <2>3. Away /\ FirstPassOnly
    BY <2>2, HasNone DEF Away, FirstPassOnly, Devices
  <2>4. Attending
    <3>1. left \in [Participants -> Nat]
      BY <2>2
    <3>2. ASSUME NEW d \in Devices PROVE DeviceCounts(d)
      BY <2>2, <3>2 DEF DeviceCounts, Heeding
    <3>3. ASSUME NEW d \in Devices PROVE ControllerCounts(d)
      <4>1. \A p \in {d, "controller"} : Missed(p) = 0
        BY <2>2, <3>3 DEF Missed, Participants, Devices
      <4>2. step \notin Devices
        BY <2>2 DEF Devices
      <4>. QED
        BY <2>2, <3>3, <4>1, <4>2, ControllerAssumption DEF ControllerCounts
    <3>. QED
      BY <3>1, <3>2, <3>3 DEF Attending
  <2>. QED
    BY <2>1, <2>3, <2>4 DEF Attended
<1>2. Attended /\ [NetworkNext]_netVars => Attended'
  <2>. SUFFICES ASSUME Attended, [NetworkNext]_netVars PROVE Attended'
    OBVIOUS
  <2>1. CASE NetworkStep
    <3>1. TickStep /\ UNCHANGED left
      BY <2>1 DEF NetworkStep
    <3>. QED
      BY <3>1, BasisTickStep, TickAway, TickFirstPassOnly, TickAttends DEF Attended
  <2>2. CASE Change
    BY <2>2, ChangeBasis, ChangeAttends DEF Attended
  <2>3. CASE KeepTicking
    <3>1. /\ step = "endOfTick" /\ step' = "controller"
          /\ UNCHANGED <<lineVars, controllerVars, watchdogVars, devices, tx, rx, bus, stage,
                         passes, left>>
      BY <2>3 DEF KeepTicking, lineVars, controllerVars, visionVars, progress
    <3>2. Basis' /\ Away' /\ FirstPassOnly'
      <4>1. Inv'
        BY <3>1, UnmovedInv DEF Attended, Basis
      <4>2. Staged'
        BY <3>1 DEF Attended, Basis, Staged, Steps, Registered
      <4>3. Origins' /\ Watching' /\ (fault_latched <=> phase = "Faulted")'
        BY <3>1 DEF Attended, Basis, Origins, Watching, Has, From, controllerVars, watchdogVars
      <4>. QED
        BY <3>1, <4>1, <4>2, <4>3
           DEF Attended, Basis, Away, FirstPassOnly, Devices, Registered, Has, From
    <3>3. Attending'
      <4>. SUFFICES ASSUME NEW d \in Devices PROVE DeviceCounts(d)' /\ ControllerCounts(d)'
        BY <3>1 DEF Attended, Attending
      <4>1. DeviceCounts(d) /\ ControllerCounts(d)
        BY DEF Attended, Attending
      <4>2. "controller" \notin Before(d) \cup (After(d) \cup Devices)
        BY DEF Before, After, Devices
      <4>3. DeviceCounts(d)'
        BY <3>1, <4>1, <4>2 DEF DeviceCounts, Heeding, Registered, Missed, watchdogVars
      <4>4. ControllerCounts(d)'
        BY <3>1, <4>1, <4>2
           DEF ControllerCounts, Registered, Missed, Stopped, controllerVars
      <4>. QED
        BY <4>3, <4>4
    <3>. QED
      BY <3>2, <3>3 DEF Attended
  <2>4. CASE UNCHANGED netVars
    <3>1. /\ UNCHANGED <<lineVars, controllerVars, watchdogVars, devices, tx, rx, bus, stage,
                         step, passes, left>>
      BY <2>4 DEF netVars, vars, lineVars, controllerVars, visionVars, progress
    <3>2. Inv'
      BY <3>1, UnmovedInv DEF Attended, Basis
    <3>3. Staged' /\ Origins' /\ Watching' /\ (fault_latched <=> phase = "Faulted")'
      BY <3>1 DEF Attended, Basis, Staged, Origins, Watching, Has, From, Registered,
         controllerVars, watchdogVars
    <3>4. Away' /\ FirstPassOnly'
      BY <3>1 DEF Attended, Away, FirstPassOnly, Coming, Registered, Has, From
    <3>5. Attending'
      BY <3>1 DEF Attended, Attending, DeviceCounts, ControllerCounts, Heeding, Registered,
         Missed, Stopped, controllerVars, watchdogVars
    <3>. QED
      BY <3>2, <3>3, <3>4, <3>5 DEF Attended, Basis
  <2>. QED
    BY <2>1, <2>2, <2>3, <2>4 DEF NetworkNext
<1>. QED
  BY <1>1, <1>2, PTL DEF NetworkSpec

(* A participant that has been away for the controller's timeout stops the *)
(* line, for every timeout and number of parts, and whatever its buffers   *)
(* hold: what it sends cannot pass for a sign of life on its own.          *)
THEOREM AbsenceIsNoticed == NetworkSpec => []AbsenceStopsController
<1>1. Attended => AbsenceStopsController
  <2>. SUFFICES ASSUME Attended, NEW p \in Participants, ~OnBus(p), step = "firstPass",
                       passes - left[p] >= 2 * DeviceHeartbeatTimeoutTicks - 3, ~Stopped
       PROVE  FALSE
    BY DEF AbsenceStopsController
  <2>1. PICK d \in Devices : p \in {d, "controller"}
    BY DEF Participants, Devices
  <2>2. ControllerCounts(d) /\ ~Registered(p) /\ Watching /\ Attending
    BY DEF Attended, Basis, Attending, Registered, OnBus
  <2>3. /\ device_misses[d] < DeviceHeartbeatTimeoutTicks
        /\ passes - left[p] <= 2 * device_misses[d] - 2
    BY <2>1, <2>2 DEF ControllerCounts, Missed
  <2>4. /\ device_misses[d] \in Nat /\ DeviceHeartbeatTimeoutTicks \in Nat
        /\ passes \in Nat /\ left[p] \in Nat
    BY <2>2, CountNumbers
  <2>. QED
    BY <2>3, <2>4
<1>. QED
  BY <1>1, AttendedAlways, PTL

(* A device that has been away for its own timeout has shut down, whatever *)
(* the controller does meanwhile.                                          *)
THEOREM AbsentDeviceIsSafe == NetworkSpec => []AbsentDeviceShutsDown
<1>1. Attended => AbsentDeviceShutsDown
  <2>. SUFFICES ASSUME Attended, NEW d \in Devices, ~OnBus(d), heartbeat_seen[d],
                       stage = "idle", ~shutdown_latched[d],
                       passes - left[d] >= 2 * ControllerHeartbeatTimeoutTicks - 2
       PROVE  FALSE
    BY DEF AbsentDeviceShutsDown
  <2>1. DeviceCounts(d) /\ ~Registered(d) /\ Heeding(d) /\ Watching /\ Attending /\ Staged
    BY DEF Attended, Basis, Attending, Registered, OnBus, Heeding
  <2>2. /\ heartbeat_misses[d] \in Nat /\ ControllerHeartbeatTimeoutTicks \in Nat
        /\ passes \in Nat /\ left[d] \in Nat
    BY <2>1, CountNumbers
  <2>3. step \in {"endOfTick", "controller"} \cup (Before(d) \cup After(d))
    BY <2>1 DEF Staged, Steps, Before, After
  <2>4. /\ heartbeat_misses[d] < ControllerHeartbeatTimeoutTicks
        /\ passes - left[d] <= 2 * heartbeat_misses[d] - 1
    BY <2>1, <2>2, <2>3 DEF DeviceCounts, Missed
  <2>. QED
    BY <2>2, <2>4
<1>. QED
  BY <1>1, AttendedAlways, PTL

-----------------------------------------------------------------------------
(* A line that has stopped.                                                *)
Since == passes - settled

(* A stopped controller may have sent a heartbeat that is yet to come, if  *)
(* it was off the bus; then the shutdown of d comes with it.               *)
Warned(d) ==
  ~shutdown_latched[d] =>
    /\ phase = "Finished" =>
         /\ ~Has(tx["controller"], ControllerHeartbeat)
         /\ passes > settled => ~Coming("controller", d, ControllerHeartbeat)
    /\ phase = "Faulted" =>
         /\ stage \in {"idle", "process"} \/ ~Registered("controller") =>
              (Has(tx["controller"], ControllerHeartbeat) =>
                 Has(tx["controller"], Shutdown(d)))
         /\ Registered("controller") /\ Registered(d) /\ passes > settled =>
              (Coming("controller", d, ControllerHeartbeat) =>
                 Coming("controller", d, Shutdown(d)))

(* So d counts from when the controller stopped, unless it is about to be  *)
(* told to shut down.                                                      *)
CountsDown(d) ==
  Stopped /\ Heeding(d) =>
    /\ step \in {"endOfTick", "controller"} => Since <= 2 * heartbeat_misses[d]
    /\ step = "firstPass" =>
         Since <= 2 * heartbeat_misses[d] \/ (stage = "process" /\ Has(rx[d], Shutdown(d)))
    /\ step \in Before(d) => Since <= 2 * heartbeat_misses[d] + 1
    /\ step \in After(d) \cup {"secondPass"} => Since <= 2 * heartbeat_misses[d] - 1

Stopping ==
  /\ settled \in Nat
  /\ \A d \in Devices : Warned(d) /\ CountsDown(d)

Settling == settled' = IF ~Stopped /\ Stopped' THEN passes ELSE settled

(* What is known of every participant.                                     *)
LEMMA AtHand ==
  ASSUME Attended, NEW d \in Devices
  PROVE  /\ TypeOK /\ NoTwice /\ Staged /\ Origins /\ Watching
         /\ (fault_latched <=> phase = "Faulted") /\ passes \in Nat
         /\ heartbeat_misses[d] \in Nat /\ DeviceCounts(d)
         /\ d \in Participants /\ "controller" \in Participants /\ d # "controller"
         /\ ControllerHeartbeat \in Sent("controller") /\ Shutdown(d) \in Sent("controller")
         /\ ControllerHeartbeat # Shutdown(d)
BY CountNumbers, Senders, ControllersOwn DEF Attended, Attending, Basis, Inv, Devices

(* The controller ticks: if it faults, the shutdown is behind its          *)
(* heartbeat.                                                              *)
LEMMA ControllerStopping ==
  ASSUME Attended, Stopping, NoFrameLost', ControllerStep, Settling PROVE Stopping'
<1>. DEFINE c == "controller"
            h == ControllerHeartbeat
<1>0. Basis /\ TypeOK /\ Staged /\ "conveyor" \in Devices
  BY DEF Attended, Basis, Inv, Devices
<1>1. /\ step = "controller" /\ step' = "firstPass" /\ stage = "idle" /\ stage' = "drain"
      /\ UNCHANGED <<watchdogVars, devices, rx, bus, passes>>
  BY <1>0, ControllerTicks
<1>2. PICK fs : Speaks(c, fs) /\ Ticked(fs)
  BY <1>0, ControllerTicks
<1>3. /\ settled \in Nat /\ settled' \in Nat /\ passes \in Nat
      /\ Stopped => Stopped' /\ settled' = settled
      /\ ~Stopped /\ Stopped' => settled' = passes
  BY <1>0, <1>2, AtHand DEF Settling, Stopping, Ticked, Stopped
<1>. SUFFICES ASSUME NEW d \in Devices PROVE Warned(d)' /\ CountsDown(d)'
  BY <1>3 DEF Stopping
<1>4. /\ Warned(d) /\ CountsDown(d) /\ heartbeat_misses[d] \in Nat /\ d \in Participants
      /\ c \in Participants /\ (fault_latched <=> phase = "Faulted")
  BY AtHand DEF Stopping
<1>5. \A f : Coming(c, d, f)' <=> Has(tx'[c], f)
  BY <1>0, <1>1, <1>4, PassBegins
<1>6. /\ \A f : Has(tx[c], f) => Has(tx'[c], f)
      /\ \A f : Has(tx'[c], f) => Has(tx[c], f) \/ Has(fs, f)
      /\ \A f : Has(fs, f) => Has(tx'[c], f)
  BY <1>0, <1>2, <1>4, SpeaksBuffer
<1>7. Warned(d)'
  <2>1. CASE Stopped
    <3>1. \A f : Has(tx'[c], f) <=> Has(tx[c], f)
      BY <1>2, <1>6, <2>1, HasNone DEF Ticked
    <3>2. phase' = phase
      BY <1>2, <2>1 DEF Ticked
    <3>. QED
      BY <1>1, <1>3, <1>4, <1>5, <2>1, <3>1, <3>2 DEF Warned, watchdogVars
  <2>2. CASE ~Stopped /\ phase' = "Faulted"
    <3>1. fs = <<h>> \o ShutdownFrames
      BY <1>2, <1>4, <2>2 DEF Ticked, Stopped
    <3>2. Has(fs, Shutdown(d))
      BY <3>1, ShutdownForAll
    <3>. QED
      BY <1>5, <1>6, <2>2, <3>2 DEF Warned
  <2>3. CASE ~Stopped /\ phase' # "Faulted"
    <3>1. phase' # "Finished"
      BY <1>2, <2>3 DEF Ticked, Stopped
    <3>. QED
      BY <2>3, <3>1 DEF Warned
  <2>. QED
    BY <2>1, <2>2, <2>3
<1>8. CountsDown(d)'
  <2>1. "firstPass" \notin Before(d) \cup After(d)
    BY DEF Before, After
  <2>2. CASE Stopped
    BY <1>1, <1>3, <1>4, <2>1, <2>2 DEF CountsDown, Heeding, Since, watchdogVars
  <2>3. CASE ~Stopped
    BY <1>1, <1>3, <1>4, <2>1, <2>3 DEF CountsDown, Heeding, Since, watchdogVars
  <2>. QED
    BY <2>2, <2>3
<1>. QED
  BY <1>7, <1>8

(* A device ticks.                                                         *)
LEMMA DeviceStopping ==
  ASSUME Attended, Stopping, DeviceStep, Settling PROVE Stopping'
<1>. DEFINE c == "controller"
<1>0. Basis /\ TypeOK /\ Staged /\ Watching /\ "conveyor" \in Devices
  BY DEF Attended, Basis, Inv, Devices
<1>1. /\ step \in Devices /\ step' \notin {"endOfTick", "controller", "firstPass"}
      /\ \/ step = "conveyor" /\ step' = "vision" /\ stage' = "idle"
         \/ step = "vision" /\ step' = "robot" /\ stage' = "idle"
         \/ step = "robot" /\ step' = "secondPass" /\ stage' = "drain"
      /\ stage = "idle" /\ Staged' /\ UNCHANGED <<controllerVars, devices, rx, bus, passes>>
  BY <1>0, DeviceTicks DEF Devices
<1>2. PICK fs : Speaks(step, fs) /\ Clocked(step, fs)
  BY <1>0, DeviceTicks
<1>3. settled' = settled /\ settled \in Nat /\ passes \in Nat /\ phase' = phase
      /\ (Stopped' <=> Stopped)
  BY <1>0, <1>1, AtHand DEF Settling, Stopping, Stopped, controllerVars
<1>. SUFFICES ASSUME NEW d \in Devices PROVE Warned(d)' /\ CountsDown(d)'
  BY <1>3 DEF Stopping
<1>4. /\ Warned(d) /\ CountsDown(d) /\ heartbeat_misses[d] \in Nat /\ d \in Participants
      /\ c \in Participants
  BY AtHand DEF Stopping
<1>5. tx'[c] = tx[c]
  BY <1>0, <1>1, <1>2, SpeaksBuffer DEF Devices, Participants
<1>6. ~shutdown_latched'[d] => ~shutdown_latched[d]
  BY <1>0, <1>1, <1>2 DEF Clocked, Watching
<1>7. Warned(d)'
  <2>1. CASE stage' = "idle"
    <3>1. \A f : ~Coming(c, d, f)'
      BY <1>1, <1>4, <2>1, NothingYetNext
    <3>. QED
      BY <1>1, <1>3, <1>4, <1>5, <1>6, <2>1, <3>1 DEF Warned, Has
  <2>2. CASE stage' = "drain"
    <3>1. \A f : Coming(c, d, f)' <=> Has(tx[c], f)
      BY <1>0, <1>1, <1>4, <1>5, <2>2, PassBegins DEF Has
    <3>. QED
      BY <1>1, <1>3, <1>4, <1>5, <1>6, <2>2, <3>1 DEF Warned, Has
  <2>. QED
    BY <1>1, <2>1, <2>2
<1>8. ASSUME d # step PROVE CountsDown(d)'
  <2>1. (Heeding(d)' => Heeding(d)) /\ heartbeat_misses'[d] = heartbeat_misses[d]
    BY <1>0, <1>2, <1>8 DEF Clocked, Watching, Heeding
  <2>2. /\ step' \in Before(d) => step \in Before(d)
        /\ step' \in After(d) \cup {"secondPass"} => step \in After(d)
    BY <1>1, <1>8 DEF Before, After, Devices
  <2>. QED
    BY <1>1, <1>3, <1>4, <2>1, <2>2 DEF CountsDown, Since
<1>9. ASSUME d = step PROVE CountsDown(d)'
  <2>. SUFFICES ASSUME Heeding(d)', Stopped' PROVE CountsDown(d)'
    BY DEF CountsDown
  <2>1. Heeding(d) /\ heartbeat_misses'[d] = heartbeat_misses[d] + 1
    BY <1>0, <1>2, <1>9 DEF Clocked, Watching, Heeding
  <2>2. step \in Before(d) /\ step' \notin Before(d)
    BY <1>1, <1>9 DEF Before
  <2>3. Since <= 2 * heartbeat_misses[d] + 1 /\ Since \in Int
    BY <1>3, <1>4, <2>1, <2>2 DEF CountsDown, Since
  <2>4. Since' = Since /\ Since <= 2 * (heartbeat_misses[d] + 1) - 1
    BY <1>1, <1>3, <1>4, <2>3 DEF Since
  <2>. QED
    BY <1>1, <2>1, <2>2, <2>4 DEF CountsDown
<1>. QED
  BY <1>7, <1>8, <1>9

(* What waits is kept for who is away.                                     *)
LEMMA WaitsForReturn ==
  ASSUME Transport, NEW s \in Participants, ~Registered(s) PROVE tx'[s] = tx[s]
<1>1. ASSUME NEW p \in Participants, DrainFrame(p) PROVE tx'[s] = tx[s]
  BY <1>1 DEF DrainFrame, Turn, Registered
<1>. QED
  BY <1>1 DEF Transport, DrainDone, DistributeFrame, DistributeDone

(* What comes keeps coming.                                                *)
LEMMA TransportStopping ==
  ASSUME Attended, Stopping, NoFrameLost, NoFrameLost', Transport, Settling
  PROVE  Stopping'
<1>. DEFINE c == "controller"
            h == ControllerHeartbeat
<1>1. /\ stage \in {"drain", "distribute"} /\ stage' # "idle"
      /\ UNCHANGED <<controllerVars, watchdogVars, devices, step, passes>>
  BY Carried
<1>2. UNCHANGED <<phase, settled, shutdown_latched, heartbeat_seen, heartbeat_misses>>
  BY <1>1 DEF Settling, Stopped, controllerVars, watchdogVars
<1>. SUFFICES ASSUME NEW d \in Devices PROVE Warned(d)' /\ CountsDown(d)'
  BY <1>2 DEF Stopping
<1>3. Warned(d) /\ CountsDown(d)
  BY DEF Stopping
<1>4. /\ \A f \in {h, Shutdown(d)} : Coming(c, d, f)' => Coming(c, d, f)
      /\ Registered(c) /\ Registered(d) =>
           \A f \in {h, Shutdown(d)} : Coming(c, d, f) => Coming(c, d, f)'
      /\ \A f : Has(tx'[c], f) => Has(tx[c], f)
      /\ stage' = "process" /\ Registered(c) => tx'[c] = <<>>
      /\ ~Registered(c) => tx'[c] = tx[c]
  BY AtHand, TransportComing, WaitsForReturn
<1>5. Warned(d)'
  BY <1>1, <1>2, <1>3, <1>4, HasNone DEF Warned, Registered
<1>6. CountsDown(d)'
  BY <1>1, <1>2, <1>3 DEF CountsDown, Heeding, Stopped, Since
<1>. QED
  BY <1>5, <1>6

(* The end of a pass leaves nothing that comes.                            *)
LEMMA PassStopping ==
  ASSUME Attended, Stopping, EndPass, Settling PROVE Stopping'
<1>. DEFINE c == "controller"
<1>0. Basis /\ TypeOK /\ Staged /\ Origins /\ "conveyor" \in Devices
  BY DEF Attended, Basis, Inv, Devices
<1>1. /\ Staged' /\ stage = "process" /\ stage' = "idle" /\ \A p \in Participants : rx[p] = <<>>
      /\ \/ step = "firstPass" /\ step' = "conveyor"
         \/ step = "secondPass" /\ step' = "endOfTick"
      /\ UNCHANGED <<controllerVars, watchdogVars, devices, tx>>
  BY <1>0, PassEnds
<1>2. /\ UNCHANGED <<phase, settled, shutdown_latched, heartbeat_seen, heartbeat_misses>>
      /\ passes' \in {passes, passes + 1} /\ passes \in Nat /\ settled \in Nat
  BY <1>0, <1>1, AtHand
     DEF Settling, Stopped, Stopping, controllerVars, watchdogVars, EndPass, CountPass
<1>. SUFFICES ASSUME NEW d \in Devices PROVE Warned(d)' /\ CountsDown(d)'
  BY <1>2 DEF Stopping
<1>3. /\ Warned(d) /\ CountsDown(d) /\ heartbeat_misses[d] \in Nat /\ d \in Participants
      /\ c \in Participants
  BY AtHand DEF Stopping
<1>4. \A f : ~Coming(c, d, f)'
  BY <1>1, <1>3, NothingYetNext
<1>5. Warned(d)'
  BY <1>1, <1>2, <1>3, <1>4 DEF Warned, Has, Registered
<1>6. CountsDown(d)'
  <2>. SUFFICES ASSUME Heeding(d)', Stopped' PROVE CountsDown(d)'
    BY DEF CountsDown
  <2>1. Heeding(d) /\ Stopped /\ Since \in Int /\ Since' <= Since + 1 /\ Since' \in Int
    BY <1>2 DEF Heeding, Stopped, Since
  <2>2. CASE step = "firstPass" /\ step' = "conveyor"
    <3>1. ~Has(rx[d], Shutdown(d))
      BY <1>1, <1>3, HasNone
    <3>2. Since' <= 2 * heartbeat_misses[d] + 1
      BY <1>3, <2>1, <2>2, <3>1 DEF CountsDown
    <3>3. step' \notin After(d) \cup {"secondPass", "endOfTick", "controller", "firstPass"}
      BY <2>2 DEF After, Before
    <3>. QED
      BY <1>2, <3>2, <3>3 DEF CountsDown
  <2>3. CASE step = "secondPass" /\ step' = "endOfTick"
    <3>1. Since' <= 2 * heartbeat_misses[d]
      BY <1>3, <2>1, <2>3 DEF CountsDown
    <3>2. step' \notin Before(d) \cup After(d)
      BY <2>3 DEF After, Before
    <3>. QED
      BY <1>2, <2>3, <3>1, <3>2 DEF CountsDown
  <2>. QED
    BY <1>1, <2>2, <2>3
<1>. QED
  BY <1>5, <1>6

(* A device receives: the shutdown, or the heartbeat before it.            *)
LEMMA HearStopping ==
  ASSUME Attended, Stopping, NEW e \in Devices, Receive(e), Settling
  PROVE  Stopping'
<1>. DEFINE c == "controller"
            h == ControllerHeartbeat
            f == Head(rx[e])
<1>0. Basis /\ TypeOK /\ Staged /\ Origins /\ Watching /\ e \in Participants /\ e # c
      /\ c \in Participants /\ passes \in Nat
  BY AtHand DEF Attended
<1>1. /\ UNCHANGED <<controllerVars, devices, bus, stage, step, passes>> /\ stage = "process"
      /\ \A s \in Participants : s # e => rx'[s] = rx[s]
      /\ \A g : Has(rx[e], g) <=> g = f \/ Has(rx'[e], g)
  BY <1>0, Taken, DeviceReceives
<1>2. PICK fs : Speaks(e, fs) /\ Heard(e, f)
  BY <1>0, DeviceReceives
<1>3. tx'[c] = tx[c]
  BY <1>0, <1>2, SpeaksBuffer
<1>4. UNCHANGED <<phase, settled>> /\ settled \in Nat
  BY <1>1 DEF Settling, Stopping, Stopped, controllerVars
<1>. SUFFICES ASSUME NEW d \in Devices PROVE Warned(d)' /\ CountsDown(d)'
  BY <1>4 DEF Stopping
<1>5. /\ Warned(d) /\ CountsDown(d) /\ heartbeat_misses[d] \in Nat /\ d \in Participants
      /\ h # Shutdown(d)
  BY AtHand DEF Stopping
<1>6. /\ ~shutdown_latched'[d] => ~shutdown_latched[d]
      /\ ~shutdown_latched'[d] /\ d = e => f # Shutdown(d)
  BY <1>0, <1>2 DEF Heard, Watching
<1>7. /\ \A g : Coming(c, d, g) <=> Has(rx[d], g)
      /\ \A g : Coming(c, d, g)' <=> Has(rx'[d], g)
      /\ \A g : Has(rx'[d], g) => Has(rx[d], g)
      /\ ~shutdown_latched'[d] /\ Has(rx[d], Shutdown(d)) => Has(rx'[d], Shutdown(d))
  <2>1. bus = <<>> /\ bus' = <<>> /\ stage' = "process"
    BY <1>0, <1>1 DEF Staged
  <2>. QED
    BY <1>1, <1>5, <1>6, <2>1, HasNone DEF Coming
<1>8. Warned(d)'
  BY <1>1, <1>3, <1>4, <1>5, <1>6, <1>7 DEF Warned, Registered, Has
<1>9. CASE ~(d = e /\ f = h)
  <2>1. (Heeding(d)' => Heeding(d)) /\ heartbeat_misses'[d] = heartbeat_misses[d]
    BY <1>0, <1>2, <1>9 DEF Heard, Watching, Heeding
  <2>2. Heeding(d)' => ~shutdown_latched'[d]
    BY DEF Heeding
  <2>3. Stopped' <=> Stopped
    BY <1>4 DEF Stopped
  <2>4. CountsDown(d)'
    BY <1>1, <1>4, <1>5, <1>7, <2>1, <2>2, <2>3 DEF CountsDown, Since
  <2>. QED
    BY <1>8, <2>4
<1>10. CASE d = e /\ f = h
  <2>1. Registered(d) /\ Registered(c) /\ step = "firstPass"
    BY <1>10, HeartbeatInTime DEF Attended
  <2>2. heartbeat_misses'[d] = 0
    BY <1>0, <1>2, <1>10 DEF Heard, Watching
  <2>3. "firstPass" \notin Before(d) \cup After(d)
    BY DEF Before, After
  <2>4. Coming(c, d, h)
    BY <1>1, <1>7, <1>10
  <2>5. ASSUME Stopped, Heeding(d)', passes > settled PROVE Has(rx'[d], Shutdown(d))
    <3>1. ~shutdown_latched'[d] /\ ~shutdown_latched[d]
      BY <1>6, <2>5 DEF Heeding
    <3>2. phase = "Faulted"
      BY <1>5, <2>4, <2>5, <3>1 DEF Warned, Stopped
    <3>. QED
      BY <1>5, <1>7, <2>1, <2>4, <2>5, <3>1, <3>2 DEF Warned
  <2>6. Since' <= 0 \/ passes > settled
    BY <1>0, <1>1, <1>4 DEF Since
  <2>7. Stopped' <=> Stopped
    BY <1>4 DEF Stopped
  <2>8. CountsDown(d)'
    BY <1>1, <2>1, <2>2, <2>3, <2>5, <2>6, <2>7 DEF CountsDown
  <2>. QED
    BY <1>8, <2>8
<1>. QED
  BY <1>9, <1>10

(* The controller receives, and may stop.                                  *)
LEMMA AnswerStopping ==
  ASSUME Attended, Stopping, NoFrameLost', Receive("controller"), Settling
  PROVE  Stopping'
<1>. DEFINE c == "controller"
            h == ControllerHeartbeat
            f == Head(rx[c])
<1>0. /\ Basis /\ TypeOK /\ Staged /\ Origins /\ Watching /\ c \in Participants
      /\ passes \in Nat /\ (fault_latched <=> phase = "Faulted")
  BY AtHand DEF Attended, Basis, Inv, Participants, Devices
<1>1. /\ UNCHANGED <<watchdogVars, devices, bus, stage, step, passes>> /\ stage = "process"
      /\ \A s \in Participants : s # c => rx'[s] = rx[s]
      /\ f \in Frame /\ Registered(c)
  BY <1>0, Taken, ControllerReceives
<1>2. PICK fs : Speaks(c, fs) /\ Decided(f, fs)
  BY <1>0, ControllerReceives
<1>3. /\ \A g : Has(tx[c], g) => Has(tx'[c], g)
      /\ \A g : Has(fs, g) => Has(tx'[c], g)
      /\ Has(tx'[c], h) => Has(tx[c], h)
  <2>1. ~Has(fs, h)
    BY <1>0, <1>1, <1>2, NoHeartbeatDecided
  <2>. QED
    BY <1>0, <1>2, <2>1, SpeaksBuffer
<1>4. /\ settled \in Nat /\ settled' \in Nat
      /\ Stopped => Stopped' /\ settled' = settled
      /\ ~Stopped /\ Stopped' => settled' = passes
  BY <1>0, <1>2, StaysStopped DEF Settling, Stopping
<1>5. /\ phase' = "Faulted" => phase = "Faulted" \/ fs = ShutdownFrames
      /\ phase = "Finished" => phase' \in {"Finished", "Faulted"}
      /\ phase = "Faulted" => phase' = "Faulted"
      /\ phase' = "Finished" => phase = "Finished" \/ ~Stopped
  BY <1>0, <1>2 DEF Decided, Moves, Done, Stopped
<1>6. step \in {"firstPass", "secondPass"}
  BY <1>0, <1>1 DEF Staged
<1>. SUFFICES ASSUME NEW d \in Devices PROVE Warned(d)' /\ CountsDown(d)'
  BY <1>4 DEF Stopping
<1>7. /\ Warned(d) /\ CountsDown(d) /\ heartbeat_misses[d] \in Nat /\ d \in Participants
      /\ d # c /\ DeviceCounts(d)
  BY AtHand DEF Stopping
<1>8. /\ \A g : Coming(c, d, g) <=> Has(rx[d], g)
      /\ \A g : Coming(c, d, g)' <=> Has(rx[d], g)
  <2>1. bus = <<>> /\ bus' = <<>> /\ stage' = "process" /\ rx'[d] = rx[d]
    BY <1>0, <1>1, <1>7 DEF Staged
  <2>. QED
    BY <1>1, <2>1, HasNone DEF Coming
<1>9. Warned(d)'
  <2>. SUFFICES ASSUME ~shutdown_latched[d] PROVE Warned(d)'
    BY <1>1 DEF Warned, watchdogVars
  <2>1. ASSUME phase' = "Finished"
        PROVE  ~Has(tx'[c], h) /\ (passes > settled' => ~Has(rx[d], h))
    <3>1. CASE phase = "Finished"
      BY <1>3, <1>4, <1>7, <1>8, <3>1 DEF Warned, Stopped
    <3>2. CASE ~Stopped
      <4>1. ~Has(tx[c], h)
        BY <1>1, <1>6 DEF Attended, FirstPassOnly
      <4>. QED
        BY <1>0, <1>3, <1>4, <2>1, <3>2, <4>1 DEF Stopped
    <3>. QED
      BY <1>5, <2>1, <3>1, <3>2
  <2>2. ASSUME phase' = "Faulted"
        PROVE  /\ Has(tx'[c], h) => Has(tx'[c], Shutdown(d))
               /\ Registered(d) /\ passes > settled' => (Has(rx[d], h) => Has(rx[d], Shutdown(d)))
    <3>1. CASE phase = "Faulted"
      BY <1>1, <1>3, <1>4, <1>7, <1>8, <3>1 DEF Warned, Stopped
    <3>2. CASE phase # "Faulted"
      <4>1. Has(tx'[c], Shutdown(d))
        BY <1>3, <1>5, <2>2, <3>2, ShutdownForAll
      <4>2. CASE ~Stopped
        BY <1>0, <1>4, <2>2, <4>1, <4>2 DEF Stopped
      <4>3. CASE Stopped
        BY <1>4, <1>7, <1>8, <3>2, <4>1, <4>3 DEF Warned, Stopped
      <4>. QED
        BY <4>2, <4>3
    <3>. QED
      BY <3>1, <3>2
  <2>3. Registered(d)' <=> Registered(d)
    BY <1>1 DEF Registered
  <2>. QED
    BY <1>1, <1>8, <2>1, <2>2, <2>3 DEF Warned
<1>10. CountsDown(d)'
  <2>. SUFFICES ASSUME Stopped', Heeding(d)' PROVE CountsDown(d)'
    BY DEF CountsDown
  <2>1. Heeding(d) /\ heartbeat_misses' = heartbeat_misses /\ rx'[d] = rx[d]
    BY <1>1, <1>7 DEF Heeding, watchdogVars
  <2>2. CASE Stopped
    BY <1>1, <1>4, <1>7, <2>1, <2>2 DEF CountsDown, Since
  <2>3. CASE ~Stopped
    <3>1. Since' = 0
      BY <1>0, <1>1, <1>4, <2>3 DEF Since
    <3>2. step = "secondPass" => heartbeat_misses[d] >= 1
      BY <1>7, <2>1 DEF DeviceCounts
    <3>3. step \notin Before(d) \cup After(d)
      BY <1>6 DEF Before, After
    <3>. QED
      BY <1>1, <1>6, <1>7, <2>1, <3>1, <3>2, <3>3 DEF CountsDown
  <2>. QED
    BY <2>2, <2>3
<1>. QED
  BY <1>9, <1>10

(* Who comes or goes does so between two ticks.                            *)
LEMMA ChangeStopping ==
  ASSUME Attended, Stopping, Change PROVE Stopping'
<1>. DEFINE c == "controller"
<1>1. /\ step \in {"controller", "endOfTick"}
      /\ UNCHANGED <<controllerVars, watchdogVars, tx, rx, bus, stage, step, passes, settled>>
  BY DEF Change
<1>2. stage = "idle" /\ Staged'
  BY <1>1, ChangeBasis DEF Attended, Basis, Staged
<1>. SUFFICES ASSUME NEW d \in Devices PROVE Warned(d)' /\ CountsDown(d)'
  BY <1>1 DEF Stopping
<1>3. Warned(d) /\ CountsDown(d) /\ d \in Participants /\ c \in Participants
  BY AtHand DEF Stopping
<1>4. \A f : ~Coming(c, d, f)'
  BY <1>1, <1>2, <1>3, NothingYetNext
<1>5. Warned(d)'
  BY <1>1, <1>2, <1>3, <1>4 DEF Warned, Has, controllerVars, watchdogVars
<1>6. CountsDown(d)'
  BY <1>1, <1>3 DEF CountsDown, Heeding, Stopped, Since, Has, controllerVars, watchdogVars
<1>. QED
  BY <1>5, <1>6

(* The next tick begins.                                                   *)
LEMMA KeepStopping ==
  ASSUME Attended, Stopping, KeepTicking PROVE Stopping'
<1>. DEFINE c == "controller"
<1>1. /\ step = "endOfTick" /\ step' = "controller"
      /\ UNCHANGED <<controllerVars, watchdogVars, devices, tx, rx, bus, stage, passes, settled>>
  BY DEF KeepTicking
<1>. SUFFICES ASSUME NEW d \in Devices PROVE Warned(d)' /\ CountsDown(d)'
  BY <1>1 DEF Stopping
<1>2. Warned(d) /\ CountsDown(d)
  BY DEF Stopping
<1>3. Warned(d)'
  BY <1>1, <1>2 DEF Warned, Has, Coming, From, Registered, controllerVars, watchdogVars
<1>4. "controller" \notin Before(d) \cup After(d)
  BY DEF Before, After
<1>5. CountsDown(d)'
  BY <1>1, <1>2, <1>4 DEF CountsDown, Heeding, Stopped, Since, controllerVars, watchdogVars
<1>. QED
  BY <1>3, <1>5

(* Nothing happens.                                                        *)
LEMMA RestStopping ==
  ASSUME Stopping, UNCHANGED netVars PROVE Stopping'
<1>1. UNCHANGED <<controllerVars, watchdogVars, devices, tx, rx, bus, stage, step, passes, settled>>
  BY DEF netVars, vars
<1>. QED
  BY <1>1 DEF Stopping, Warned, CountsDown, Heeding, Stopped, Since, Has, Coming, From,
     Registered, controllerVars, watchdogVars

(* As long as no buffer gets full, every device that ever heard the        *)
(* controller shuts down when that stops, for every timeout: by the        *)
(* command, or by its own watchdog, which the controller's last words do   *)
(* not set back: a shutdown comes behind them.                             *)
THEOREM EveryDeviceIsSafe ==
  NetworkSpec /\ []NoFrameLost => []EveryDeviceShutsDown
<1>1. NetworkInit => Stopping
  BY DEF NetworkInit, Init, ControllerInit, Stopping, Warned, CountsDown, Stopped
<1>2. Attended /\ Stopping /\ NoFrameLost /\ NoFrameLost' /\ [NetworkNext]_netVars => Stopping'
  <2>. SUFFICES ASSUME Attended, Stopping, NoFrameLost, NoFrameLost', [NetworkNext]_netVars
       PROVE  Stopping'
    OBVIOUS
  <2>1. CASE NetworkStep
    <3>1. TickStep /\ Settling
      BY <2>1 DEF NetworkStep, Settling
    <3>2. ASSUME NEW p \in Participants, Receive(p) PROVE Stopping'
      BY <3>1, <3>2, HearStopping, AnswerStopping DEF Participants, Devices
    <3>. QED
      BY <3>1, <3>2, ControllerStopping, DeviceStopping, TransportStopping, PassStopping
         DEF TickStep
  <2>2. CASE Change
    BY <2>2, ChangeStopping
  <2>3. CASE KeepTicking
    BY <2>3, KeepStopping
  <2>4. CASE UNCHANGED netVars
    BY <2>4, RestStopping
  <2>. QED
    BY <2>1, <2>2, <2>3, <2>4 DEF NetworkNext
<1>3. Attended /\ Stopping => EveryDeviceShutsDown
  <2>. SUFFICES ASSUME Attended, Stopping, Stopped, stage = "idle",
                       passes - settled >= 2 * ControllerHeartbeatTimeoutTicks,
                       NEW d \in Devices, heartbeat_seen[d], ~shutdown_latched[d]
       PROVE  FALSE
    BY DEF EveryDeviceShutsDown
  <2>1. CountsDown(d) /\ DeviceCounts(d) /\ Heeding(d) /\ Staged /\ heartbeat_misses[d] \in Nat
    BY AtHand DEF Stopping, Heeding
  <2>2. step \in {"endOfTick", "controller"} \cup (Before(d) \cup After(d))
    BY <2>1 DEF Staged, Steps, Before, After
  <2>3. /\ heartbeat_misses[d] < ControllerHeartbeatTimeoutTicks
        /\ passes \in Nat /\ settled \in Nat /\ ControllerHeartbeatTimeoutTicks \in Nat
    BY <2>1, AtHand, WatchdogAssumption DEF DeviceCounts, Stopping
  <2>4. passes - settled <= 2 * heartbeat_misses[d] + 1
    BY <2>1, <2>2, <2>3 DEF CountsDown, Since
  <2>. QED
    BY <2>1, <2>3, <2>4
<1>. QED
  BY <1>1, <1>2, <1>3, AttendedAlways, PTL DEF NetworkSpec

-----------------------------------------------------------------------------
(* Where main is tells how the current run is.                             *)
Ending ==
  /\ mode \in Modes
  /\ mode = "loop" => phase # "Faulted"
  /\ mode = "prompt" => phase = "Faulted"
  /\ terminatedByUser => mode = "summary"

Budget ==
  /\ globalTick \in Nat /\ globalTick <= MaxTicks
  /\ mode = "tick" => globalTick < MaxTicks

Counters ==
  /\ restartIndex \in Nat /\ completedRuns \in Nat /\ faultedRuns \in Nat
  /\ totalProcessed \in Nat /\ totalAccepted \in Nat /\ totalRejected \in Nat

MainInv ==
  /\ Inv
  /\ Ending
  /\ Budget
  /\ Counters
  /\ PartsCountedOnce
  /\ RunsAddUp
  /\ EndsForAReason

-----------------------------------------------------------------------------
(* A runtime that is constructed anew is as the first one was.             *)
LEMMA AnewAsAtFirst == Init' => Inv'
BY InitInv, PTL

(* It starts with nothing counted.                                         *)
LEMMA NewRuntimeInv ==
  ASSUME NewRuntime
  PROVE  Inv' /\ phase' = "Boot" /\ processed' = 0 /\ accepted' = 0 /\ rejected' = 0
<1>1. Init'
  BY DEF NewRuntime, Init, ControllerInit, WatchdogInit, VisionInit, RegistrationOrder
<1>. QED
  BY <1>1, AnewAsAtFirst DEF NewRuntime

(* One run more.                                                           *)
LEMMA OneMore ==
  ASSUME NEW c \in Nat, NEW r \in Nat
  PROVE  (c + 1) * r = c * r + r /\ c * r \in Nat
OBVIOUS

(* What holds of every run, when it ends and before.                       *)
LEMMA RunTally ==
  ASSUME Inv
  PROVE  /\ processed \in Nat /\ accepted \in Nat /\ rejected \in Nat
         /\ processed = accepted + rejected
         /\ RunLength \in Nat /\ RunLength - 1 \in Nat
         /\ phase = "Finished" => processed = RunLength
         /\ phase = "Faulted" => processed <= RunLength - 1
BY ControllerAssumption DEF Inv, TypeOK, Tally, RunLength

(* Before the first run nothing is counted.                                *)
LEMMA MainInitInv == MainInit => MainInv
<1>. SUFFICES ASSUME MainInit PROVE MainInv
  OBVIOUS
<1>1. Inv /\ phase = "Boot" /\ processed = 0 /\ accepted = 0 /\ rejected = 0
  BY InitInv DEF MainInit, Init, ControllerInit
<1>2. Ending
  BY <1>1 DEF MainInit, Ending, Modes
<1>3. Budget /\ Counters
  BY MainLoopAssumption DEF MainInit, Budget, Counters
<1>4. PartsCountedOnce
  BY <1>1 DEF MainInit, PartsCountedOnce, Uncounted
<1>5. RunsAddUp
  <2>1. RunLength \in Nat /\ RunLength - 1 \in Nat
    BY <1>1, RunTally
  <2>. QED
    BY <1>1, <2>1 DEF MainInit, RunsAddUp, Uncounted
<1>6. EndsForAReason
  BY DEF MainInit, EndsForAReason
<1>. QED
  BY <1>1, <1>2, <1>4, <1>5, <1>6, <1>3 DEF MainInv

(* The counts of the runs stay as they are while nothing ends.             *)
LEMMA RunsGoOn ==
  ASSUME MainInv, UNCHANGED <<restartIndex, completedRuns, faultedRuns, totals>>,
         Uncounted(1)' = Uncounted(1)
  PROVE  Counters' /\ RunsAddUp'
<1>1. Counters'
  BY DEF MainInv, Counters, totals
<1>2. RunLength' = RunLength
  BY DEF RunLength
<1>3. RunsAddUp'
  BY <1>2 DEF MainInv, RunsAddUp, totals
<1>. QED
  BY <1>1, <1>3

(* The check of the tick budget keeps the invariant.                       *)
LEMMA CheckBudgetInv ==
  ASSUME MainInv, CheckBudget PROVE MainInv'
<1>1. UNCHANGED <<vars, globalTick, restartIndex, completedRuns, faultedRuns,
                  totals, terminatedByUser, ever>>
      /\ mode = "loop" /\ mode' = IF globalTick < MaxTicks THEN "tick" ELSE "summary"
  BY DEF CheckBudget
<1>2. UNCHANGED <<phase, processed, accepted, rejected>> /\ phase # "Faulted"
  BY <1>1 DEF vars, controllerVars, MainInv, Ending
<1>3. Inv'
  BY <1>1, UnmovedInv DEF MainInv, vars, lineVars, controllerVars, visionVars, progress
<1>4. Ending' /\ Budget' /\ EndsForAReason'
  BY <1>1, <1>2, MainLoopAssumption DEF MainInv, Ending, Budget, Modes, EndsForAReason
<1>5. PartsCountedOnce'
  BY <1>1, <1>2 DEF MainInv, PartsCountedOnce, Uncounted, totals, ever
<1>6. Counters' /\ RunsAddUp'
  BY <1>1, <1>2, RunsGoOn DEF Uncounted
<1>. QED
  BY <1>3, <1>4, <1>5, <1>6 DEF MainInv

(* A tick of the runtime keeps it.                                         *)
LEMMA ProcessTickInv ==
  ASSUME MainInv, ProcessTick PROVE MainInv'
<1>1. Inv'
  BY TickStepInv DEF MainInv, ProcessTick
<1>2. mode = "tick" /\ mode' = "tick"
  BY DEF ProcessTick
<1>3. Ending' /\ Budget' /\ EndsForAReason'
  BY <1>2 DEF MainInv, Ending, Budget, Modes, EndsForAReason, ProcessTick
<1>4. PartsCountedOnce'
  <2>1. /\ accepted \in Nat /\ accepted' \in Nat /\ rejected \in Nat /\ rejected' \in Nat
        /\ totalAccepted \in Nat /\ totalRejected \in Nat
    BY <1>1 DEF MainInv, Inv, TypeOK, Counters
  <2>. QED
    BY <1>2, <2>1 DEF MainInv, PartsCountedOnce, Uncounted, ProcessTick, totals
<1>5. Counters' /\ RunsAddUp'
  BY <1>2, RunsGoOn DEF Uncounted, ProcessTick
<1>. QED
  BY <1>1, <1>3, <1>4, <1>5 DEF MainInv

(* Looking at the tick keeps it, and adds a run that ended.                *)
LEMMA AfterTickInv ==
  ASSUME MainInv, AfterTick PROVE MainInv'
<1>1. /\ mode = "tick" /\ globalTick' = globalTick + 1
      /\ UNCHANGED <<terminatedByUser, ever>> /\ ~terminatedByUser
      /\ globalTick \in Nat /\ globalTick < MaxTicks
  BY DEF AfterTick, MainInv, Ending, Budget
<1>2. /\ processed \in Nat /\ accepted \in Nat /\ rejected \in Nat
      /\ processed = accepted + rejected
      /\ RunLength \in Nat /\ RunLength - 1 \in Nat
      /\ phase = "Finished" => processed = RunLength
      /\ phase = "Faulted" => processed <= RunLength - 1
  BY RunTally DEF MainInv
<1>3. /\ everAccepted = totalAccepted + accepted
      /\ everRejected = totalRejected + rejected
      /\ totalProcessed = totalAccepted + totalRejected
      /\ restartIndex = completedRuns + faultedRuns
      /\ completedRuns * RunLength <= totalProcessed
      /\ totalProcessed <= completedRuns * RunLength + faultedRuns * (RunLength - 1)
  BY <1>1 DEF MainInv, PartsCountedOnce, RunsAddUp, Uncounted, Counters
<1>4. /\ (completedRuns + 1) * RunLength = completedRuns * RunLength + RunLength
      /\ completedRuns * RunLength \in Nat
      /\ (faultedRuns + 1) * (RunLength - 1) = faultedRuns * (RunLength - 1) + (RunLength - 1)
      /\ faultedRuns * (RunLength - 1) \in Nat
  BY <1>2, OneMore DEF MainInv, Counters
<1>5. Counters
  BY DEF MainInv
<1>6. RunLength' = RunLength
  BY DEF RunLength
<1>. DEFINE R == RunLength
            C == completedRuns * RunLength
            F == faultedRuns * (RunLength - 1)
<1>7. Budget' \/ mode' = "tick"
  BY <1>1, MainLoopAssumption DEF Budget
<1>8. CASE /\ phase = "Finished"
           /\ AddToTotals
           /\ completedRuns' = completedRuns + 1
           /\ restartIndex' = restartIndex + 1
           /\ NewRuntime
           /\ mode' = "loop"
           /\ UNCHANGED faultedRuns
  <2>1. Inv' /\ phase' = "Boot" /\ accepted' = 0 /\ rejected' = 0
    BY <1>8, NewRuntimeInv
  <2>2. Ending' /\ EndsForAReason'
    BY <1>1, <1>8, <2>1 DEF Ending, Modes, EndsForAReason
  <2>3. Counters'
    BY <1>2, <1>5, <1>8 DEF Counters, AddToTotals
  <2>4. PartsCountedOnce'
    BY <1>1, <1>2, <1>3, <1>5, <1>8, <2>1
    DEF PartsCountedOnce, Uncounted, AddToTotals, Counters, ever
  <2>5. RunsAddUp'
    <3>1. completedRuns' * RunLength = C + R /\ faultedRuns' * (RunLength - 1) = F
      BY <1>4, <1>8
    <3>2. totalProcessed' = totalProcessed + R
      BY <1>2, <1>8 DEF AddToTotals
    <3>3. C + R <= totalProcessed + R /\ totalProcessed + R <= C + R + F
      <4>1. C \in Nat /\ F \in Nat /\ R \in Nat /\ totalProcessed \in Nat
        BY <1>2, <1>4, <1>5 DEF Counters
      <4>2. C <= totalProcessed /\ totalProcessed <= C + F
        BY <1>3
      <4>. HIDE DEF C, F, R
      <4>. QED
        BY <4>1, <4>2
    <3>4. restartIndex' = completedRuns' + faultedRuns' - 0 /\ Uncounted(1)' = 1
      BY <1>3, <1>5, <1>8, <2>1 DEF Counters, Uncounted
    <3>. HIDE DEF C, F, R
    <3>. QED
      BY <1>6, <3>1, <3>2, <3>3, <3>4 DEF RunsAddUp
  <2>. QED
    BY <1>8, <1>7, <2>1, <2>2, <2>3, <2>4, <2>5 DEF MainInv
<1>9. CASE /\ phase = "Faulted"
           /\ AddToTotals
           /\ faultedRuns' = faultedRuns + 1
           /\ mode' = "prompt"
           /\ UNCHANGED <<vars, restartIndex, completedRuns>>
  <2>1. Inv' /\ phase' = "Faulted"
    BY <1>9, UnmovedInv DEF MainInv, vars, lineVars, controllerVars, visionVars, progress
  <2>2. Ending' /\ EndsForAReason'
    BY <1>1, <1>9, <2>1 DEF Ending, Modes, EndsForAReason
  <2>3. Counters'
    BY <1>2, <1>5, <1>9 DEF Counters, AddToTotals
  <2>4. PartsCountedOnce'
    BY <1>1, <1>2, <1>3, <1>5, <1>9, <2>1
    DEF PartsCountedOnce, Uncounted, AddToTotals, Counters, ever
  <2>5. RunsAddUp'
    <3>1. completedRuns' * RunLength = C /\ faultedRuns' * (RunLength - 1) = F + (R - 1)
      BY <1>4, <1>9
    <3>2. totalProcessed' = totalProcessed + processed
      BY <1>9 DEF AddToTotals
    <3>3. C <= totalProcessed + processed /\ totalProcessed + processed <= C + (F + (R - 1))
      <4>1. C \in Nat /\ F \in Nat /\ R \in Nat /\ totalProcessed \in Nat
            /\ processed \in Nat /\ processed <= R - 1
        BY <1>2, <1>4, <1>5, <1>9 DEF Counters
      <4>2. C <= totalProcessed /\ totalProcessed <= C + F
        BY <1>3
      <4>. HIDE DEF C, F, R
      <4>. QED
        BY <4>1, <4>2
    <3>4. restartIndex' = completedRuns' + faultedRuns' - 1 /\ Uncounted(1)' = 0
      BY <1>3, <1>5, <1>9, <2>1 DEF Counters, Uncounted
    <3>. HIDE DEF C, F, R
    <3>. QED
      BY <1>6, <3>1, <3>2, <3>3, <3>4 DEF RunsAddUp
  <2>. QED
    BY <1>9, <1>7, <2>1, <2>2, <2>3, <2>4, <2>5 DEF MainInv
<1>10. CASE /\ ~Stopped
           /\ NextTick
           /\ mode' = "loop"
           /\ UNCHANGED <<totals, restartIndex, completedRuns, faultedRuns>>
  <2>1. UNCHANGED <<phase, processed, accepted, rejected>> /\ phase # "Faulted"
    BY <1>10 DEF NextTick, controllerVars, Stopped
  <2>2. Inv'
    BY <1>10, UnmovedInv DEF MainInv, NextTick, lineVars, controllerVars, visionVars, progress
  <2>3. Ending' /\ EndsForAReason'
    BY <1>1, <1>10, <2>1 DEF Ending, Modes, EndsForAReason
  <2>4. PartsCountedOnce'
    BY <1>1, <1>10, <2>1 DEF MainInv, PartsCountedOnce, Uncounted, totals, ever
  <2>5. Counters' /\ RunsAddUp'
    BY <1>1, <1>10, <2>1, RunsGoOn DEF Uncounted
  <2>. QED
    BY <1>10, <1>7, <2>2, <2>3, <2>4, <2>5 DEF MainInv
<1>. QED
  BY <1>8, <1>9, <1>10 DEF AfterTick

(* An answer to the prompt keeps it.                                       *)
LEMMA AnswerInv ==
  ASSUME MainInv, Answer PROVE MainInv'
<1>1. /\ mode = "prompt" /\ phase = "Faulted" /\ ~terminatedByUser
      /\ UNCHANGED <<globalTick, completedRuns, faultedRuns, totals, ever>>
  BY DEF Answer, MainInv, Ending
<1>2. CASE Resume
  <2>1. Inv' /\ phase' = "Boot" /\ accepted' = 0 /\ rejected' = 0
    BY <1>2, NewRuntimeInv DEF Resume
  <2>2. Ending' /\ Budget' /\ EndsForAReason'
    BY <1>1, <1>2, <2>1 DEF MainInv, Ending, Budget, Modes, EndsForAReason, Resume
  <2>3. PartsCountedOnce'
    BY <1>1, <1>2, <2>1 DEF MainInv, PartsCountedOnce, Uncounted, Resume, totals, ever
  <2>4. Counters'
    BY <1>1, <1>2 DEF MainInv, Counters, Resume, totals
  <2>5. RunsAddUp'
    <3>1. Uncounted(1) = 0 /\ Uncounted(1)' = 1
      BY <1>1, <1>2, <2>1 DEF Uncounted, Resume
    <3>2. RunLength' = RunLength
      BY DEF RunLength
    <3>3. restartIndex' = completedRuns + faultedRuns - 0
      BY <1>2, <3>1 DEF MainInv, RunsAddUp, Counters, Resume
    <3>. QED
      BY <1>1, <3>1, <3>2, <3>3 DEF MainInv, RunsAddUp, totals
  <2>. QED
    BY <2>1, <2>2, <2>3, <2>4, <2>5 DEF MainInv
<1>3. CASE Quit \/ AskAgain
  <2>1. UNCHANGED <<vars, restartIndex>> /\ mode' \in {"prompt", "summary"}
    BY <1>1, <1>3 DEF Quit, AskAgain
  <2>2. UNCHANGED <<phase, processed, accepted, rejected>>
    BY <2>1 DEF vars, controllerVars
  <2>3. Inv'
    BY <2>1, UnmovedInv DEF MainInv, vars, lineVars, controllerVars, visionVars, progress
  <2>4. Ending' /\ Budget' /\ EndsForAReason'
    BY <1>1, <1>3, <2>1, <2>2
    DEF MainInv, Ending, Budget, Modes, EndsForAReason, Quit, AskAgain
  <2>5. PartsCountedOnce'
    BY <1>1, <2>1, <2>2 DEF MainInv, PartsCountedOnce, Uncounted, totals, ever
  <2>6. Counters' /\ RunsAddUp'
    BY <1>1, <2>1, <2>2, RunsGoOn DEF Uncounted
  <2>. QED
    BY <2>3, <2>4, <2>5, <2>6 DEF MainInv
<1>. QED
  BY <1>2, <1>3 DEF Answer

(* So does a step that changes nothing.                                    *)
LEMMA MainUnmovedInv ==
  ASSUME MainInv, UNCHANGED mainVars PROVE MainInv'
<1>1. UNCHANGED <<vars, mode, globalTick, restartIndex, completedRuns, faultedRuns,
                  totals, terminatedByUser, ever, phase, processed, accepted, rejected>>
  BY DEF mainVars, vars, controllerVars
<1>2. Inv'
  BY <1>1, UnmovedInv DEF MainInv, vars, lineVars, controllerVars, visionVars, progress
<1>3. Ending' /\ Budget' /\ EndsForAReason' /\ PartsCountedOnce'
  BY <1>1 DEF MainInv, Ending, Budget, EndsForAReason, PartsCountedOnce, Uncounted, totals, ever
<1>4. Counters' /\ RunsAddUp'
  BY <1>1, RunsGoOn DEF Uncounted
<1>. QED
  BY <1>2, <1>3, <1>4 DEF MainInv

(* The invariant always holds.                                             *)
LEMMA MainInvAlways == MainSpec => []MainInv
<1>1. MainInv /\ [MainNext]_mainVars => MainInv'
  BY CheckBudgetInv, ProcessTickInv, AfterTickInv, AnswerInv, MainUnmovedInv
  DEF MainNext, MainStep, Exit
<1>. QED
  BY <1>1, MainInitInv, PTL DEF MainSpec

-----------------------------------------------------------------------------
(* No part is counted twice when its runtime is added to the totals and    *)
(* replaced, and none is forgotten.                                        *)
THEOREM TotalsAreSound == MainSpec => []PartsCountedOnce
<1>1. MainInv => PartsCountedOnce
  BY DEF MainInv
<1>. QED
  BY <1>1, MainInvAlways, PTL

(* A completed run has added its full length, a faulted one less, and      *)
(* every runtime but the last has been one or the other.                   *)
THEOREM RunsAreSound == MainSpec => []RunsAddUp
<1>1. MainInv => RunsAddUp
  BY DEF MainInv
<1>. QED
  BY <1>1, MainInvAlways, PTL

(* main ends with its budget spent to the tick, or at the operator's word  *)
(* after a fault.                                                          *)
THEOREM EndIsExplained == MainSpec => []EndsForAReason
<1>1. MainInv => EndsForAReason
  BY DEF MainInv
<1>. QED
  BY <1>1, MainInvAlways, PTL

=============================================================================
