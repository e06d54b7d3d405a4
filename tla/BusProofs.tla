----------------------------- MODULE BusProofs ------------------------------
(***************************************************************************)
(* The bus with any number of peers, buffers of any capacity, and any      *)
(* limit of passes.  The registry, the three kinds of buffers and the      *)
(* three loops are one broadcast channel, whoever joins or leaves; answers *)
(* wait for the next pass; a call that returns leaves nothing half done.   *)
(***************************************************************************)
EXTENDS BusEnv, SequenceTheorems, FiniteSetTheorems, TLAPS

Numbers == 1 .. sent

Entries == [source : Peers, frame : Nat]

TypeOK ==
  /\ sent \in Nat /\ sent <= MaxSent
  /\ before \in Nat /\ made \in Nat /\ progressed \in BOOLEAN
  /\ stage \in Stages
  /\ call \in {"none", "processSinglePass", "processFrames"}
  /\ devices \in Seq(Peers)
  /\ members \in [Peers -> Nat]
  /\ tx \in [Peers -> Seq(Nat)]
  /\ rx \in [Peers -> Seq(Nat)]
  /\ received \in [Peers -> Seq(Nat)]
  /\ bus \in Seq(Entries)
  /\ said \subseteq Entries

Bounded ==
  \A p \in Peers : /\ Len(rx[p]) <= QueueCapacity
                   /\ \A i \in DOMAIN rx[p] : rx[p][i] <= sent

(* Everybody is registered as often as they should be.                     *)
Registry == \A p \in Peers : members[p] = Copies(p)

(* A frame is in one place, and no longer once it has been distributed.    *)
InOnePlace ==
  /\ \A p, q \in Peers : \A i \in DOMAIN tx[p], j \in DOMAIN tx[q] :
       tx[p][i] = tx[q][j] => p = q /\ i = j
  /\ \A i, j \in DOMAIN bus : bus[i].frame = bus[j].frame => i = j
  /\ \A p \in Peers : \A i \in DOMAIN tx[p], j \in DOMAIN bus : tx[p][i] # bus[j].frame
  /\ \A p \in Peers : \A i \in DOMAIN tx[p] : \A e \in said : tx[p][i] # e.frame
  /\ \A j \in DOMAIN bus : \A e \in said : bus[j].frame # e.frame

(* No frame is sent before the frames of the pass are distributed.         *)
Timely ==
  /\ stage \in {"drain", "distribute"} => before = sent
  /\ stage = "process" => \A p \in Peers : \A i \in DOMAIN rx[p] : rx[p][i] <= before

(* What a pass has emptied.                                                *)
Emptied ==
  /\ call = "none" => stage = "idle"
  /\ stage = "process" => bus = <<>>
  /\ call # "none" /\ stage = "idle" => bus = <<>> /\ AllEmpty(rx)
  /\ call # "none" /\ stage # "drain" /\ ~progressed => AllEmpty(tx)

(* A call makes no more passes than it may.                                *)
Limited ==
  /\ made <= MaxProcessingPasses
  /\ stage # "idle" => made < MaxProcessingPasses

OnBus == {bus[i].frame : i \in DOMAIN bus}
Said == {e.frame : e \in said}

(* Every frame waits, is on the bus, was distributed, or is lost.          *)
Accounted == Waiting \cup OnBus \cup Said \cup lost = Numbers

Inv ==
  TypeOK /\ Bounded /\ Registry /\ InOnePlace /\ Timely /\ Emptied /\ Limited /\ Accounted

-----------------------------------------------------------------------------
(* Sequences.                                                              *)

(* A sequence with one element more.                                       *)
LEMMA Appended ==
  ASSUME NEW S, NEW q \in Seq(S), NEW e \in S
  PROVE  /\ Append(q, e) \in Seq(S)
         /\ DOMAIN Append(q, e) = DOMAIN q \cup {Len(q) + 1}
         /\ Len(q) + 1 \notin DOMAIN q
         /\ \A i \in DOMAIN q : Append(q, e)[i] = q[i]
         /\ Append(q, e)[Len(q) + 1] = e
         /\ Len(Append(q, e)) = Len(q) + 1
<1>1. DOMAIN q = 1 .. Len(q) /\ Len(q) \in Nat
  BY LenProperties
<1>. QED
  BY <1>1, AppendProperties, LenProperties

(* A sequence without its first element.                                   *)
LEMMA Shortened ==
  ASSUME NEW S, NEW q \in Seq(S), q # <<>>
  PROVE  /\ Tail(q) \in Seq(S) /\ Head(q) \in S /\ Head(q) = q[1]
         /\ Len(Tail(q)) = Len(q) - 1 /\ 1 \in DOMAIN q
         /\ \A i \in DOMAIN Tail(q) : i + 1 \in DOMAIN q /\ i # 0 /\ Tail(q)[i] = q[i + 1]
         /\ \A i \in DOMAIN q : i # 1 => i - 1 \in DOMAIN Tail(q) /\ Tail(q)[i - 1] = q[i]
         /\ DOMAIN q \subseteq Nat /\ DOMAIN Tail(q) \subseteq Nat
<1>1. DOMAIN q = 1 .. Len(q) /\ Len(q) \in Nat /\ Len(q) > 0
  BY LenProperties, EmptySeq
<1>2. Tail(q) \in Seq(S) /\ Len(Tail(q)) = Len(q) - 1
  BY HeadTailProperties
<1>3. DOMAIN Tail(q) = 1 .. Len(q) - 1
  BY <1>2, LenProperties
<1>4. \A i \in 1 .. Len(q) - 1 : Tail(q)[i] = q[i + 1]
  BY HeadTailProperties
<1>. QED
  BY <1>1, <1>2, <1>3, <1>4, HeadTailProperties

(* What a buffer takes of one frame.                                       *)
LEMMA PushedOne ==
  ASSUME NEW q \in Seq(Nat), NEW v
  PROVE  PushAll(q, <<v>>) = IF Len(q) < QueueCapacity THEN Append(q, v) ELSE q
<1>1. Len(q) \in Nat /\ QueueCapacity \in Nat /\ Len(<<v>>) = 1
  BY LenProperties, QueueCapacityAssumption
<1>2. CASE Len(q) < QueueCapacity
  <2>1. PushAll(q, <<v>>) = q \o SubSeq(<<v>>, 1, 1)
    BY <1>1, <1>2 DEF PushAll
  <2>2. SubSeq(<<v>>, 1, 1) = <<v>>
    BY SubSeqFull, <<v>> \in Seq({v}), <1>1
  <2>3. q \o <<v>> = Append(q, v)
    OBVIOUS
  <2>. QED
    BY <1>2, <2>1, <2>2, <2>3
<1>3. CASE ~(Len(q) < QueueCapacity)
  <2>1. PushAll(q, <<v>>) = q \o SubSeq(<<v>>, 1, QueueCapacity - Len(q))
    BY <1>1, <1>3 DEF PushAll
  <2>2. SubSeq(<<v>>, 1, QueueCapacity - Len(q)) = <<>>
    BY <1>1, <1>3, SubSeqEmpty
  <2>. QED
    BY <1>3, <2>1, <2>2, ConcatEmptySeq
<1>. QED
  BY <1>2, <1>3

(* What a buffer takes of k copies of a frame.                             *)
Least(k, n) == IF k < n THEN k ELSE n

(* Copies of a frame are taken up to the room there is.                    *)
LEMMA PushedCopies ==
  ASSUME NEW q \in Seq(Nat), Len(q) <= QueueCapacity, NEW v \in Nat, NEW k \in Nat
  PROVE  PushAll(q, [i \in 1 .. k |-> v])
           = q \o [i \in 1 .. Least(k, QueueCapacity - Len(q)) |-> v]
<1>. DEFINE fs == [i \in 1 .. k |-> v]
            room == QueueCapacity - Len(q)
            n == Least(k, room)
<1>1. Len(q) \in Nat /\ QueueCapacity \in Nat /\ room \in Nat
  BY LenProperties, QueueCapacityAssumption
<1>2. fs \in Seq({v}) /\ Len(fs) = k
  OBVIOUS
<1>3. n \in 0 .. k /\ n = IF k <= room THEN k ELSE room
  BY <1>1 DEF Least
<1>4. SubSeq(fs, 1, n) = [i \in 1 .. n |-> v]
  BY <1>2, <1>3
<1>5. PushAll(q, fs) = q \o SubSeq(fs, 1, n)
  BY <1>2, <1>3 DEF PushAll
<1>. QED
  BY <1>4, <1>5

-----------------------------------------------------------------------------
(* Where the frames are.                                                   *)

(* What waits is what some transmit buffer holds.                          *)
LEMMA InWaiting == \A x : x \in Waiting <=> \E q \in Peers : \E i \in DOMAIN tx[q] : tx[q][i] = x
BY DEF Waiting, Range

(* No frame has a number beyond the last, wherever it is.                  *)
LEMMA NumbersUsed ==
  ASSUME Accounted
  PROVE  /\ \A p \in Peers : \A i \in DOMAIN tx[p] : tx[p][i] \in Numbers
         /\ \A i \in DOMAIN bus : bus[i].frame \in Numbers
         /\ \A e \in said : e.frame \in Numbers
         /\ lost \subseteq Numbers
<1>1. \A p \in Peers : \A i \in DOMAIN tx[p] : tx[p][i] \in Waiting
  BY InWaiting
<1>2. \A i \in DOMAIN bus : bus[i].frame \in OnBus
  BY DEF OnBus
<1>3. \A e \in said : e.frame \in Said
  BY DEF Said
<1>. QED
  BY <1>1, <1>2, <1>3 DEF Accounted

(* The next number.                                                        *)
LEMMA Numbered ==
  ASSUME TypeOK, NEW q, NEW c, Number(q, c)
  PROVE  /\ sent + 1 \notin Numbers /\ sent + 1 \in Nat /\ sent' = sent + 1
         /\ Numbers' = Numbers \cup {sent + 1} /\ sent' \in Nat /\ sent' <= MaxSent
BY BusEnvAssumption, SMT DEF TypeOK, Number, Numbers

(* A peer sends a frame: it waits, or the buffer is full and it is lost.   *)
LEMMA SentOrLost ==
  ASSUME TypeOK, NEW p \in Peers, Number(tx[p], QueueCapacity), Send(p, <<sent + 1>>)
  PROVE  /\ tx' \in [Peers -> Seq(Nat)]
         /\ \/ /\ tx' = [tx EXCEPT ![p] = Append(tx[p], sent + 1)]
               /\ lost' = lost
            \/ /\ tx' = tx
               /\ lost' = lost \cup {sent + 1}
<1>1. tx[p] \in Seq(Nat) /\ tx \in [Peers -> Seq(Nat)] /\ sent + 1 \in Nat
  BY Numbered DEF TypeOK
<1>2. tx' = [tx EXCEPT ![p] = PushAll(tx[p], <<sent + 1>>)]
  BY DEF Send
<1>3. CASE Len(tx[p]) < QueueCapacity
  <2>1. tx' = [tx EXCEPT ![p] = Append(tx[p], sent + 1)]
    BY <1>1, <1>2, <1>3, PushedOne
  <2>2. Append(tx[p], sent + 1) \in Seq(Nat)
    BY <1>1, AppendProperties
  <2>. QED
    BY <1>1, <1>3, <2>1, <2>2 DEF Number
<1>4. CASE ~(Len(tx[p]) < QueueCapacity)
  <2>1. PushAll(tx[p], <<sent + 1>>) = tx[p]
    BY <1>1, <1>4, PushedOne
  <2>2. tx' = tx
    BY <1>1, <1>2, <2>1
  <2>. QED
    BY <1>1, <1>4, <2>2 DEF Number
<1>. QED
  BY <1>3, <1>4

Places == InOnePlace /\ Accounted

(* A new frame is in one place.                                            *)
LEMMA SendingPlaces ==
  ASSUME TypeOK, Places, NEW p \in Peers,
         Number(tx[p], QueueCapacity), Send(p, <<sent + 1>>),
         bus' = bus, said' = said
  PROVE  Places'
<1>1. /\ sent + 1 \notin Numbers /\ Numbers' = Numbers \cup {sent + 1}
      /\ tx[p] \in Seq(Nat) /\ tx \in [Peers -> Seq(Nat)] /\ sent + 1 \in Nat
  BY Numbered DEF TypeOK
<1>2. OnBus' = OnBus /\ Said' = Said
  BY DEF OnBus, Said
<1>3. CASE tx' = tx /\ lost' = lost \cup {sent + 1}
  <2>1. Waiting' = Waiting
    BY <1>3 DEF Waiting
  <2>2. Accounted'
    BY <1>1, <1>2, <1>3, <2>1 DEF Places, Accounted
  <2>. QED
    BY <1>3, <2>2 DEF Places, InOnePlace
<1>4. CASE tx' = [tx EXCEPT ![p] = Append(tx[p], sent + 1)] /\ lost' = lost
  <2>. DEFINE n == Len(tx[p]) + 1
  <2>1. /\ DOMAIN tx'[p] = DOMAIN tx[p] \cup {n} /\ n \notin DOMAIN tx[p]
        /\ \A i \in DOMAIN tx[p] : tx'[p][i] = tx[p][i]
        /\ tx'[p][n] = sent + 1
        /\ \A q \in Peers : q # p => tx'[q] = tx[q]
    BY <1>1, <1>4, Appended
  <2>. HIDE DEF n
  <2>2. \A q \in Peers : \A i \in DOMAIN tx'[q] :
          \/ q = p /\ i = n /\ tx'[q][i] = sent + 1
          \/ i \in DOMAIN tx[q] /\ tx'[q][i] = tx[q][i] /\ tx'[q][i] # sent + 1
    BY <1>1, <2>1, NumbersUsed DEF Places
  <2>3. Waiting' = Waiting \cup {sent + 1}
    <3>1. \A x : x \in Waiting' <=> \E q \in Peers : \E i \in DOMAIN tx'[q] : tx'[q][i] = x
      BY DEF Waiting, Range
    <3>2. \A x \in Waiting' : x \in Waiting \/ x = sent + 1
      BY <2>2, <3>1, InWaiting
    <3>3. \A x \in Waiting : x \in Waiting'
      BY <2>1, <3>1, InWaiting
    <3>4. sent + 1 \in Waiting'
      BY <2>1, <3>1
    <3>. QED
      BY <3>2, <3>3, <3>4
  <2>4. Accounted'
    BY <1>1, <1>2, <1>4, <2>3 DEF Places, Accounted
  <2>5. /\ \A i \in DOMAIN bus : bus[i].frame # sent + 1
        /\ \A e \in said : e.frame # sent + 1
    BY <1>1, NumbersUsed DEF Places
  <2>6. InOnePlace'
    BY <2>2, <2>5 DEF Places, InOnePlace
  <2>. QED
    BY <2>4, <2>6 DEF Places
<1>. QED
  BY <1>3, <1>4, SentOrLost

(* A frame is put on the bus from outside, or is lost.                     *)
LEMMA TransmittedOrLost ==
  ASSUME TypeOK, NEW p \in Peers, NEW f \in Nat, Transmit(p, f)
  PROVE  /\ bus' \in Seq(Entries)
         /\ bus' = IF Len(bus) < BusCapacity
                   THEN Append(bus, [source |-> p, frame |-> f]) ELSE bus
BY AppendProperties DEF Transmit, Push, TypeOK, Entries

(* A new frame from outside is in one place.                               *)
LEMMA OutsidePlaces ==
  ASSUME TypeOK, Places, NEW p \in Peers, TransmitFromOutside(p), said' = said
  PROVE  Places'
<1>1. /\ sent + 1 \notin Numbers /\ Numbers' = Numbers \cup {sent + 1}
      /\ bus \in Seq(Entries) /\ sent + 1 \in Nat /\ tx' = tx
      /\ bus' = IF Len(bus) < BusCapacity
                THEN Append(bus, [source |-> p, frame |-> sent + 1]) ELSE bus
  BY Numbered, TransmittedOrLost DEF TransmitFromOutside, TypeOK
<1>2. Waiting' = Waiting /\ Said' = Said
  BY <1>1 DEF Waiting, Said
<1>3. CASE ~(Len(bus) < BusCapacity)
  <2>1. bus' = bus /\ lost' = lost \cup {sent + 1}
    BY <1>1, <1>3 DEF TransmitFromOutside, Number
  <2>2. OnBus' = OnBus
    BY <2>1 DEF OnBus
  <2>3. Accounted'
    BY <1>1, <1>2, <2>1, <2>2 DEF Places, Accounted
  <2>. QED
    BY <1>1, <2>1, <2>3 DEF Places, InOnePlace
<1>4. CASE Len(bus) < BusCapacity
  <2>. DEFINE n == Len(bus) + 1
              e == [source |-> p, frame |-> sent + 1]
  <2>1. /\ DOMAIN bus' = DOMAIN bus \cup {n} /\ n \notin DOMAIN bus
        /\ \A i \in DOMAIN bus : bus'[i] = bus[i]
        /\ bus'[n].frame = sent + 1
    <3>1. e \in Entries /\ e.frame = sent + 1
      BY <1>1 DEF Entries
    <3>. HIDE DEF e
    <3>2. bus' = Append(bus, e)
      BY <1>1, <1>4 DEF e
    <3>. QED
      BY <1>1, <3>1, <3>2, Appended
  <2>2. lost' = lost
    BY <1>4 DEF TransmitFromOutside, Number
  <2>. HIDE DEF n, e
  <2>3. \A i \in DOMAIN bus' :
          \/ i = n /\ bus'[i].frame = sent + 1
          \/ i \in DOMAIN bus /\ bus'[i] = bus[i] /\ bus[i].frame # sent + 1
    BY <1>1, <2>1, NumbersUsed DEF Places
  <2>4. OnBus' = OnBus \cup {sent + 1}
    BY <2>1, <2>3 DEF OnBus
  <2>5. Accounted'
    BY <1>1, <1>2, <2>2, <2>4 DEF Places, Accounted
  <2>6. /\ \A q \in Peers : \A i \in DOMAIN tx[q] : tx[q][i] # sent + 1
        /\ \A x \in said : x.frame # sent + 1
    BY <1>1, NumbersUsed DEF Places
  <2>7. InOnePlace'
    BY <1>1, <2>3, <2>6 DEF Places, InOnePlace
  <2>. QED
    BY <2>5, <2>7 DEF Places
<1>. QED
  BY <1>3, <1>4

(* A frame leaves its sender for the bus, or is lost there.                *)
LEMMA DrainingPlaces ==
  ASSUME TypeOK, Places, NEW p \in Peers, DrainFrame(p),
         lost' = IF Len(bus) < BusCapacity THEN lost ELSE lost \cup {Head(tx[p])},
         said' = said, sent' = sent
  PROVE  Places' /\ tx' \in [Peers -> Seq(Nat)] /\ bus' \in Seq(Entries)
<1>. DEFINE h == Head(tx[p])
<1>1. /\ tx \in [Peers -> Seq(Nat)] /\ tx[p] \in Seq(Nat) /\ bus \in Seq(Entries)
      /\ tx[p] # <<>> /\ tx' = [tx EXCEPT ![p] = Tail(tx[p])]
  BY DEF TypeOK, DrainFrame, Turn
<1>2. /\ h \in Nat /\ h = tx[p][1] /\ 1 \in DOMAIN tx[p] /\ tx'[p] = Tail(tx[p])
      /\ \A q \in Peers : q # p => tx'[q] = tx[q]
  BY <1>1, Shortened
<1>3. /\ \A i \in DOMAIN tx'[p] :
           i \in Nat /\ i + 1 \in DOMAIN tx[p] /\ tx'[p][i] = tx[p][i + 1] /\ i + 1 # 1
      /\ \A i \in DOMAIN tx[p] : i # 1 => i - 1 \in DOMAIN tx'[p] /\ tx'[p][i - 1] = tx[p][i]
      /\ tx' \in [Peers -> Seq(Nat)]
  BY <1>1, <1>2, Shortened
<1>4. /\ bus' \in Seq(Entries)
      /\ bus' = IF Len(bus) < BusCapacity
                THEN Append(bus, [source |-> p, frame |-> h]) ELSE bus
  BY <1>2, TransmittedOrLost DEF DrainFrame
<1>. HIDE DEF h
<1>5. ASSUME NEW q \in Peers, NEW i \in DOMAIN tx'[q]
      PROVE  \E j \in DOMAIN tx[q] : /\ tx'[q][i] = tx[q][j]
                                     /\ q = p => j = i + 1 /\ j # 1 /\ i \in Nat
                                     /\ q # p => j = i
  <2>1. CASE q = p
    <3>1. /\ i \in Nat /\ i + 1 \in DOMAIN tx[p] /\ tx'[p][i] = tx[p][i + 1] /\ i + 1 # 1
      BY <1>3, <1>5, <2>1
    <3>. QED
      BY <2>1, <3>1
  <2>2. CASE q # p
    BY <1>2, <1>5, <2>2
  <2>. QED
    BY <2>1, <2>2
<1>6. Waiting = Waiting' \cup {h}
  <2>1. \A x : x \in Waiting' <=> \E q \in Peers : \E i \in DOMAIN tx'[q] : tx'[q][i] = x
    BY DEF Waiting, Range
  <2>2. \A x \in Waiting' : x \in Waiting
    BY <1>5, <2>1, InWaiting
  <2>3. ASSUME NEW x \in Waiting, x # h PROVE x \in Waiting'
    <3>1. PICK q \in Peers : \E i \in DOMAIN tx[q] : tx[q][i] = x
      BY <2>3, InWaiting
    <3>2. PICK i \in DOMAIN tx[q] : tx[q][i] = x
      BY <3>1
    <3>3. CASE q = p
      <4>1. i # 1
        BY <1>2, <2>3, <3>2, <3>3
      <4>2. i - 1 \in DOMAIN tx'[p] /\ tx'[p][i - 1] = tx[p][i]
        BY <1>3, <3>2, <3>3, <4>1
      <4>. QED
        BY <2>1, <3>2, <3>3, <4>2
    <3>4. CASE q # p
      BY <1>2, <2>1, <3>2, <3>4
    <3>. QED
      BY <3>3, <3>4
  <2>4. h \in Waiting
    BY <1>2, InWaiting
  <2>. QED
    BY <2>2, <2>3, <2>4
<1>7. \A q \in Peers : \A i \in DOMAIN tx'[q] : tx'[q][i] # h
  BY <1>2, <1>5 DEF Places, InOnePlace
<1>8. \A q, r \in Peers : \A i \in DOMAIN tx'[q], j \in DOMAIN tx'[r] :
        tx'[q][i] = tx'[r][j] => q = r /\ i = j
  <2>. SUFFICES ASSUME NEW q \in Peers, NEW r \in Peers, NEW i \in DOMAIN tx'[q],
                       NEW j \in DOMAIN tx'[r], tx'[q][i] = tx'[r][j]
                PROVE  q = r /\ i = j
    OBVIOUS
  <2>1. PICK k \in DOMAIN tx[q] : /\ tx'[q][i] = tx[q][k]
                                  /\ q = p => k = i + 1 /\ i \in Nat
                                  /\ q # p => k = i
    BY <1>5
  <2>2. PICK l \in DOMAIN tx[r] : /\ tx'[r][j] = tx[r][l]
                                  /\ r = p => l = j + 1 /\ j \in Nat
                                  /\ r # p => l = j
    BY <1>5
  <2>3. tx[q][k] = tx[r][l]
    BY <2>1, <2>2
  <2>4. q = r /\ k = l
    BY <2>3 DEF Places, InOnePlace
  <2>5. CASE q = p
    BY <2>1, <2>2, <2>4, <2>5
  <2>6. CASE q # p
    BY <2>1, <2>2, <2>4, <2>6
  <2>. QED
    BY <2>5, <2>6
<1>9. CASE ~(Len(bus) < BusCapacity)
  <2>1. bus' = bus /\ lost' = lost \cup {h}
    BY <1>4, <1>9 DEF h
  <2>2. OnBus' = OnBus /\ Said' = Said /\ Numbers' = Numbers
    BY <2>1 DEF OnBus, Said, Numbers
  <2>3. Accounted'
    BY <1>6, <2>1, <2>2 DEF Places, Accounted
  <2>4. InOnePlace'
    BY <1>5, <1>8, <2>1 DEF Places, InOnePlace
  <2>. QED
    BY <1>3, <1>4, <2>3, <2>4 DEF Places
<1>10. CASE Len(bus) < BusCapacity
  <2>. DEFINE n == Len(bus) + 1
              e == [source |-> p, frame |-> h]
  <2>1. e \in Entries /\ e.frame = h
    BY <1>2 DEF Entries
  <2>2. bus' = Append(bus, e) /\ lost' = lost
    BY <1>4, <1>10
  <2>. HIDE DEF e
  <2>3. /\ DOMAIN bus' = DOMAIN bus \cup {n} /\ n \notin DOMAIN bus
        /\ \A i \in DOMAIN bus : bus'[i] = bus[i]
        /\ bus'[n].frame = h
    BY <1>1, <2>1, <2>2, Appended
  <2>. HIDE DEF n
  <2>4. OnBus' = OnBus \cup {h} /\ Said' = Said /\ Numbers' = Numbers
    BY <2>3 DEF OnBus, Said, Numbers
  <2>5. Accounted'
    BY <1>6, <2>2, <2>4 DEF Places, Accounted
  <2>6. /\ \A i \in DOMAIN bus : bus[i].frame # h
        /\ \A x \in said : x.frame # h
    BY <1>2 DEF Places, InOnePlace
  <2>7. \A i \in DOMAIN bus' :
          \/ i = n /\ bus'[i].frame = h
          \/ i \in DOMAIN bus /\ bus'[i] = bus[i] /\ bus[i].frame # h
    BY <2>3, <2>6
  <2>8. /\ \A i, j \in DOMAIN bus' : bus'[i].frame = bus'[j].frame => i = j
        /\ \A j \in DOMAIN bus' : \A x \in said : bus'[j].frame # x.frame
    BY <2>6, <2>7 DEF Places, InOnePlace
  <2>9. \A q \in Peers : \A i \in DOMAIN tx'[q] :
          /\ \A j \in DOMAIN bus' : tx'[q][i] # bus'[j].frame
          /\ \A x \in said : tx'[q][i] # x.frame
    BY <1>5, <1>7, <2>7 DEF Places, InOnePlace
  <2>10. InOnePlace'
    BY <1>8, <2>8, <2>9 DEF InOnePlace
  <2>. QED
    BY <1>3, <1>4, <2>5, <2>10 DEF Places
<1>. QED
  BY <1>9, <1>10

(* A frame leaves the bus for everybody.                                   *)
LEMMA DistributingPlaces ==
  ASSUME TypeOK, Places, bus # <<>>, bus' = Tail(bus), said' = said \cup {Head(bus)},
         tx' = tx, lost' = lost, sent' = sent
  PROVE  /\ Places' /\ bus' \in Seq(Entries) /\ said' \subseteq Entries
         /\ Head(bus) \in Entries /\ Head(bus).frame \in Numbers
         /\ \A e \in said : e.frame # Head(bus).frame
<1>. DEFINE h == Head(bus)
<1>1. /\ bus \in Seq(Entries) /\ bus' \in Seq(Entries) /\ h \in Entries
      /\ h = bus[1] /\ 1 \in DOMAIN bus
      /\ \A i \in DOMAIN bus' :
           i \in Nat /\ i + 1 \in DOMAIN bus /\ bus'[i] = bus[i + 1] /\ i + 1 # 1
      /\ \A i \in DOMAIN bus : i # 1 => i - 1 \in DOMAIN bus' /\ bus'[i - 1] = bus[i]
  BY Shortened DEF TypeOK
<1>2. OnBus = OnBus' \cup {h.frame}
  <2>1. \A x : x \in OnBus' <=> \E i \in DOMAIN bus' : bus'[i].frame = x
    BY DEF OnBus
  <2>2. \A x : x \in OnBus <=> \E i \in DOMAIN bus : bus[i].frame = x
    BY DEF OnBus
  <2>3. \A x \in OnBus' : x \in OnBus
    BY <1>1, <2>1, <2>2
  <2>4. ASSUME NEW x \in OnBus, x # h.frame PROVE x \in OnBus'
    <3>1. PICK i \in DOMAIN bus : bus[i].frame = x
      BY <2>2, <2>4
    <3>2. i # 1
      BY <1>1, <2>4, <3>1
    <3>. QED
      BY <1>1, <2>1, <3>1, <3>2
  <2>5. h.frame \in OnBus
    BY <1>1, <2>2
  <2>. QED
    BY <2>3, <2>4, <2>5
<1>3. Said' = Said \cup {h.frame} /\ Waiting' = Waiting /\ Numbers' = Numbers
  BY DEF Said, Waiting, Numbers
<1>4. Accounted'
  BY <1>2, <1>3 DEF Places, Accounted
<1>5. \A i \in DOMAIN bus' : \E j \in DOMAIN bus :
        j = i + 1 /\ j # 1 /\ bus'[i] = bus[j] /\ i \in Nat
  BY <1>1
<1>6. \A i, j \in DOMAIN bus' : bus'[i].frame = bus'[j].frame => i = j
  <2>. SUFFICES ASSUME NEW i \in DOMAIN bus', NEW j \in DOMAIN bus', bus'[i].frame = bus'[j].frame
                PROVE  i = j
    OBVIOUS
  <2>1. /\ i \in Nat /\ j \in Nat /\ i + 1 \in DOMAIN bus /\ j + 1 \in DOMAIN bus
        /\ bus[i + 1].frame = bus[j + 1].frame
    BY <1>1
  <2>2. i + 1 = j + 1
    BY <2>1 DEF Places, InOnePlace
  <2>. QED
    BY <2>1, <2>2
<1>7. \A i \in DOMAIN bus' : bus'[i].frame # h.frame
  BY <1>1, <1>5 DEF Places, InOnePlace
<1>8. /\ \A e \in said : e.frame # h.frame
      /\ \A q \in Peers : \A i \in DOMAIN tx[q] : tx[q][i] # h.frame
  BY <1>1 DEF Places, InOnePlace
<1>. HIDE DEF h
<1>9. said' = said \cup {h}
  BY DEF h
<1>10. InOnePlace'
  BY <1>5, <1>6, <1>7, <1>8, <1>9 DEF Places, InOnePlace
<1>11. h.frame \in Numbers
  BY <1>1, NumbersUsed DEF Places
<1>. QED
  BY <1>1, <1>4, <1>8, <1>9, <1>10, <1>11 DEF Places, TypeOK, h

(* clearFrames loses what is on the bus.                                   *)
LEMMA ClearingPlaces ==
  ASSUME TypeOK, Places, ClearFrames, said' = said
  PROVE  Places' /\ bus' \in Seq(Entries)
<1>1. DOMAIN bus' = {} /\ bus' \in Seq(Entries) /\ lost' = lost \cup OnBus
  BY DEF ClearFrames, OnBus
<1>2. OnBus' = {} /\ Said' = Said /\ Waiting' = Waiting /\ Numbers' = Numbers
  BY <1>1 DEF OnBus, Said, Waiting, Numbers, ClearFrames
<1>3. Accounted'
  BY <1>1, <1>2 DEF Places, Accounted
<1>. QED
  BY <1>1, <1>3 DEF Places, InOnePlace, ClearFrames

(* Nothing about the places of frames changes.                             *)
LEMMA SamePlaces ==
  Places /\ UNCHANGED <<tx, bus, said, lost, sent>> => Places'
BY DEF Places, InOnePlace, Accounted, Waiting, OnBus, Said, Numbers

-----------------------------------------------------------------------------
(* The registry.                                                           *)

Slots(s, d) == {i \in DOMAIN s : s[i] = d}

(* A peer's slots of the registry can be counted.                          *)
LEMMA SlotsFinite ==
  ASSUME NEW S, NEW s \in Seq(S), NEW d
  PROVE  IsFiniteSet(Slots(s, d)) /\ Cardinality(Slots(s, d)) \in Nat
<1>1. DOMAIN s = 1 .. Len(s) /\ Len(s) \in Nat
  BY LenProperties
<1>2. IsFiniteSet(1 .. Len(s)) /\ Slots(s, d) \in SUBSET (1 .. Len(s))
  BY <1>1, FS_Interval DEF Slots
<1>. QED
  BY <1>2, FS_Subset, FS_CardinalityType

(* The newcomer takes one slot more.                                       *)
LEMMA RegisterCounts ==
  ASSUME devices \in Seq(Peers), NEW p \in Peers, Register(p)
  PROVE  /\ devices' \in Seq(Peers)
         /\ \A q \in Peers : Copies(q)' = IF q = p THEN Copies(q) + 1 ELSE Copies(q)
<1>. DEFINE n == Len(devices) + 1
<1>1. /\ devices' \in Seq(Peers)
      /\ DOMAIN devices' = DOMAIN devices \cup {n} /\ n \notin DOMAIN devices
      /\ \A i \in DOMAIN devices : devices'[i] = devices[i]
      /\ devices'[n] = p
  BY Appended DEF Register
<1>. HIDE DEF n
<1>2. ASSUME NEW q \in Peers
      PROVE  Copies(q)' = IF q = p THEN Copies(q) + 1 ELSE Copies(q)
  <2>1. CASE q = p
    <3>1. Slots(devices', q) = Slots(devices, q) \cup {n} /\ n \notin Slots(devices, q)
      BY <1>1, <2>1 DEF Slots
    <3>2. Cardinality(Slots(devices', q)) = Cardinality(Slots(devices, q)) + 1
      BY <3>1, SlotsFinite, FS_AddElement
    <3>. QED
      BY <2>1, <3>2 DEF Copies, Slots
  <2>2. CASE q # p
    <3>1. Slots(devices', q) = Slots(devices, q)
      BY <1>1, <2>2 DEF Slots
    <3>. QED
      BY <2>2, <3>1 DEF Copies, Slots
  <2>. QED
    BY <2>1, <2>2
<1>. QED
  BY <1>1, <1>2

(* The last device moves into the slot that became free: whoever leaves    *)
(* has one slot less and everybody else as many as before.                 *)
LEMMA UnregisterCounts ==
  ASSUME devices \in Seq(Peers), NEW p \in Peers, Unregister(p)
  PROVE  /\ devices' \in Seq(Peers)
         /\ Copies(p) > 0
         /\ \A q \in Peers : Copies(q)' = IF q = p THEN Copies(q) - 1 ELSE Copies(q)
<1>. DEFINE n == Len(devices)
<1>1. PICK k \in DOMAIN devices :
        /\ devices[k] = p
        /\ devices' = SubSeq([devices EXCEPT ![k] = devices[n]], 1, n - 1)
  BY DEF Unregister
<1>2. DOMAIN devices = 1 .. n /\ n \in Nat /\ k \in 1 .. n /\ n \in DOMAIN devices
  BY <1>1, LenProperties, SMT
<1>. DEFINE moved == [devices EXCEPT ![k] = devices[n]]
<1>3. moved \in Seq(Peers) /\ Len(moved) = n
  BY <1>2, ExceptSeq, ElementOfSeq
<1>4. \A i \in 1 .. n : moved[i] = IF i = k THEN devices[n] ELSE devices[i]
  BY <1>2
<1>. HIDE DEF moved
<1>5. /\ devices' \in Seq(Peers)
      /\ DOMAIN devices' = 1 .. n - 1
      /\ \A i \in 1 .. n - 1 : devices'[i] = moved[i]
  <2>1. devices' = SubSeq(moved, 1, n - 1)
    BY <1>1 DEF moved
  <2>. QED
    BY <1>2, <1>3, <2>1
<1>6. \A i \in 1 .. n - 1 : devices'[i] = IF i = k THEN devices[n] ELSE devices[i]
  BY <1>4, <1>5
<1>. HIDE DEF n
<1>7. Copies(p) > 0
  <2>1. k \in Slots(devices, p) /\ Slots(devices, p) # {}
    BY <1>1 DEF Slots
  <2>2. Cardinality(Slots(devices, p)) \in Nat /\ Cardinality(Slots(devices, p)) # 0
    BY <2>1, SlotsFinite, FS_EmptySet
  <2>. QED
    BY <2>2 DEF Copies, Slots
<1>8. ASSUME NEW q \in Peers
      PROVE  Copies(q)' = IF q = p THEN Copies(q) - 1 ELSE Copies(q)
  <2>. DEFINE A == Slots(devices, q)
              C == Slots(devices', q)
  <2>1. \A i : i \in A <=> i \in 1 .. n /\ devices[i] = q
    BY <1>2 DEF Slots
  <2>2. \A i : i \in C <=> i \in 1 .. n - 1 /\ devices'[i] = q
    BY <1>5 DEF Slots
  <2>3. \A i : i \in C <=> i \in 1 .. n /\ i # n /\ q = IF i = k THEN devices[n] ELSE devices[i]
    BY <1>2, <1>6, <2>2, SMT
  <2>4. IsFiniteSet(A) /\ Cardinality(A) \in Nat
    BY SlotsFinite
  <2>5. Copies(q) = Cardinality(A) /\ Copies(q)' = Cardinality(C)
    BY DEF Copies, Slots
  <2>. HIDE DEF A, C
  <2>6. CASE k = n \/ devices[n] = p
    <3>1. CASE q = p
      <4>1. n \in A /\ C = A \ {n}
        BY <1>1, <1>2, <2>1, <2>3, <2>6, <3>1
      <4>2. Cardinality(C) = Cardinality(A) - 1
        BY <2>4, <4>1, FS_RemoveElement
      <4>. QED
        BY <2>5, <3>1, <4>2
    <3>2. CASE q # p
      <4>1. C = A
        BY <1>1, <1>2, <2>1, <2>3, <2>6, <3>2
      <4>. QED
        BY <2>5, <3>2, <4>1
    <3>. QED
      BY <3>1, <3>2
  <2>7. CASE k # n /\ devices[n] # p
    <3>1. CASE q = p
      <4>1. k \in A /\ C = A \ {k}
        BY <1>1, <1>2, <2>1, <2>3, <2>7, <3>1
      <4>2. Cardinality(C) = Cardinality(A) - 1
        BY <2>4, <4>1, FS_RemoveElement
      <4>. QED
        BY <2>5, <3>1, <4>2
    <3>2. CASE q # p /\ devices[n] = q
      <4>1. n \in A /\ k \notin A \ {n} /\ C = (A \ {n}) \cup {k}
        BY <1>1, <1>2, <2>1, <2>3, <2>7, <3>2
      <4>2. Cardinality(A \ {n}) = Cardinality(A) - 1 /\ IsFiniteSet(A \ {n})
        BY <2>4, <4>1, FS_RemoveElement
      <4>3. Cardinality(C) = Cardinality(A \ {n}) + 1
        BY <4>1, <4>2, FS_AddElement
      <4>. QED
        BY <2>4, <2>5, <3>2, <4>2, <4>3
    <3>3. CASE q # p /\ devices[n] # q
      <4>1. ASSUME NEW i PROVE i \in C <=> i \in A
        <5>1. CASE i = k
          BY <1>1, <2>1, <2>3, <3>3, <5>1
        <5>2. CASE i # k
          BY <2>1, <2>3, <3>3, <5>2
        <5>. QED
          BY <5>1, <5>2
      <4>2. C = A
        BY <4>1, Zenon
      <4>. QED
        BY <2>5, <3>3, <4>2
    <3>. QED
      BY <3>1, <3>2, <3>3
  <2>. QED
    BY <2>6, <2>7
<1>. QED
  BY <1>5, <1>7, <1>8

-----------------------------------------------------------------------------
(* What everybody gets of an entry of the bus.                             *)
Share(e, d) ==
  IF d = e.source THEN 0 ELSE Least(Copies(d), QueueCapacity - Len(rx[d]))

(* Everybody but the source gets copies, up to the room there is.          *)
LEMMA Delivered ==
  ASSUME TypeOK, Bounded, NEW e \in Entries, e.frame \in Numbers
  PROVE  /\ Deliver(e) \in [Peers -> Seq(Nat)]
         /\ \A d \in Peers :
              /\ Share(e, d) \in Nat
              /\ Deliver(e)[d] = rx[d] \o [i \in 1 .. Share(e, d) |-> e.frame]
              /\ Len(Deliver(e)[d]) <= QueueCapacity
              /\ \A i \in DOMAIN Deliver(e)[d] : Deliver(e)[d][i] <= sent
<1>1. DOMAIN rx = Peers /\ QueueCapacity \in Nat
  BY QueueCapacityAssumption DEF TypeOK
<1>2. ASSUME NEW d \in Peers
      PROVE  /\ Deliver(e)[d] \in Seq(Nat) /\ Share(e, d) \in Nat
             /\ Deliver(e)[d] = rx[d] \o [i \in 1 .. Share(e, d) |-> e.frame]
             /\ Len(Deliver(e)[d]) <= QueueCapacity
             /\ \A i \in DOMAIN Deliver(e)[d] : Deliver(e)[d][i] <= sent
  <2>. DEFINE k == Share(e, d)
              q == rx[d]
              t == [i \in 1 .. k |-> e.frame]
  <2>1. /\ q \in Seq(Nat) /\ Len(q) \in Nat /\ Len(q) <= QueueCapacity
        /\ \A i \in DOMAIN q : q[i] <= sent
    BY LenProperties DEF TypeOK, Bounded
  <2>2. e.frame \in Nat /\ e.frame <= sent /\ sent \in Nat
    BY SMT DEF Numbers, Entries, TypeOK
  <2>3. Copies(d) \in Nat
    BY SlotsFinite DEF TypeOK, Copies, Slots
  <2>4. k \in Nat /\ k <= QueueCapacity - Len(q)
    BY <1>1, <2>1, <2>3 DEF Share, Least
  <2>5. Deliver(e)[d] = q \o t
    <3>1. CASE d = e.source
      <4>1. k = 0 /\ t = <<>>
        BY <3>1 DEF Share
      <4>2. Deliver(e)[d] = q
        BY <1>1, <3>1 DEF Deliver
      <4>. QED
        BY <2>1, <4>1, <4>2, ConcatEmptySeq
    <3>2. CASE d # e.source
      <4>1. Deliver(e)[d] = PushAll(q, [i \in 1 .. Copies(d) |-> e.frame])
        BY <1>1, <3>2 DEF Deliver
      <4>2. k = Least(Copies(d), QueueCapacity - Len(q))
        BY <3>2 DEF Share
      <4>3. PushAll(q, [i \in 1 .. Copies(d) |-> e.frame])
              = q \o [i \in 1 .. Least(Copies(d), QueueCapacity - Len(q)) |-> e.frame]
        BY <2>1, <2>2, <2>3, PushedCopies
      <4>. QED
        BY <4>1, <4>2, <4>3
    <3>. QED
      BY <3>1, <3>2
  <2>. HIDE DEF k, q
  <2>6. t \in Seq(Nat) /\ Len(t) = k /\ \A i \in 1 .. k : t[i] = e.frame
    BY <2>2, <2>4
  <2>. HIDE DEF t
  <2>7. /\ q \o t \in Seq(Nat) /\ Len(q \o t) = Len(q) + k
        /\ \A i \in 1 .. Len(q) + k :
             (q \o t)[i] = IF i <= Len(q) THEN q[i] ELSE t[i - Len(q)]
    BY <2>1, <2>6, ConcatProperties
  <2>8. Len(q \o t) <= QueueCapacity
    BY <1>1, <2>1, <2>4, <2>7
  <2>9. DOMAIN (q \o t) = 1 .. Len(q) + k /\ DOMAIN q = 1 .. Len(q)
    BY <2>1, <2>7, LenProperties
  <2>10. ASSUME NEW i \in DOMAIN (q \o t) PROVE (q \o t)[i] <= sent
    <3>1. CASE i <= Len(q)
      BY <2>1, <2>7, <2>9, <3>1
    <3>2. CASE ~(i <= Len(q))
      <4>1. i - Len(q) \in 1 .. k
        BY <2>1, <2>4, <2>9, <3>2
      <4>. QED
        BY <2>2, <2>6, <2>7, <2>9, <3>2, <4>1
    <3>. QED
      BY <3>1, <3>2
  <2>11. k = Share(e, d) /\ q = rx[d] /\ t = [i \in 1 .. Share(e, d) |-> e.frame]
    BY DEF k, q, t
  <2>. QED
    BY <2>4, <2>5, <2>7, <2>8, <2>10, <2>11
<1>3. Deliver(e) = [d \in Peers |-> Deliver(e)[d]]
  BY <1>1 DEF Deliver
<1>. QED
  BY <1>2, <1>3

-----------------------------------------------------------------------------
(* The invariant.                                                          *)

(* An empty bus satisfies the invariant.                                   *)
LEMMA InvInit == Init => Inv
<1>. SUFFICES ASSUME Init PROVE Inv
  OBVIOUS
<1>1. MaxSent \in Nat /\ QueueCapacity \in Nat
  BY BusEnvAssumption, QueueCapacityAssumption
<1>2. TypeOK
  <2>1. <<>> \in Seq(Nat) /\ <<>> \in Seq(Peers) /\ <<>> \in Seq(Entries)
    BY EmptySeq
  <2>2. /\ tx \in [Peers -> Seq(Nat)] /\ rx \in [Peers -> Seq(Nat)]
        /\ received \in [Peers -> Seq(Nat)] /\ members \in [Peers -> Nat]
    BY <2>1 DEF Init
  <2>3. sent \in Nat /\ sent <= MaxSent /\ before \in Nat /\ made \in Nat
    BY <1>1 DEF Init
  <2>. QED
    BY <2>1, <2>2, <2>3 DEF Init, TypeOK, Stages
<1>3. Registry
  <2>1. \A p : Slots(devices, p) = {}
    BY DEF Init, Slots
  <2>2. \A p : Copies(p) = 0
    BY <2>1, FS_EmptySet DEF Copies, Slots
  <2>. QED
    BY <2>2 DEF Init, Registry
<1>4. Bounded
  BY <1>1, EmptySeq DEF Init, Bounded
<1>5. InOnePlace
  BY DEF Init, InOnePlace
<1>6. Waiting = {} /\ OnBus = {} /\ Said = {} /\ lost = {} /\ Numbers = {}
  BY SMT DEF Init, Waiting, Range, OnBus, Said, Numbers
<1>. QED
  BY <1>2, <1>3, <1>4, <1>5, <1>6, BusEnvAssumption
  DEF Init, Inv, Timely, Emptied, Limited, Accounted

(* Sending, registering and the like, between two calls, keep it.          *)
LEMMA OutsideInv == Inv /\ Outside => Inv'
<1>. SUFFICES ASSUME Inv, Outside PROVE Inv'
  OBVIOUS
<1>1. /\ rx' = rx /\ stage' = stage /\ call' = call /\ made' = made /\ progressed' = progressed
      /\ before' = before /\ said' = said /\ received' = received
      /\ call = "none" /\ stage = "idle"
      /\ TypeOK /\ Places
  BY DEF Outside, Inv, Emptied, Places
<1>2. Timely' /\ Emptied' /\ Limited'
  BY <1>1 DEF Inv, Timely, Emptied, Limited
<1>3. ASSUME sent' \in Nat, sent' >= sent PROVE Bounded'
  BY <1>1, <1>3, SMT DEF Inv, Bounded, TypeOK
<1>4. devices' = devices => \A p : Copies(p)' = Copies(p)
  BY DEF Copies
<1>5. ASSUME NEW p \in Peers, SendByItself(p) PROVE Inv'
  <2>1. Places' /\ tx' \in [Peers -> Seq(Nat)]
    BY <1>1, <1>5, SendingPlaces, SentOrLost DEF SendByItself
  <2>2. sent' \in Nat /\ sent' <= MaxSent /\ sent' >= sent
    BY <1>1, <1>5, Numbered, SMT DEF SendByItself, TypeOK
  <2>3. TypeOK'
    BY <1>1, <1>5, <2>1, <2>2 DEF TypeOK, SendByItself, Entries
  <2>4. Registry'
    BY <1>4, <1>5 DEF SendByItself, Inv, Registry
  <2>. QED
    BY <1>2, <1>3, <2>1, <2>2, <2>3, <2>4 DEF Inv, Places
<1>6. ASSUME NEW p \in Peers, TransmitFromOutside(p) PROVE Inv'
  <2>1. sent' \in Nat /\ sent' <= MaxSent /\ sent' >= sent /\ sent + 1 \in Nat
    BY <1>1, <1>6, Numbered, SMT DEF TransmitFromOutside, TypeOK
  <2>2. Places' /\ bus' \in Seq(Entries)
    BY <1>1, <1>6, <2>1, OutsidePlaces, TransmittedOrLost DEF TransmitFromOutside
  <2>3. TypeOK'
    BY <1>1, <1>6, <2>1, <2>2 DEF TypeOK, TransmitFromOutside, Entries
  <2>4. Registry'
    BY <1>4, <1>6 DEF TransmitFromOutside, Inv, Registry
  <2>. QED
    BY <1>2, <1>3, <2>1, <2>2, <2>3, <2>4 DEF Inv, Places
<1>7. ASSUME NEW p \in Peers, ChangeRegistry(p) PROVE Inv'
  <2>1. Places' /\ sent' = sent /\ sent \in Nat
    BY <1>1, <1>7, SamePlaces DEF ChangeRegistry, TypeOK
  <2>2. devices' \in Seq(Peers) /\ members' \in [Peers -> Nat] /\ Registry'
    <3>1. devices \in Seq(Peers) /\ members \in [Peers -> Nat] /\ Registry
      BY <1>1 DEF TypeOK, Inv
    <3>2. CASE Register(p) /\ members' = [members EXCEPT ![p] = @ + 1]
      <4>1. /\ devices' \in Seq(Peers)
            /\ \A q \in Peers : Copies(q)' = IF q = p THEN Copies(q) + 1 ELSE Copies(q)
        BY <3>1, <3>2, RegisterCounts
      <4>. QED
        BY <3>1, <3>2, <4>1 DEF Registry
    <3>3. CASE Unregister(p) /\ members' = [members EXCEPT ![p] = @ - 1]
      <4>1. /\ devices' \in Seq(Peers) /\ Copies(p) > 0
            /\ \A q \in Peers : Copies(q)' = IF q = p THEN Copies(q) - 1 ELSE Copies(q)
        BY <3>1, <3>3, UnregisterCounts
      <4>2. members[p] - 1 \in Nat
        BY <3>1, <4>1 DEF Registry
      <4>. QED
        BY <3>1, <3>3, <4>1, <4>2 DEF Registry
    <3>. QED
      BY <1>7, <3>2, <3>3 DEF ChangeRegistry
  <2>3. TypeOK'
    BY <1>1, <1>7, <2>1, <2>2 DEF TypeOK, ChangeRegistry, Entries
  <2>. QED
    BY <1>2, <1>3, <2>1, <2>2, <2>3 DEF Inv, Places
<1>8. CASE ClearFrames
  <2>1. Places' /\ bus' \in Seq(Entries)
    BY <1>1, <1>8, ClearingPlaces
  <2>2. TypeOK'
    BY <1>1, <1>8, <2>1 DEF TypeOK, ClearFrames, Entries
  <2>3. Registry'
    BY <1>4, <1>8 DEF ClearFrames, Inv, Registry
  <2>4. sent' = sent /\ sent \in Nat
    BY <1>1, <1>8 DEF ClearFrames, TypeOK
  <2>. QED
    BY <1>2, <1>3, <2>1, <2>2, <2>3, <2>4 DEF Inv, Places
<1>. QED
  BY <1>5, <1>6, <1>7, <1>8 DEF Outside

(* The start of a pass keeps it.                                           *)
LEMMA StartPassInv ==
  ASSUME Inv, StartPass, call' \in {"processSinglePass", "processFrames"}, made' \in Nat,
         made' < MaxProcessingPasses
  PROVE  Inv'
<1>1. Places' /\ \A p : Copies(p)' = Copies(p)
  BY SamePlaces DEF StartPass, Inv, Places, Copies
<1>2. TypeOK'
  BY DEF StartPass, BeginPass, Inv, TypeOK, Entries, Stages
<1>3. Bounded' /\ Registry'
  BY <1>1 DEF StartPass, Inv, Bounded, Registry
<1>4. Timely' /\ Emptied' /\ Limited'
  BY BusEnvAssumption DEF StartPass, BeginPass, Timely, Emptied, Limited
<1>. QED
  BY <1>1, <1>2, <1>3, <1>4 DEF Inv, Places

(* A frame drained to the bus keeps it.                                    *)
LEMMA DrainInv ==
  ASSUME Inv, Drain, progressed' = TRUE, UNCHANGED <<devices, call, made, before, members>>
  PROVE  Inv'
<1>1. PICK p \in Peers :
        /\ DrainFrame(p)
        /\ lost' = IF Len(bus) < BusCapacity THEN lost ELSE lost \cup {Head(tx[p])}
  BY DEF Drain
<1>2. /\ said' = said /\ received' = received /\ sent' = sent /\ rx' = rx
      /\ stage = "drain" /\ stage' = "drain" /\ TypeOK /\ Places
  BY <1>1 DEF Drain, DrainFrame, Inv, Places
<1>3. Places' /\ tx' \in [Peers -> Seq(Nat)] /\ bus' \in Seq(Entries)
  BY <1>1, <1>2, DrainingPlaces
<1>4. TypeOK'
  BY <1>2, <1>3 DEF TypeOK, Entries
<1>5. Bounded' /\ Registry'
  BY <1>2 DEF Inv, Bounded, Registry, Copies
<1>6. Timely' /\ Emptied' /\ Limited'
  BY <1>2 DEF Inv, Timely, Emptied, Limited
<1>. QED
  BY <1>3, <1>4, <1>5, <1>6 DEF Inv, Places

(* An entry distributed keeps it.                                          *)
LEMMA DistributeInv ==
  ASSUME Inv, Distribute, progressed' = TRUE, UNCHANGED <<devices, call, made, before, members>>
  PROVE  Inv'
<1>1. /\ bus # <<>> /\ bus' = Tail(bus) /\ said' = said \cup {Head(bus)}
      /\ tx' = tx /\ lost' = lost /\ sent' = sent /\ received' = received
      /\ stage = "distribute" /\ stage' = "distribute"
      /\ rx' = Deliver(Head(bus)) /\ TypeOK /\ Places
  BY DEF Distribute, DistributeFrame, Inv, Places
<1>2. /\ Places' /\ bus' \in Seq(Entries) /\ said' \subseteq Entries
      /\ Head(bus) \in Entries /\ Head(bus).frame \in Numbers
  BY <1>1, DistributingPlaces
<1>3. /\ rx' \in [Peers -> Seq(Nat)]
      /\ \A d \in Peers : /\ Len(rx'[d]) <= QueueCapacity
                          /\ \A i \in DOMAIN rx'[d] : rx'[d][i] <= sent
  BY <1>1, <1>2, Delivered DEF Inv
<1>4. TypeOK'
  BY <1>1, <1>2, <1>3 DEF TypeOK, Entries
<1>5. Bounded' /\ Registry'
  BY <1>1, <1>3 DEF Inv, Bounded, Registry, Copies
<1>6. Timely' /\ Emptied' /\ Limited'
  BY <1>1 DEF Inv, Timely, Emptied, Limited
<1>. QED
  BY <1>2, <1>4, <1>5, <1>6 DEF Inv, Places

(* What a peer takes out of its buffer.                                    *)
LEMMA Taken ==
  ASSUME TypeOK, NEW p \in Peers, TakeFrame(p)
  PROVE  /\ rx[p] \in Seq(Nat) /\ rx[p] # <<>>
         /\ Head(rx[p]) \in Nat /\ Head(rx[p]) = rx[p][1] /\ 1 \in DOMAIN rx[p]
         /\ rx' = [rx EXCEPT ![p] = Tail(rx[p])] /\ rx' \in [Peers -> Seq(Nat)]
         /\ \A q \in Peers : Len(rx'[q]) <= Len(rx[q])
         /\ \A q \in Peers : \A i \in DOMAIN rx'[q] : \E j \in DOMAIN rx[q] : rx'[q][i] = rx[q][j]
<1>1. /\ rx \in [Peers -> Seq(Nat)] /\ rx[p] \in Seq(Nat) /\ rx[p] # <<>>
      /\ rx' = [rx EXCEPT ![p] = Tail(rx[p])]
  BY DEF TypeOK, TakeFrame, Turn
<1>2. /\ Tail(rx[p]) \in Seq(Nat) /\ Len(Tail(rx[p])) <= Len(rx[p])
      /\ \A i \in DOMAIN Tail(rx[p]) : \E j \in DOMAIN rx[p] : Tail(rx[p])[i] = rx[p][j]
  BY <1>1, Shortened, LenProperties
<1>3. \A q \in Peers : Len(rx[q]) \in Nat
  BY <1>1, LenProperties
<1>4. \A q \in Peers : rx'[q] = IF q = p THEN Tail(rx[p]) ELSE rx[q]
  BY <1>1
<1>5. ASSUME NEW q \in Peers
      PROVE  /\ Len(rx'[q]) <= Len(rx[q])
             /\ \A i \in DOMAIN rx'[q] : \E j \in DOMAIN rx[q] : rx'[q][i] = rx[q][j]
  <2>1. CASE q = p
    <3>1. rx'[q] = Tail(rx[p]) /\ rx[q] = rx[p]
      BY <1>4, <2>1
    <3>. QED
      BY <1>2, <3>1
  <2>2. CASE q # p
    BY <1>3, <1>4, <2>2
  <2>. QED
    BY <2>1, <2>2
<1>. QED
  BY <1>1, <1>2, <1>5, Shortened

(* A frame handled, with the answers it causes, keeps it.                  *)
LEMMA TakeInv ==
  ASSUME Inv, NEW p \in Peers, Take(p), progressed' = TRUE,
         UNCHANGED <<devices, call, made, before, members>>
  PROVE  Inv'
<1>1. /\ said' = said /\ bus' = bus /\ stage = "process" /\ stage' = "process"
      /\ TakeFrame(p) /\ TypeOK /\ Places
  BY DEF Take, TakeFrame, Inv, Places
<1>2. received' \in [Peers -> Seq(Nat)]
  <2>1. Append(received[p], Head(rx[p])) \in Seq(Nat)
    BY <1>1, Taken, AppendProperties DEF TypeOK
  <2>. QED
    BY <1>1, <2>1 DEF Take, TypeOK
<1>3. /\ Places' /\ tx' \in [Peers -> Seq(Nat)]
      /\ sent' \in Nat /\ sent' <= MaxSent /\ sent' >= sent
  <2>1. CASE Number(tx[p], QueueCapacity) /\ Send(p, <<sent + 1>>)
    <3>1. Places' /\ tx' \in [Peers -> Seq(Nat)]
      BY <1>1, <2>1, SendingPlaces, SentOrLost
    <3>2. sent' \in Nat /\ sent' <= MaxSent /\ sent' >= sent
      BY <1>1, <2>1, Numbered, SMT DEF TypeOK
    <3>. QED
      BY <3>1, <3>2
  <2>2. CASE UNCHANGED <<tx, sent, lost>>
    BY <1>1, <2>2, SamePlaces DEF TypeOK
  <2>. QED
    BY <2>1, <2>2 DEF Take
<1>4. rx' \in [Peers -> Seq(Nat)]
  BY <1>1, Taken
<1>5. Bounded'
  <2>. SUFFICES ASSUME NEW q \in Peers
                PROVE  /\ Len(rx'[q]) <= QueueCapacity
                       /\ \A i \in DOMAIN rx'[q] : rx'[q][i] <= sent'
    BY DEF Bounded
  <2>1. Len(rx'[q]) <= QueueCapacity
    <3>1. Len(rx'[q]) <= Len(rx[q]) /\ Len(rx[q]) <= QueueCapacity
      BY <1>1, Taken DEF Inv, Bounded
    <3>2. Len(rx'[q]) \in Nat /\ Len(rx[q]) \in Nat /\ QueueCapacity \in Nat
      BY <1>1, <1>4, LenProperties, QueueCapacityAssumption DEF TypeOK
    <3>. QED
      BY <3>1, <3>2
  <2>2. ASSUME NEW i \in DOMAIN rx'[q] PROVE rx'[q][i] <= sent'
    <3>1. PICK j \in DOMAIN rx[q] : rx'[q][i] = rx[q][j]
      BY <1>1, Taken
    <3>2. rx[q][j] <= sent /\ rx[q][j] \in Nat
      BY <1>1, ElementOfSeq, LenProperties DEF Inv, Bounded, TypeOK
    <3>. QED
      BY <1>1, <1>3, <3>1, <3>2 DEF TypeOK
  <2>. QED
    BY <2>1, <2>2
<1>6. Registry'
  BY DEF Inv, Registry, Copies
<1>7. Timely'
  BY <1>1, Taken DEF Inv, Timely
<1>8. Emptied' /\ Limited'
  BY <1>1 DEF Inv, Emptied, Limited
<1>9. TypeOK'
  BY <1>1, <1>2, <1>3, <1>4 DEF TypeOK, Entries
<1>. QED
  BY <1>3, <1>5, <1>6, <1>7, <1>8, <1>9 DEF Inv, Places

(* The end of each loop keeps it.                                          *)
LEMMA LoopDoneInv == Inv /\ LoopDone => Inv'
<1>. SUFFICES ASSUME Inv, LoopDone PROVE Inv'
  OBVIOUS
<1>1. /\ UNCHANGED <<devices, call, progressed, sent, before, lost, members, said, received>>
      /\ UNCHANGED <<tx, rx, bus>>
  BY DEF LoopDone, history, DrainDone, DistributeDone, ProcessDone
<1>2. Places' /\ Bounded' /\ Registry'
  BY <1>1, SamePlaces DEF Inv, Places, Bounded, Registry, Copies
<1>3. made' \in Nat /\ stage' \in Stages
  BY DEF LoopDone, Inv, TypeOK, DrainDone, DistributeDone, ProcessDone, Stages
<1>4. TypeOK' /\ MaxProcessingPasses \in Nat /\ made \in Nat
  BY <1>1, <1>3, BusEnvAssumption DEF Inv, TypeOK, Entries
<1>5. Limited'
  BY <1>1, <1>4, SMT DEF LoopDone, DrainDone, DistributeDone, ProcessDone, Inv, Limited
<1>6. CASE DrainDone
  BY <1>1, <1>2, <1>4, <1>5, <1>6 DEF DrainDone, Inv, Timely, Emptied, Places, AllEmpty
<1>7. CASE DistributeDone
  BY <1>1, <1>2, <1>4, <1>5, <1>7
  DEF DistributeDone, Inv, Timely, Emptied, Places, AllEmpty, Bounded
<1>8. CASE ProcessDone
  BY <1>1, <1>2, <1>4, <1>5, <1>8 DEF ProcessDone, Inv, Timely, Emptied, Places, AllEmpty
<1>. QED
  BY <1>6, <1>7, <1>8 DEF LoopDone

(* The return of a call keeps it.                                          *)
LEMMA ReturnInv == Inv /\ Return => Inv'
<1>. SUFFICES ASSUME Inv, Return PROVE Inv'
  OBVIOUS
<1>1. /\ UNCHANGED <<tx, devices, rx, bus, stage, sent, lost, members, said, received>>
      /\ call' = "none" /\ made' = 0 /\ progressed' = FALSE /\ before' = 0 /\ stage = "idle"
  BY DEF Return
<1>2. Places' /\ Bounded' /\ Registry'
  BY <1>1, SamePlaces DEF Inv, Places, Bounded, Registry, Copies
<1>3. TypeOK'
  BY <1>1 DEF Inv, TypeOK, Entries
<1>4. Timely' /\ Emptied' /\ Limited'
  BY <1>1, BusEnvAssumption DEF Timely, Emptied, Limited
<1>. QED
  BY <1>2, <1>3, <1>4 DEF Inv, Places

(* Every step keeps it.                                                    *)
LEMMA InvNext == Inv /\ [Next]_vars => Inv'
<1>. SUFFICES ASSUME Inv, [Next]_vars PROVE Inv'
  OBVIOUS
<1>1. CASE Outside
  BY <1>1, OutsideInv
<1>2. CASE StartCall
  BY <1>2, StartPassInv, BusEnvAssumption DEF StartCall
<1>3. CASE NextPass
  BY <1>3, StartPassInv DEF NextPass, Goes, Inv, TypeOK
<1>4. CASE MoveFrame
  BY <1>4, DrainInv, DistributeInv, TakeInv DEF MoveFrame
<1>5. CASE LoopDone
  BY <1>5, LoopDoneInv
<1>6. CASE Return
  BY <1>6, ReturnInv
<1>7. CASE UNCHANGED vars
  <2>1. /\ UNCHANGED <<tx, devices, rx, bus, stage, sent, lost, members, said, received>>
        /\ UNCHANGED <<call, made, progressed, before>>
    BY <1>7 DEF vars, history
  <2>2. Places' /\ Bounded' /\ Registry'
    BY <2>1, SamePlaces DEF Inv, Places, Bounded, Registry, Copies
  <2>3. TypeOK' /\ Timely' /\ Emptied' /\ Limited'
    BY <2>1 DEF Inv, TypeOK, Entries, Timely, Emptied, Limited, AllEmpty
  <2>. QED
    BY <2>2, <2>3 DEF Inv, Places
<1>. QED
  BY <1>1, <1>2, <1>3, <1>4, <1>5, <1>6, <1>7 DEF Next, Inside

(* It always holds.                                                        *)
LEMMA InvAlways == Spec => []Inv
BY InvInit, InvNext, PTL DEF Spec

-----------------------------------------------------------------------------
(* What follows from the invariant.                                        *)

(* No frame is received in the pass in which it was sent.                  *)
LEMMA TakenIsOld ==
  ASSUME Inv, NEW p \in Peers, Take(p)
  PROVE  \A q \in Peers : received'[q] # received[q] => received'[q][Len(received'[q])] <= before
<1>1. /\ TakeFrame(p) /\ TypeOK /\ stage = "process" /\ received \in [Peers -> Seq(Nat)]
      /\ received' = [received EXCEPT ![p] = Append(received[p], Head(rx[p]))]
  BY DEF Take, TakeFrame, Inv, TypeOK
<1>2. Head(rx[p]) \in Nat /\ Head(rx[p]) <= before
  BY <1>1, Taken DEF Inv, Timely
<1>3. Append(received[p], Head(rx[p]))[Len(Append(received[p], Head(rx[p])))] = Head(rx[p])
  BY <1>1, <1>2, Appended
<1>4. \A q \in Peers : received'[q] # received[q] => q = p
  BY <1>1
<1>5. received'[p] = Append(received[p], Head(rx[p]))
  BY <1>1
<1>. QED
  BY <1>2, <1>3, <1>4, <1>5

(* Whatever is sent while frames are received waits for the next pass, for *)
(* any number of peers and any of them that answer: a pass ends.           *)
THEOREM AnswersAreForTheNextPass == Spec => AnswersWait
<1>1. ASSUME Inv, Next
      PROVE  \A p \in Peers :
               received'[p] # received[p] => received'[p][Len(received'[p])] <= before
  <2>1. CASE \E p \in Peers : Take(p)
    BY <1>1, <2>1, TakenIsOld
  <2>2. CASE received' = received
    BY <2>2
  <2>. QED
    BY <1>1, <2>1, <2>2
    DEF Next, Outside, StartCall, StartPass, Inside, NextPass, MoveFrame, Drain, Distribute,
        LoopDone, history, Return
<1>2. Inv /\ [Next]_vars =>
        [\A p \in Peers :
           received'[p] # received[p] => received'[p][Len(received'[p])] <= before]_vars
  BY <1>1
<1>. QED
  BY <1>2, InvAlways, PTL DEF Spec, AnswersWait

(* A call that returns leaves nothing half done, processFrames nothing to  *)
(* do unless it has used up its passes, and no frame is unaccounted for.   *)
THEOREM NothingHalfDone == Spec => ReturnsClean
<1>1. ASSUME Inv, Next, call # "none", call' = "none"
      PROVE  /\ bus = <<>> /\ AllEmpty(rx)
             /\ call = "processFrames" => AllEmpty(tx) \/ made = MaxProcessingPasses
             /\ Waiting \cup {e.frame : e \in said} \cup lost = 1 .. sent
  <2>1. Return
    BY <1>1 DEF Next, Outside, StartCall, Inside, NextPass, Goes, MoveFrame, LoopDone
  <2>2. bus = <<>> /\ AllEmpty(rx) /\ (~progressed => AllEmpty(tx))
    BY <1>1, <2>1 DEF Inv, Emptied, Return
  <2>3. call = "processFrames" => ~progressed \/ made = MaxProcessingPasses
    BY <1>1, <2>1, BusEnvAssumption DEF Return, Goes, Inv, Limited, TypeOK
  <2>4. OnBus = {}
    BY <2>2 DEF OnBus
  <2>5. Waiting \cup {e.frame : e \in said} \cup lost = 1 .. sent
    BY <1>1, <2>4 DEF Inv, Accounted, Said, Numbers
  <2>. QED
    BY <2>2, <2>3, <2>5
<1>2. Inv /\ [Next]_vars =>
        [call # "none" /\ call' = "none" =>
           /\ bus = <<>> /\ AllEmpty(rx)
           /\ call = "processFrames" => AllEmpty(tx) \/ made = MaxProcessingPasses
           /\ Waiting \cup {e.frame : e \in said} \cup lost = 1 .. sent]_vars
  BY <1>1
<1>. QED
  BY <1>2, InvAlways, PTL DEF Spec, ReturnsClean

-----------------------------------------------------------------------------
(* The channel.  What is due to a peer is what it has received and what    *)
(* waits for it.                                                           *)
Due == [p \in Peers |-> received[p] \o rx[p]]

(* What is due to a peer, part by part.                                    *)
LEMMA DueLength ==
  ASSUME TypeOK, NEW p \in Peers
  PROVE  /\ received[p] \in Seq(Nat) /\ rx[p] \in Seq(Nat) /\ Due[p] = received[p] \o rx[p]
         /\ Len(received[p]) \in Nat /\ Len(rx[p]) \in Nat
         /\ Len(Due[p]) = Len(received[p]) + Len(rx[p])
<1>1. received[p] \in Seq(Nat) /\ rx[p] \in Seq(Nat) /\ Due[p] = received[p] \o rx[p]
  BY DEF TypeOK, Due
<1>. QED
  BY <1>1, ConcatProperties, LenProperties

(* Appending in two steps or in one is the same.                           *)
LEMMA AppendTwice ==
  ASSUME NEW r \in Seq(Nat), NEW q \in Seq(Nat), NEW t \in Seq(Nat)
  PROVE  (r \o q) \o t = r \o (q \o t)
BY ConcatAssociative, SMTT(60)

(* An entry that is distributed is said.                                   *)
LEMMA DistributeSays ==
  ASSUME Inv, Distribute, UNCHANGED members
  PROVE  Channel!Say(Head(bus).source, Head(bus).frame)
<1>. DEFINE e == Head(bus)
<1>1. /\ bus # <<>> /\ bus' = Tail(bus) /\ said' = said \cup {e}
      /\ tx' = tx /\ lost' = lost /\ sent' = sent /\ received' = received
      /\ rx' = Deliver(e) /\ TypeOK /\ Places /\ Bounded
  BY DEF Distribute, DistributeFrame, Inv, Places
<1>2. e \in Entries /\ e.frame \in Numbers /\ \A x \in said : x.frame # e.frame
  BY <1>1, DistributingPlaces
<1>. HIDE DEF e
<1>3. e = [source |-> e.source, frame |-> e.frame] /\ e.frame \in Nat
  BY <1>2 DEF Entries
<1>4. ASSUME NEW p \in Peers
      PROVE  Due'[p] = Due[p] \o [i \in 1 .. Channel!Copies(e.source)[p] |-> e.frame]
  <2>1. /\ Share(e, p) \in Nat
        /\ rx'[p] = rx[p] \o [i \in 1 .. Share(e, p) |-> e.frame]
    BY <1>1, <1>2, Delivered
  <2>2. Channel!Copies(e.source)[p] = Share(e, p)
    <3>1. Channel!Room(p) = QueueCapacity - Len(rx[p])
      <4>1. Channel!Room(p) = QueueCapacity - (Len(Due[p]) - Len(received[p]))
        BY DEF Channel!Room, Due
      <4>2. /\ Len(received[p]) \in Nat /\ Len(rx[p]) \in Nat
            /\ Len(Due[p]) = Len(received[p]) + Len(rx[p])
        BY <1>1, DueLength
      <4>. QED
        BY <4>1, <4>2, QueueCapacityAssumption
    <3>2. members[p] = Copies(p)
      BY DEF Inv, Registry
    <3>. QED
      BY <3>1, <3>2 DEF Channel!Copies, Share, Least
  <2>. DEFINE t == [i \in 1 .. Share(e, p) |-> e.frame]
  <2>3. t \in Seq(Nat)
    BY <1>3, <2>1
  <2>4. Due[p] = received[p] \o rx[p] /\ Due'[p] = received[p] \o rx'[p]
    BY <1>1 DEF Due
  <2>5. rx'[p] = rx[p] \o t
    BY <2>1
  <2>. HIDE DEF t
  <2>6. received[p] \o (rx[p] \o t) = (received[p] \o rx[p]) \o t
    <3>1. received[p] \in Seq(Nat) /\ rx[p] \in Seq(Nat)
      BY <1>1, DueLength
    <3>. QED
      BY <2>3, <3>1, AppendTwice
  <2>7. Due'[p] = Due[p] \o t
    BY <2>4, <2>5, <2>6
  <2>. QED
    BY <2>2, <2>7 DEF t
<1>5. Due' = [p \in Peers |-> Due[p] \o [i \in 1 .. Channel!Copies(e.source)[p] |-> e.frame]]
  BY <1>4 DEF Due
<1>6. Channel!Say(e.source, e.frame)
  BY <1>1, <1>2, <1>3, <1>5 DEF Channel!Say, Due
<1>. QED
  BY <1>6 DEF e

(* The head of what waits moves to the end of what was received.           *)
LEMMA HeadMoves ==
  ASSUME NEW r \in Seq(Nat), NEW q \in Seq(Nat), q # <<>>
  PROVE  /\ (r \o q)[Len(r) + 1] = Head(q)
         /\ Append(r, Head(q)) \o Tail(q) = r \o q
         /\ Len(r) < Len(r \o q)
<1>1. /\ Head(q) \in Nat /\ Tail(q) \in Seq(Nat) /\ <<Head(q)>> \in Seq(Nat)
      /\ <<Head(q)>> \o Tail(q) = q /\ Head(q) = q[1]
  BY HeadTailProperties
<1>2. Len(r) \in Nat /\ Len(q) \in Nat /\ Len(q) > 0
  BY LenProperties, EmptySeq
<1>3. Append(r, Head(q)) = r \o <<Head(q)>>
  BY <1>1, AppendIsConcat
<1>4. (r \o <<Head(q)>>) \o Tail(q) = r \o (<<Head(q)>> \o Tail(q))
  BY <1>1, AppendTwice
<1>5. (r \o q)[Len(r) + 1] = Head(q)
  BY <1>1, <1>2, ConcatProperties
<1>6. Len(r \o q) = Len(r) + Len(q)
  BY ConcatProperties
<1>7. Append(r, Head(q)) \o Tail(q) = r \o q
  <2>1. Append(r, Head(q)) \o Tail(q) = r \o (<<Head(q)>> \o Tail(q))
    BY <1>3, <1>4, Zenon
  <2>. QED
    BY <1>1, <2>1, Zenon
<1>8. Len(r) < Len(r \o q)
  BY <1>2, <1>6
<1>. QED
  BY <1>5, <1>7, <1>8

(* A frame that is received is heard.                                      *)
LEMMA TakeHears ==
  ASSUME Inv, NEW p \in Peers, Take(p), UNCHANGED members
  PROVE  Channel!Hear(p)
<1>1. /\ TypeOK /\ TakeFrame(p) /\ said' = said
      /\ received \in [Peers -> Seq(Nat)] /\ rx \in [Peers -> Seq(Nat)]
      /\ received' = [received EXCEPT ![p] = Append(received[p], Head(rx[p]))]
      /\ rx' = [rx EXCEPT ![p] = Tail(rx[p])]
  BY Taken DEF Take, Inv, TypeOK
<1>2. /\ rx[p] \in Seq(Nat) /\ rx[p] # <<>> /\ received[p] \in Seq(Nat)
      /\ Due[p] = received[p] \o rx[p]
  BY <1>1, Taken, DueLength
<1>3. /\ (received[p] \o rx[p])[Len(received[p]) + 1] = Head(rx[p])
      /\ Append(received[p], Head(rx[p])) \o Tail(rx[p]) = received[p] \o rx[p]
      /\ Len(received[p]) < Len(received[p] \o rx[p])
  BY <1>2, HeadMoves
<1>4. ASSUME NEW d \in Peers PROVE Due'[d] = Due[d]
  <2>1. CASE d = p
    <3>1. received'[p] = Append(received[p], Head(rx[p])) /\ rx'[p] = Tail(rx[p])
      BY <1>1
    <3>2. Due'[p] = received'[p] \o rx'[p]
      BY DEF Due
    <3>. QED
      BY <1>2, <1>3, <2>1, <3>1, <3>2
  <2>2. CASE d # p
    BY <1>1, <2>2 DEF Due
  <2>. QED
    BY <2>1, <2>2
<1>5. Due' = Due
  BY <1>4 DEF Due
<1>6. received' = [received EXCEPT ![p] = Append(received[p], Due[p][Len(received[p]) + 1])]
  BY <1>1, <1>2, <1>3
<1>7. Len(received[p]) < Len(Due[p])
  BY <1>2, <1>3
<1>. QED
  BY <1>1, <1>5, <1>6, <1>7 DEF Channel!Hear, Due

(* Coming and going.                                                       *)
LEMMA RegistryJoins ==
  ASSUME Inv, NEW p \in Peers, ChangeRegistry(p), UNCHANGED <<rx, said, received>>
  PROVE  Channel!Join(p) \/ Channel!Leave(p)
<1>1. Due' = Due
  BY DEF Due
<1>2. CASE Register(p) /\ members' = [members EXCEPT ![p] = @ + 1]
  BY <1>1, <1>2 DEF Channel!Join, Due
<1>3. CASE Unregister(p) /\ members' = [members EXCEPT ![p] = @ - 1]
  <2>1. members[p] > 0
    BY <1>3, UnregisterCounts DEF Inv, TypeOK, Registry
  <2>. QED
    BY <1>1, <1>3, <2>1 DEF Channel!Leave, Due
<1>. QED
  BY <1>2, <1>3 DEF ChangeRegistry

(* Every step of the bus is a step of the channel, or none.                *)
LEMMA NextIsChannel == Inv /\ [Next]_vars => [Channel!Next]_Channel!vars
<1>. SUFFICES ASSUME Inv, [Next]_vars PROVE [Channel!Next]_Channel!vars
  OBVIOUS
<1>1. CASE UNCHANGED <<members, said, rx, received>>
  BY <1>1 DEF Channel!vars
<1>2. CASE Outside
  <2>1. CASE \E p \in Peers : ChangeRegistry(p)
    BY <1>2, <2>1, RegistryJoins DEF Outside, Channel!Next
  <2>2. CASE UNCHANGED members
    BY <1>1, <1>2, <2>2 DEF Outside
  <2>. QED
    BY <1>2, <2>1, <2>2 DEF Outside, ClearFrames, SendByItself, TransmitFromOutside
<1>3. CASE MoveFrame
  <2>1. CASE Drain
    BY <1>1, <1>3, <2>1 DEF MoveFrame, Drain, DrainFrame
  <2>2. CASE Distribute
    <3>1. Channel!Say(Head(bus).source, Head(bus).frame)
      BY <1>3, <2>2, DistributeSays DEF MoveFrame
    <3>2. Head(bus).source \in Peers /\ Head(bus).frame \in 1 .. MaxSent
      <4>1. Head(bus) \in Entries /\ Head(bus).frame \in Numbers
        BY <2>2, DistributingPlaces DEF Distribute, DistributeFrame, Inv, Places
      <4>. QED
        BY <4>1, BusEnvAssumption DEF Entries, Numbers, Inv, TypeOK
    <3>3. \E p \in Peers : \E message \in 1 .. MaxSent : Channel!Say(p, message)
      BY <3>1, <3>2 DEF Channel!Say
    <3>. QED
      BY <3>3 DEF Channel!Next
  <2>3. CASE \E p \in Peers : Take(p)
    BY <1>3, <2>3, TakeHears DEF MoveFrame, Channel!Next
  <2>. QED
    BY <1>3, <2>1, <2>2, <2>3 DEF MoveFrame
<1>4. CASE StartCall \/ NextPass \/ LoopDone \/ Return \/ UNCHANGED vars
  BY <1>1, <1>4 DEF StartCall, NextPass, StartPass, LoopDone, DrainDone, DistributeDone,
                    ProcessDone, Return, vars, history
<1>. QED
  BY <1>2, <1>3, <1>4 DEF Next, Inside

(* The empty bus is the channel nobody has joined.                         *)
LEMMA InitIsChannel == Init => Channel!Init
<1>. SUFFICES ASSUME Init PROVE Channel!Init
  OBVIOUS
<1>1. Due = [p \in Peers |-> <<>>]
  BY ConcatEmptySeq, EmptySeq DEF Init, Due
<1>. QED
  BY <1>1 DEF Init, Channel!Init, Due

(* For any number of peers that join, leave, send and answer as they like, *)
(* and buffers of any capacity, the bus is a broadcast channel.            *)
THEOREM BusIsBroadcast == Spec => ImplementsBroadcast
BY InitIsChannel, NextIsChannel, InvAlways, PTL
DEF Spec, ImplementsBroadcast, Channel!Spec

=============================================================================
