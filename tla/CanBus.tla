------------------------------- MODULE CanBus -------------------------------
(***************************************************************************)
(* The shared bus.  processSinglePass runs three loops one after the       *)
(* other, modelled frame by frame:                                         *)
(*   drain       every registered device's output buffer, in registration  *)
(*               order, goes into the bus buffer;                          *)
(*   distribute  each entry of the bus buffer goes into the input buffer   *)
(*               of every registered device but its source;                *)
(*   process     every registered device, in registration order, receives  *)
(*               what is in its input buffer.                              *)
(* What a device sends while it receives waits in its output buffer for    *)
(* the drain of the next pass.                                             *)
(***************************************************************************)
EXTENDS Device, FiniteSets

CONSTANTS BusCapacity,   \* slots of the bus buffer (1024)
          MaxDevices     \* slots of the registry (10)

ASSUME CanBusAssumption ==
  /\ BusCapacity \in Nat \ {0}
  /\ MaxDevices \in Nat \ {0}

VARIABLES devices,       \* devices_[0 .. deviceCount_ - 1], as a sequence
          rx,            \* input_message_buffer_ of every participant
          bus,           \* buffer_, of entries [source, frame]
          stage          \* the loop processSinglePass is in

Stages == {"idle", "drain", "distribute", "process"}

(* registerDevice: the newcomer is served last.                            *)
Register(d) ==
  /\ Len(devices) < MaxDevices
  /\ devices' = Append(devices, d)

(* unregisterDevice: the last device moves into the slot that became free. *)
Unregister(d) ==
  \E i \in DOMAIN devices :
    /\ devices[i] = d
    /\ \A j \in 1 .. i - 1 : devices[j] # d
    /\ devices' = SubSeq([devices EXCEPT ![i] = devices[Len(devices)]],
                         1, Len(devices) - 1)

(* transmit: an entry that finds the bus buffer full is dropped.           *)
Transmit(d, f) == bus' = Push(bus, [source |-> d, frame |-> f], BusCapacity)

(* A loop over the devices serves the first one whose buffer in q is not   *)
(* empty: the buffers before it stay empty while the loop goes on.         *)
Turn(q, d) ==
  \E i \in DOMAIN devices :
    /\ devices[i] = d
    /\ q[d] # <<>>
    /\ \A j \in 1 .. i - 1 : q[devices[j]] = <<>>

AllEmpty(q) == \A i \in DOMAIN devices : q[devices[i]] = <<>>

BeginPass == stage = "idle" /\ stage' = "drain"

DrainFrame(d) ==
  /\ stage = "drain"
  /\ Turn(tx, d)
  /\ tx' = [tx EXCEPT ![d] = Tail(@)]
  /\ Transmit(d, Head(tx[d]))
  /\ UNCHANGED <<rx, stage>>

(* Mutant: a pass takes some of the waiting frames only.                   *)
DrainDoneEarly ==
  /\ stage = "drain"
  /\ stage' = "distribute"
  /\ UNCHANGED <<tx, rx, bus>>

DrainDone ==
  /\ stage = "drain"
  /\ AllEmpty(tx)
  /\ stage' = "distribute"
  /\ UNCHANGED <<tx, rx, bus>>

(* How often d is registered; nothing forbids more than once.              *)
Copies(d) == Cardinality({i \in DOMAIN devices : devices[i] = d})

(* Mutant: the copies that fit go before what waits, as if rx were a stack.*)
DeliverInFront(entry) ==
  LET pushed(d) == PushAll(rx[d], [i \in 1 .. Copies(d) |-> entry.frame])
  IN  [d \in DOMAIN rx |->
         IF d = entry.source THEN rx[d]
         ELSE [i \in 1 .. Len(pushed(d)) - Len(rx[d]) |-> entry.frame] \o rx[d]]

Deliver(entry) ==
  [d \in DOMAIN rx |->
     IF d = entry.source THEN rx[d]
     ELSE PushAll(rx[d], [i \in 1 .. Copies(d) |-> entry.frame])]

(* Mutant: the entry is looked at, not taken out.                          *)
DistributeFrameKept ==
  /\ stage = "distribute"
  /\ bus # <<>>
  /\ rx' = Deliver(Head(bus))
  /\ UNCHANGED <<tx, bus, stage>>

DistributeFrame ==
  /\ stage = "distribute"
  /\ bus # <<>>
  /\ bus' = Tail(bus)
  /\ rx' = Deliver(Head(bus))
  /\ UNCHANGED <<tx, stage>>

DistributeDone ==
  /\ stage = "distribute"
  /\ bus = <<>>
  /\ stage' = "process"
  /\ UNCHANGED <<tx, rx, bus>>

(* popRxFrame by processRxFrames; the receiver's handler does the rest.    *)
TakeFrame(d) ==
  /\ stage = "process"
  /\ Turn(rx, d)
  /\ rx' = [rx EXCEPT ![d] = Tail(@)]
  /\ UNCHANGED <<bus, stage>>

(* Mutant: what was sent meanwhile is still transported in this pass.      *)
ProcessDoneRepeating ==
  /\ stage = "process"
  /\ AllEmpty(rx)
  /\ stage' = IF AllEmpty(tx) THEN "idle" ELSE "drain"
  /\ UNCHANGED <<tx, rx, bus>>

ProcessDone ==
  /\ stage = "process"
  /\ AllEmpty(rx)
  /\ stage' = "idle"
  /\ UNCHANGED <<tx, rx, bus>>

=============================================================================
