------------------------------- MODULE Device -------------------------------
(***************************************************************************)
(* What every bus participant is built from: the output message buffer of  *)
(* class Device.  The buffer is a RingBuffer of fixed capacity whose push  *)
(* refuses a value when it is full; sendFrame ignores that result, so a    *)
(* frame sent into a full buffer is silently dropped.  The buffer is       *)
(* modelled by the sequence it stands for (module RingBuffer shows that    *)
(* the head/tail/count representation implements such a sequence).         *)
(***************************************************************************)
EXTENDS Integers, Sequences

CONSTANT QueueCapacity        \* slots of one input or output buffer (256)

ASSUME QueueCapacityAssumption == QueueCapacity \in Nat \ {0}

VARIABLE tx                   \* output_message_buffer_ of every participant

Push(q, v, capacity) == IF Len(q) < capacity THEN Append(q, v) ELSE q

(* Pushing the frames fs one after the other: those that fit are kept.     *)
PushAll(q, fs) ==
  LET room == QueueCapacity - Len(q)
  IN  q \o SubSeq(fs, 1, IF Len(fs) <= room THEN Len(fs) ELSE room)

(* Participant d sends fs, in this order, during one call.                 *)
Send(d, fs) == tx' = [tx EXCEPT ![d] = PushAll(@, fs)]

=============================================================================
