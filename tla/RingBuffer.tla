----------------------------- MODULE RingBuffer -----------------------------
(***************************************************************************)
(* The RingBuffer class template: an array used in a circle.  push writes  *)
(* at head, pop reads at tail, count tells a full buffer from an empty     *)
(* one.  clear resets the three indices and leaves the array, and          *)
(* optionally one of the two counters, as they are.                        *)
(*                                                                         *)
(* Every call holds the critical section from its first to its last access *)
(* (CriticalSectionLock), so a call is one action.                         *)
(***************************************************************************)
EXTENDS Integers, Sequences

CONSTANTS Capacity, Values

ASSUME RingBufferAssumption == Capacity \in Nat \ {0} /\ Values # {}

VARIABLES buffer, head, tail, count, overflow_count, underflow_count,
          answer      \* history: the last call and what it returned

vars == <<buffer, head, tail, count, overflow_count, underflow_count, answer>>

Calls == {"construct", "push", "pop", "peek", "clear", "resetCounters"}
Success(call) == [call |-> call, ok |-> TRUE]
Failure(call) == [call |-> call, ok |-> FALSE]
Result(call, v) == [call |-> call, ok |-> TRUE, value |-> v]
Answers == [call : Calls, ok : BOOLEAN]
           \cup [call : Calls, ok : {TRUE}, value : Values]

Slots == 0 .. Capacity - 1

(* A power of two is advanced with a mask, which does the same.            *)
AdvanceIndex(index) == (index + 1) % Capacity

Init ==
  /\ buffer \in {[i \in Slots |-> v] : v \in Values}
  /\ head = 0
  /\ tail = 0
  /\ count = 0
  /\ overflow_count = 0
  /\ underflow_count = 0
  /\ answer = Success("construct")

PushRefused ==
  /\ count = Capacity
  /\ overflow_count' = overflow_count + 1
  /\ answer' = Failure("push")
  /\ UNCHANGED <<buffer, head, tail, count, underflow_count>>

PushStored(v) ==
  /\ count # Capacity
  /\ buffer' = [buffer EXCEPT ![head] = v]
  /\ head' = AdvanceIndex(head)
  /\ count' = count + 1
  /\ answer' = Success("push")
  /\ UNCHANGED <<tail, overflow_count, underflow_count>>

Underflow(call) ==
  /\ count = 0
  /\ underflow_count' = underflow_count + 1
  /\ answer' = Failure(call)
  /\ UNCHANGED <<buffer, head, tail, count, overflow_count>>

PopTaken ==
  /\ count # 0
  /\ answer' = Result("pop", buffer[tail])
  /\ tail' = AdvanceIndex(tail)
  /\ count' = count - 1
  /\ UNCHANGED <<buffer, head, overflow_count, underflow_count>>

PeekSeen ==
  /\ count # 0
  /\ answer' = Result("peek", buffer[tail])
  /\ UNCHANGED <<buffer, head, tail, count, overflow_count, underflow_count>>

Clear(resetOverflowCount) ==
  /\ head' = 0
  /\ tail' = 0
  /\ count' = 0
  /\ overflow_count' = IF resetOverflowCount THEN 0 ELSE overflow_count
  /\ answer' = Success("clear")
  /\ UNCHANGED <<buffer, underflow_count>>

ResetCounters ==
  /\ overflow_count' = 0
  /\ underflow_count' = 0
  /\ answer' = Success("resetCounters")
  /\ UNCHANGED <<buffer, head, tail, count>>

Next ==
  \/ \E v \in Values : PushRefused \/ PushStored(v)
  \/ \E call \in {"pop", "peek"} : Underflow(call)
  \/ PopTaken
  \/ PeekSeen
  \/ \E reset \in BOOLEAN : Clear(reset)
  \/ ResetCounters

Spec == Init /\ [][Next]_vars

-----------------------------------------------------------------------------
(* The representation: the count values held start at tail and go round,   *)
(* and head is where the next one goes.                                    *)
Slot(i) == IF tail + i - 1 < Capacity THEN tail + i - 1
                                      ELSE tail + i - 1 - Capacity

Contents == [i \in 1 .. count |-> buffer[Slot(i)]]

TypeOK ==
  /\ buffer \in [Slots -> Values]
  /\ head \in Slots
  /\ tail \in Slots
  /\ count \in 0 .. Capacity
  /\ overflow_count \in Nat
  /\ underflow_count \in Nat
  /\ answer \in Answers

(* head, tail and count never disagree: head is count slots after tail, so *)
(* a full and an empty buffer, which have head = tail, differ in count.    *)
IndicesAgree == head = Slot(count + 1)

(* The circular array is a bounded queue: the same answers in the same     *)
(* order as if the values were kept in a sequence.                         *)
Queue == INSTANCE BoundedQueue WITH queue <- Contents,
                                    refused <- overflow_count,
                                    missed <- underflow_count
ImplementsBoundedQueue == Queue!Spec

=============================================================================
