---------------------------- MODULE BoundedQueue ----------------------------
(***************************************************************************)
(* What a RingBuffer promises its callers: a first-in first-out queue of   *)
(* at most Capacity values, whose calls never block, report whether they   *)
(* did what was asked, and count how often they could not.                 *)
(***************************************************************************)
EXTENDS Integers, Sequences

CONSTANTS Capacity, Values      \* as in RingBuffer, which assumes Capacity > 0

VARIABLES queue,      \* the values held, oldest first
          refused,    \* pushes into a full queue since the last reset
          missed,     \* pops and peeks of an empty one since the last reset
          answer      \* the last call and what it told its caller

vars == <<queue, refused, missed, answer>>

Success(call) == [call |-> call, ok |-> TRUE]
Failure(call) == [call |-> call, ok |-> FALSE]
Result(call, v) == [call |-> call, ok |-> TRUE, value |-> v]

Init ==
  /\ queue = <<>>
  /\ refused = 0
  /\ missed = 0
  /\ answer = Success("construct")

Put(v) ==
  \/ /\ Len(queue) < Capacity
     /\ queue' = Append(queue, v)
     /\ answer' = Success("push")
     /\ UNCHANGED <<refused, missed>>
  \/ /\ Len(queue) = Capacity
     /\ refused' = refused + 1
     /\ answer' = Failure("push")
     /\ UNCHANGED <<queue, missed>>

Miss(call) ==
  /\ queue = <<>>
  /\ missed' = missed + 1
  /\ answer' = Failure(call)
  /\ UNCHANGED <<queue, refused>>

Get ==
  \/ Miss("pop")
  \/ /\ queue # <<>>
     /\ queue' = Tail(queue)
     /\ answer' = Result("pop", Head(queue))
     /\ UNCHANGED <<refused, missed>>

Look ==
  \/ Miss("peek")
  \/ /\ queue # <<>>
     /\ answer' = Result("peek", Head(queue))
     /\ UNCHANGED <<queue, refused, missed>>

Empty(forget) ==
  /\ queue' = <<>>
  /\ refused' = IF forget THEN 0 ELSE refused
  /\ answer' = Success("clear")
  /\ UNCHANGED missed

Forget ==
  /\ refused' = 0
  /\ missed' = 0
  /\ answer' = Success("resetCounters")
  /\ UNCHANGED queue

Next ==
  \/ \E v \in Values : Put(v)
  \/ Get
  \/ Look
  \/ \E forget \in BOOLEAN : Empty(forget)
  \/ Forget

Spec == Init /\ [][Next]_vars

=============================================================================
