-------------------------- MODULE SharedRingBuffer --------------------------
(***************************************************************************)
(* A RingBuffer with critical section hooks, called from several contexts  *)
(* at once, such as a program and its interrupt handlers.  Each access to  *)
(* a member is a step of its own, and the calls are any, in any order.     *)
(* What the hooks do is not part of the repository: here enter_critical    *)
(* waits until nobody is inside and exit_critical lets the next one in.    *)
(*                                                                         *)
(* The members are those of `ring'.  The variables of RingBuffer are their *)
(* history: what they were when the last call left, and what it returned,  *)
(* queries left aside.                                                     *)
(***************************************************************************)
EXTENDS RingBuffer

CONSTANTS Callers, Nobody

ASSUME SharedAssumption == Nobody \notin Callers

VARIABLES ring,       \* the members of the RingBuffer
          inside,     \* who holds the critical section
          call,       \* the call each caller is in
          todo,       \* what it has yet to do, step by step
          out         \* what it will return

sharedVars == <<ring, inside, call, todo, out, vars>>

-----------------------------------------------------------------------------
(* Mutants: tail_ is not reset; a peek takes the value.                    *)
StepsClearButTail ==
  [push          |-> <<"enter", "room", "store", "advanceHead", "more", "exit">>,
   pop           |-> <<"enter", "any", "load", "advanceTail", "less", "exit">>,
   peek          |-> <<"enter", "any", "load", "exit">>,
   clear         |-> <<"enter", "resetHead", "resetCount", "exit">>,
   clearAll      |-> <<"enter", "resetHead", "resetTail", "resetCount",
                       "resetOverflow", "exit">>,
   resetCounters |-> <<"enter", "resetOverflow", "resetUnderflow", "exit">>,
   query         |-> <<"enter", "look", "exit">>]

StepsPeekTaking ==
  [push          |-> <<"enter", "room", "store", "advanceHead", "more", "exit">>,
   pop           |-> <<"enter", "any", "load", "advanceTail", "less", "exit">>,
   peek          |-> <<"enter", "any", "load", "advanceTail", "less", "exit">>,
   clear         |-> <<"enter", "resetHead", "resetTail", "resetCount", "exit">>,
   clearAll      |-> <<"enter", "resetHead", "resetTail", "resetCount",
                       "resetOverflow", "exit">>,
   resetCounters |-> <<"enter", "resetOverflow", "resetUnderflow", "exit">>,
   query         |-> <<"enter", "look", "exit">>]

(* The accesses each call makes, in order, between taking the lock and     *)
(* giving it back.  A query is size, empty, full, overflowCount or         *)
(* underflowCount: each looks at one member.                               *)
Steps ==
  [push          |-> <<"enter", "room", "store", "advanceHead", "more", "exit">>,
   pop           |-> <<"enter", "any", "load", "advanceTail", "less", "exit">>,
   peek          |-> <<"enter", "any", "load", "exit">>,
   clear         |-> <<"enter", "resetHead", "resetTail", "resetCount", "exit">>,
   clearAll      |-> <<"enter", "resetHead", "resetTail", "resetCount",
                       "resetOverflow", "exit">>,
   resetCounters |-> <<"enter", "resetOverflow", "resetUnderflow", "exit">>,
   query         |-> <<"enter", "look", "exit">>]

AllCalls == [name : DOMAIN Steps \ {"push"}] \cup [name : {"push"}, value : Values]

(* What a call answers when nothing refuses it; clear has a default        *)
(* argument, so both its forms answer alike.                               *)
Called(k) == IF k.name = "clearAll" THEN "clear" ELSE k.name

NoCall == [name |-> "none"]

SharedInit ==
  /\ Init
  /\ ring = [buffer |-> buffer, head |-> head, tail |-> tail, count |-> count,
             overflow |-> overflow_count, underflow |-> underflow_count]
  /\ inside = Nobody
  /\ call = [c \in Callers |-> NoCall]
  /\ todo = [c \in Callers |-> <<>>]
  /\ out = [c \in Callers |-> answer]

Begin(c) ==
  /\ call[c] = NoCall
  /\ \E k \in AllCalls :
       /\ call' = [call EXCEPT ![c] = k]
       /\ todo' = [todo EXCEPT ![c] = Steps[k.name]]
       /\ out' = [out EXCEPT ![c] = Success(Called(k))]
  /\ UNCHANGED <<ring, inside, vars>>

Comes(c, step) == todo[c] # <<>> /\ Head(todo[c]) = step

Proceed(c) == todo' = [todo EXCEPT ![c] = Tail(@)]

(* Mutant: the lock is a temporary, gone at the end of its statement.      *)
EnterBriefly(c) ==
  /\ Comes(c, "enter")
  /\ inside = Nobody
  /\ Proceed(c)
  /\ UNCHANGED <<ring, inside, call, out, vars>>

(* CriticalSectionLock is constructed.                                     *)
Enter(c) ==
  /\ Comes(c, "enter")
  /\ inside = Nobody
  /\ inside' = c
  /\ Proceed(c)
  /\ UNCHANGED <<ring, call, out, vars>>

(* A push into a full buffer and a pop or peek of an empty one count that  *)
(* and return; the lock is given back on this way out, too.                *)
Refuses(c) ==
  \/ Comes(c, "room") /\ ring.count = Capacity
  \/ Comes(c, "any") /\ ring.count = 0

Refuse(c) ==
  /\ Refuses(c)
  /\ ring' = IF Comes(c, "room") THEN [ring EXCEPT !.overflow = @ + 1]
                                 ELSE [ring EXCEPT !.underflow = @ + 1]
  /\ todo' = [todo EXCEPT ![c] = <<"exit">>]
  /\ out' = [out EXCEPT ![c] = Failure(Called(call[c]))]
  /\ UNCHANGED <<inside, call, vars>>

Accept(c) ==
  /\ Comes(c, "room") \/ Comes(c, "any")
  /\ ~Refuses(c)
  /\ Proceed(c)
  /\ UNCHANGED <<ring, inside, call, out, vars>>

(* An access that writes one member.                                       *)
Write(c) ==
  /\ \/ Comes(c, "store") /\ ring' = [ring EXCEPT !.buffer[ring.head] = call[c].value]
     \/ Comes(c, "advanceHead") /\ ring' = [ring EXCEPT !.head = AdvanceIndex(@)]
     \/ Comes(c, "advanceTail") /\ ring' = [ring EXCEPT !.tail = AdvanceIndex(@)]
     \/ Comes(c, "more") /\ ring' = [ring EXCEPT !.count = @ + 1]
     \/ Comes(c, "less") /\ ring' = [ring EXCEPT !.count = @ - 1]
     \/ Comes(c, "resetHead") /\ ring' = [ring EXCEPT !.head = 0]
     \/ Comes(c, "resetTail") /\ ring' = [ring EXCEPT !.tail = 0]
     \/ Comes(c, "resetCount") /\ ring' = [ring EXCEPT !.count = 0]
     \/ Comes(c, "resetOverflow") /\ ring' = [ring EXCEPT !.overflow = 0]
     \/ Comes(c, "resetUnderflow") /\ ring' = [ring EXCEPT !.underflow = 0]
  /\ Proceed(c)
  /\ UNCHANGED <<inside, call, out, vars>>

Read(c) ==
  /\ Comes(c, "load")
  /\ out' = [out EXCEPT ![c] = Result(Called(call[c]), ring.buffer[ring.tail])]
  /\ Proceed(c)
  /\ UNCHANGED <<ring, inside, call, vars>>

(* What a query returns nobody here keeps.                                 *)
Query(c) ==
  /\ Comes(c, "look")
  /\ Proceed(c)
  /\ UNCHANGED <<ring, inside, call, out, vars>>

(* ~CriticalSectionLock, and the return.                                   *)
Exit(c) ==
  /\ Comes(c, "exit")
  /\ inside' = Nobody
  /\ call' = [call EXCEPT ![c] = NoCall]
  /\ Proceed(c)
  /\ buffer' = ring.buffer /\ head' = ring.head /\ tail' = ring.tail /\ count' = ring.count
  /\ overflow_count' = ring.overflow /\ underflow_count' = ring.underflow
  /\ answer' = IF call[c].name = "query" THEN answer ELSE out[c]
  /\ UNCHANGED <<ring, out>>

SharedNext ==
  \E c \in Callers :
    Begin(c) \/ Enter(c) \/ Refuse(c) \/ Accept(c) \/ Write(c) \/ Read(c) \/ Query(c) \/ Exit(c)

SharedSpec == SharedInit /\ [][SharedNext]_sharedVars

-----------------------------------------------------------------------------
(* Between the two hooks a call is alone: the callers together see a       *)
(* RingBuffer whose calls are made one at a time, in the order in which    *)
(* they leave (CriticalSectionLock in every call), each as one action.     *)
ImplementsRingBuffer == Spec

=============================================================================
