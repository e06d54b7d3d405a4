-------------------------- MODULE RingBufferProofs --------------------------
(***************************************************************************)
(* The circular array implements the bounded queue, for every capacity and *)
(* every set of values.  The representation invariant (IndicesAgree, with  *)
(* the types) is inductive on its own; under it, a push appends to the     *)
(* contents, a pop takes their tail and a peek their head.                 *)
(*                                                                         *)
(* The critical section makes every call of a RingBuffer one action, for   *)
(* any number of callers, any capacity and any values; all callers         *)
(* together then see one bounded queue.  This second invariant says of a   *)
(* caller outside the critical section that it has not begun, and of the   *)
(* caller inside what it has done to the members so far: one alternative   *)
(* for every place in the code of the call.                                *)
(***************************************************************************)
EXTENDS SharedRingBuffer, SequenceTheorems, TLAPS

Inv == TypeOK /\ IndicesAgree

(* Advancing an index goes to the next slot, from the last to the first.   *)
LEMMA Advance ==
  ASSUME NEW i \in Slots
  PROVE  /\ AdvanceIndex(i) \in Slots
         /\ AdvanceIndex(i) = IF i + 1 = Capacity THEN 0 ELSE i + 1
BY RingBufferAssumption DEF Slots, AdvanceIndex

(* A slot of the contents is a slot of the array.                          *)
LEMMA SlotInRange == TypeOK => \A i \in 1 .. Capacity : Slot(i) \in Slots
BY RingBufferAssumption DEF TypeOK, Slots, Slot

(* The contents are a sequence of count values.                            *)
LEMMA ContentsSeq ==
  TypeOK => /\ Contents \in Seq(Values)
            /\ Len(Contents) = count
            /\ \A i \in 1 .. count : Contents[i] = buffer[Slot(i)]
<1>. HAVE TypeOK
<1>1. \A i \in 1 .. count : Slot(i) \in Slots /\ buffer[Slot(i)] \in Values
  BY SlotInRange, RingBufferAssumption DEF TypeOK
<1>2. count \in Nat
  BY DEF TypeOK
<1>3. Contents \in [1 .. count -> Values]
  BY <1>1 DEF Contents
<1>4. Contents \in Seq(Values)
  BY <1>2, <1>3, SeqDef
<1>5. Len(Contents) = count
  BY <1>2, <1>3, <1>4, LenProperties
<1>. QED
  BY <1>4, <1>5 DEF Contents

(* The same of the next state.                                             *)
LEMMA ContentsSeqNext ==
  TypeOK' => (/\ Contents \in Seq(Values)
              /\ Len(Contents) = count
              /\ \A i \in 1 .. count : Contents[i] = buffer[Slot(i)])'
BY ContentsSeq, PTL

(* What a type-correct buffer whose indices agree offers its callers.      *)
LEMMA HeadOfContents ==
  ASSUME TypeOK, count # 0
  PROVE  Contents # <<>> /\ Head(Contents) = buffer[tail]
<1>1. Slot(1) = tail
  BY RingBufferAssumption DEF Slot, TypeOK, Slots
<1>2. 1 \in 1 .. count
  BY DEF TypeOK
<1>3. Contents # <<>>
  BY ContentsSeq, EmptySeq
<1>. QED
  BY <1>1, <1>2, <1>3, ContentsSeq

-----------------------------------------------------------------------------
(* Types and representation are right initially.                           *)
LEMMA InitInv == Init => Inv
BY RingBufferAssumption
DEF Init, Inv, TypeOK, IndicesAgree, Slots, Slot, Success, Answers, Calls

(* Every call preserves them.                                              *)
LEMMA NextInv == Inv /\ [Next]_vars => Inv'
<1>. SUFFICES ASSUME Inv, [Next]_vars PROVE Inv'
  OBVIOUS
<1>. USE RingBufferAssumption DEF Inv, TypeOK, IndicesAgree
<1>1. CASE PushRefused
  BY <1>1 DEF PushRefused, Slot, Failure, Answers, Calls
<1>2. ASSUME NEW v \in Values, PushStored(v) PROVE Inv'
  <2>1. head' \in Slots /\ head' = IF head + 1 = Capacity THEN 0 ELSE head + 1
    BY <1>2, Advance DEF PushStored
  <2>2. TypeOK'
    BY <1>2, <2>1 DEF PushStored, Success, Answers, Calls
  <2>3. IndicesAgree'
    BY <1>2, <2>1 DEF PushStored, Slot, Slots
  <2>. QED BY <2>2, <2>3
<1>3. ASSUME NEW name \in {"pop", "peek"}, Underflow(name) PROVE Inv'
  <2>1. answer' \in Answers
    BY <1>3 DEF Underflow, Failure, Answers, Calls
  <2>. QED
    BY <1>3, <2>1 DEF Underflow, Slot
<1>4. CASE PopTaken
  <2>1. tail' \in Slots /\ tail' = IF tail + 1 = Capacity THEN 0 ELSE tail + 1
    BY <1>4, Advance DEF PopTaken
  <2>2. answer' \in Answers
    BY <1>4 DEF PopTaken, Slots, Result, Answers, Calls
  <2>3. TypeOK'
    BY <1>4, <2>1, <2>2 DEF PopTaken
  <2>4. IndicesAgree'
    BY <1>4, <2>1 DEF PopTaken, Slot, Slots
  <2>. QED BY <2>3, <2>4
<1>5. CASE PeekSeen
  BY <1>5 DEF PeekSeen, Slot, Slots, Result, Answers, Calls
<1>6. ASSUME NEW reset \in BOOLEAN, Clear(reset) PROVE Inv'
  BY <1>6 DEF Clear, Slot, Slots, Success, Answers, Calls
<1>7. CASE ResetCounters
  BY <1>7 DEF ResetCounters, Slot, Success, Answers, Calls
<1>8. CASE UNCHANGED vars
  BY <1>8 DEF vars, Slot
<1>. QED
  BY <1>1, <1>2, <1>3, <1>4, <1>5, <1>6, <1>7, <1>8 DEF Next

(* Type correctness and the agreement of the three indices, for every      *)
(* capacity.                                                               *)
THEOREM Representation == Spec => [](TypeOK /\ IndicesAgree)
<1>1. Inv => TypeOK /\ IndicesAgree
  BY DEF Inv
<1>. QED
  BY InitInv, NextInv, <1>1, PTL DEF Spec

-----------------------------------------------------------------------------
(* A push that is not refused appends its value to the contents.           *)
LEMMA PushAppends ==
  ASSUME Inv, Inv', NEW v \in Values, PushStored(v)
  PROVE  Contents' = Append(Contents, v)
<1>. USE DEF Inv
<1>1. /\ Contents' \in Seq(Values)
      /\ Len(Contents') = count + 1
      /\ \A i \in 1 .. count + 1 : Contents'[i] = buffer'[Slot(i)']
  <2>1. count' = count + 1
    BY DEF PushStored
  <2>2. /\ Contents' \in Seq(Values)
        /\ Len(Contents') = count'
        /\ \A i \in 1 .. count' : Contents'[i] = buffer'[Slot(i)']
    BY ContentsSeqNext
  <2>. QED BY <2>1, <2>2
<1>2. /\ Append(Contents, v) \in Seq(Values)
      /\ Len(Append(Contents, v)) = count + 1
      /\ \A i \in 1 .. count : Append(Contents, v)[i] = buffer[Slot(i)]
      /\ Append(Contents, v)[count + 1] = v
  BY ContentsSeq DEF TypeOK
<1>3. ASSUME NEW i \in 1 .. count + 1
      PROVE  Contents'[i] = Append(Contents, v)[i]
  <2>1. Slot(i)' = Slot(i)
    BY DEF Slot, PushStored
  <2>2. Slot(i) \in Slots /\ head \in Slots
    BY SlotInRange, RingBufferAssumption DEF PushStored, TypeOK
  <2>3. CASE i = count + 1
    <3>1. Slot(i) = head
      BY <2>3 DEF IndicesAgree
    <3>. QED
      BY <1>1, <1>2, <2>1, <2>2, <2>3, <3>1 DEF PushStored, TypeOK
  <2>4. CASE i # count + 1
    <3>1. i \in 1 .. count
      BY <2>4 DEF TypeOK
    <3>2. Slot(i) # head
      BY <3>1, RingBufferAssumption
      DEF IndicesAgree, Slot, TypeOK, Slots, PushStored
    <3>3. buffer'[Slot(i)] = buffer[Slot(i)]
      BY <3>2, <2>2 DEF PushStored, TypeOK
    <3>. QED
      BY <1>1, <1>2, <2>1, <3>1, <3>3
  <2>. QED BY <2>3, <2>4
<1>. QED
  BY <1>1, <1>2, <1>3, SeqEqual

(* A pop takes the first of the contents away.                             *)
LEMMA PopTakesHead ==
  ASSUME Inv, Inv', PopTaken
  PROVE  Contents' = Tail(Contents)
<1>. USE DEF Inv
<1>1. /\ Contents' \in Seq(Values)
      /\ Len(Contents') = count - 1
      /\ \A i \in 1 .. count - 1 : Contents'[i] = buffer'[Slot(i)']
  <2>1. count' = count - 1
    BY DEF PopTaken
  <2>2. /\ Contents' \in Seq(Values)
        /\ Len(Contents') = count'
        /\ \A i \in 1 .. count' : Contents'[i] = buffer'[Slot(i)']
    BY ContentsSeqNext
  <2>. QED BY <2>1, <2>2
<1>2. Contents # <<>>
  BY HeadOfContents DEF PopTaken
<1>3. /\ Tail(Contents) \in Seq(Values)
      /\ Len(Tail(Contents)) = count - 1
      /\ \A i \in 1 .. count - 1 : Tail(Contents)[i] = buffer[Slot(i + 1)]
  <2>1. /\ Tail(Contents) \in Seq(Values)
        /\ Len(Tail(Contents)) = count - 1
        /\ \A i \in 1 .. count - 1 : Tail(Contents)[i] = Contents[i + 1]
    BY <1>2, ContentsSeq, HeadTailProperties
  <2>2. \A i \in 1 .. count - 1 : i + 1 \in 1 .. count
    BY DEF TypeOK
  <2>3. \A i \in 1 .. count : Contents[i] = buffer[Slot(i)]
    BY ContentsSeq
  <2>. QED
    BY <2>1, <2>2, <2>3
<1>4. ASSUME NEW i \in 1 .. count - 1
      PROVE  Slot(i)' = Slot(i + 1) /\ buffer' = buffer
  <2>1. tail' = IF tail + 1 = Capacity THEN 0 ELSE tail + 1
    BY Advance DEF PopTaken, TypeOK
  <2>. QED
    BY <2>1, RingBufferAssumption DEF Slot, PopTaken, TypeOK, Slots
<1>5. \A i \in 1 .. count - 1 : Contents'[i] = Tail(Contents)[i]
  BY <1>1, <1>3, <1>4
<1>. QED
  BY <1>1, <1>3, <1>5, SeqEqual

(* A call that leaves the array, tail and count alone leaves the contents. *)
LEMMA SameContents ==
  UNCHANGED <<buffer, tail, count>> => Contents' = Contents
BY DEF Contents, Slot

(* Without values the contents are the empty sequence.                     *)
LEMMA NoContents == ASSUME count = 0 PROVE Contents = <<>>
BY DEF Contents

-----------------------------------------------------------------------------
(* The initial buffer is an empty queue.                                   *)
LEMMA InitImplements == Init => Queue!Init
BY NoContents DEF Init, Queue!Init, Success, Queue!Success

(* Every call of the buffer is the same call of the queue.                 *)
LEMMA NextImplements ==
  Inv /\ Inv' /\ [Next]_vars => [Queue!Next]_(Queue!vars)
<1>. SUFFICES ASSUME Inv, Inv', [Next]_vars
              PROVE  [Queue!Next]_(Queue!vars)
  OBVIOUS
<1>. USE DEF Success, Failure, Result, Queue!Success, Queue!Failure, Queue!Result
<1>0. TypeOK /\ Len(Contents) = count /\ count \in Nat
  BY ContentsSeq DEF Inv, TypeOK
<1>1. ASSUME NEW v \in Values, PushRefused PROVE Queue!Put(v)
  BY <1>0, <1>1, SameContents DEF PushRefused, Queue!Put
<1>2. ASSUME NEW v \in Values, PushStored(v) PROVE Queue!Put(v)
  <2>1. Contents' = Append(Contents, v)
    BY <1>2, PushAppends
  <2>2. Len(Contents) < Capacity
    BY <1>0, <1>2, RingBufferAssumption DEF PushStored, TypeOK
  <2>. QED
    BY <1>2, <2>1, <2>2 DEF PushStored, Queue!Put
<1>3. ASSUME NEW name \in {"pop", "peek"}, Underflow(name)
      PROVE  Queue!Get \/ Queue!Look
  BY <1>3, SameContents, NoContents
  DEF Underflow, Queue!Get, Queue!Look, Queue!Miss
<1>4. ASSUME PopTaken PROVE Queue!Get
  BY <1>0, <1>4, PopTakesHead, HeadOfContents DEF PopTaken, Queue!Get
<1>5. ASSUME PeekSeen PROVE Queue!Look
  BY <1>0, <1>5, SameContents, HeadOfContents DEF PeekSeen, Queue!Look
<1>6. ASSUME NEW reset \in BOOLEAN, Clear(reset) PROVE Queue!Empty(reset)
  <2>1. Contents' = <<>>
    BY <1>6 DEF Clear, Contents
  <2>. QED
    BY <1>6, <2>1 DEF Clear, Queue!Empty
<1>7. ASSUME ResetCounters PROVE Queue!Forget
  BY <1>7, SameContents DEF ResetCounters, Queue!Forget
<1>8. ASSUME UNCHANGED vars PROVE UNCHANGED Queue!vars
  BY <1>8, SameContents DEF vars, Queue!vars
<1>. QED
  BY <1>1, <1>2, <1>3, <1>4, <1>5, <1>6, <1>7, <1>8 DEF Next, Queue!Next

(* The circular array is a bounded first-in first-out queue for every      *)
(* capacity: each call answers as the queue would.                         *)
THEOREM Implementation == Spec => ImplementsBoundedQueue
<1>. QED
  BY InitInv, NextInv, InitImplements, NextImplements, PTL
  DEF Spec, Queue!Spec, ImplementsBoundedQueue

-----------------------------------------------------------------------------
(* The members of a shared RingBuffer, as one record.                      *)
Ring(b, h, t, n, o, u) ==
  [buffer |-> b, head |-> h, tail |-> t, count |-> n, overflow |-> o, underflow |-> u]

(* The members as the last call left them.                                 *)
Members == Ring(buffer, head, tail, count, overflow_count, underflow_count)

(* Caller c has these accesses left, with such members and such an answer. *)
At(c, rest, r, a) == todo[c] = rest /\ ring = r /\ out[c] = a

PushAt(c) ==
  LET b == [buffer EXCEPT ![head] = call[c].value]
      h == AdvanceIndex(head)
      o == overflow_count
      u == underflow_count
      ok == Success("push")
  IN  \/ At(c, <<"room", "store", "advanceHead", "more", "exit">>, Members, ok)
      \/ /\ count # Capacity
         /\ \/ At(c, <<"store", "advanceHead", "more", "exit">>, Members, ok)
            \/ At(c, <<"advanceHead", "more", "exit">>,
                  Ring(b, head, tail, count, o, u), ok)
            \/ At(c, <<"more", "exit">>, Ring(b, h, tail, count, o, u), ok)
            \/ At(c, <<"exit">>, Ring(b, h, tail, count + 1, o, u), ok)
      \/ /\ count = Capacity
         /\ At(c, <<"exit">>, Ring(buffer, head, tail, count, o + 1, u), Failure("push"))

PopAt(c) ==
  LET t == AdvanceIndex(tail)
      o == overflow_count
      u == underflow_count
      taken == Result("pop", buffer[tail])
  IN  \/ At(c, <<"any", "load", "advanceTail", "less", "exit">>, Members, Success("pop"))
      \/ /\ count # 0
         /\ \/ At(c, <<"load", "advanceTail", "less", "exit">>, Members, Success("pop"))
            \/ At(c, <<"advanceTail", "less", "exit">>, Members, taken)
            \/ At(c, <<"less", "exit">>, Ring(buffer, head, t, count, o, u), taken)
            \/ At(c, <<"exit">>, Ring(buffer, head, t, count - 1, o, u), taken)
      \/ /\ count = 0
         /\ At(c, <<"exit">>, Ring(buffer, head, tail, count, o, u + 1), Failure("pop"))

PeekAt(c) ==
  \/ At(c, <<"any", "load", "exit">>, Members, Success("peek"))
  \/ count # 0 /\ At(c, <<"load", "exit">>, Members, Success("peek"))
  \/ count # 0 /\ At(c, <<"exit">>, Members, Result("peek", buffer[tail]))
  \/ /\ count = 0
     /\ At(c, <<"exit">>,
           Ring(buffer, head, tail, count, overflow_count, underflow_count + 1),
           Failure("peek"))

Cleared(h, t, n, o) == Ring(buffer, h, t, n, o, underflow_count)

ClearAt(c) ==
  LET o == overflow_count
      ok == Success("clear")
  IN  \/ At(c, <<"resetHead", "resetTail", "resetCount", "exit">>, Members, ok)
      \/ At(c, <<"resetTail", "resetCount", "exit">>, Cleared(0, tail, count, o), ok)
      \/ At(c, <<"resetCount", "exit">>, Cleared(0, 0, count, o), ok)
      \/ At(c, <<"exit">>, Cleared(0, 0, 0, o), ok)

ClearAllAt(c) ==
  LET o == overflow_count
      ok == Success("clear")
  IN  \/ At(c, <<"resetHead", "resetTail", "resetCount", "resetOverflow", "exit">>,
            Members, ok)
      \/ At(c, <<"resetTail", "resetCount", "resetOverflow", "exit">>,
            Cleared(0, tail, count, o), ok)
      \/ At(c, <<"resetCount", "resetOverflow", "exit">>, Cleared(0, 0, count, o), ok)
      \/ At(c, <<"resetOverflow", "exit">>, Cleared(0, 0, 0, o), ok)
      \/ At(c, <<"exit">>, Cleared(0, 0, 0, 0), ok)

ResetAt(c) ==
  LET R(o, u) == Ring(buffer, head, tail, count, o, u)
      ok == Success("resetCounters")
  IN  \/ At(c, <<"resetOverflow", "resetUnderflow", "exit">>, Members, ok)
      \/ At(c, <<"resetUnderflow", "exit">>, R(0, underflow_count), ok)
      \/ At(c, <<"exit">>, R(0, 0), ok)

QueryAt(c) ==
  \/ At(c, <<"look", "exit">>, Members, Success("query"))
  \/ At(c, <<"exit">>, Members, Success("query"))

InCall(c) ==
  \/ call[c].name = "push" /\ call[c].value \in Values /\ PushAt(c)
  \/ call[c].name = "pop" /\ PopAt(c)
  \/ call[c].name = "peek" /\ PeekAt(c)
  \/ call[c].name = "clear" /\ ClearAt(c)
  \/ call[c].name = "clearAll" /\ ClearAllAt(c)
  \/ call[c].name = "resetCounters" /\ ResetAt(c)
  \/ call[c].name = "query" /\ QueryAt(c)

(* Outside the critical section a call has not begun.                      *)
Outside(c) ==
  \/ call[c] = NoCall /\ todo[c] = <<>>
  \/ /\ call[c] \in AllCalls
     /\ todo[c] = Steps[call[c].name]
     /\ out[c] = Success(Called(call[c]))

(* Each caller has a call, accesses left and an answer of its own.         *)
PerCaller ==
  /\ call = [c \in Callers |-> call[c]]
  /\ todo = [c \in Callers |-> todo[c]]
  /\ out = [c \in Callers |-> out[c]]

SharedInv ==
  /\ PerCaller
  /\ inside \in Callers \cup {Nobody}
  /\ \A c \in Callers : c # inside => Outside(c)
  /\ inside = Nobody => ring = Members
  /\ inside # Nobody => InCall(inside)

-----------------------------------------------------------------------------
(* The calls there are.                                                    *)
LEMMA CallNames ==
  /\ DOMAIN Steps = {"push", "pop", "peek", "clear", "clearAll", "resetCounters", "query"}
  /\ \A k \in AllCalls : k.name \in DOMAIN Steps
  /\ \A k \in AllCalls : k.name = "push" => k.value \in Values
  /\ NoCall \notin AllCalls
BY DEF Steps, AllCalls, NoCall

(* Each begins by taking the lock.                                         *)
LEMMA EnterFirst ==
  ASSUME NEW n \in DOMAIN Steps
  PROVE  Steps[n] # <<>> /\ Head(Steps[n]) = "enter"
<1>1. /\ Head(Steps["push"]) = "enter" /\ Steps["push"] # <<>>
      /\ Head(Steps["pop"]) = "enter" /\ Steps["pop"] # <<>>
      /\ Head(Steps["peek"]) = "enter" /\ Steps["peek"] # <<>>
      /\ Head(Steps["clear"]) = "enter" /\ Steps["clear"] # <<>>
      /\ Head(Steps["clearAll"]) = "enter" /\ Steps["clearAll"] # <<>>
      /\ Head(Steps["resetCounters"]) = "enter" /\ Steps["resetCounters"] # <<>>
      /\ Head(Steps["query"]) = "enter" /\ Steps["query"] # <<>>
  BY DEF Steps
<1>. QED
  BY <1>1, CallNames

(* An access of a call inside the critical section, other than the last.   *)
Access(c) == Refuse(c) \/ Accept(c) \/ Write(c) \/ Read(c) \/ Query(c)

(* The members after access s of a call with argument v.                   *)
Then(s, r, v) ==
  CASE s = "store"           -> [r EXCEPT !.buffer[r.head] = v]
    [] s = "advanceHead"    -> [r EXCEPT !.head = AdvanceIndex(@)]
    [] s = "advanceTail"    -> [r EXCEPT !.tail = AdvanceIndex(@)]
    [] s = "more"            -> [r EXCEPT !.count = @ + 1]
    [] s = "less"            -> [r EXCEPT !.count = @ - 1]
    [] s = "resetHead"      -> [r EXCEPT !.head = 0]
    [] s = "resetTail"      -> [r EXCEPT !.tail = 0]
    [] s = "resetCount"     -> [r EXCEPT !.count = 0]
    [] s = "resetOverflow"  -> [r EXCEPT !.overflow = 0]
    [] s = "resetUnderflow" -> [r EXCEPT !.underflow = 0]
    [] OTHER                 -> r

(* The place all of a call is at: access s is next, then come the rest.    *)
Starts(all, s, rest) == all # <<>> /\ Head(all) = s /\ Tail(all) = rest

(* A check whether there is room or a value: it refuses or goes on.        *)
LEMMA Checked ==
  ASSUME NEW c \in Callers, Access(c), PerCaller,
         NEW s \in {"room", "any"}, NEW rest, Starts(todo[c], s, rest)
  PROVE  \/ /\ ring.count = IF s = "room" THEN Capacity ELSE 0
            /\ todo'[c] = <<"exit">>
            /\ ring' = IF s = "room" THEN [ring EXCEPT !.overflow = @ + 1]
                                     ELSE [ring EXCEPT !.underflow = @ + 1]
            /\ out'[c] = Failure(Called(call[c]))
         \/ /\ ring.count # IF s = "room" THEN Capacity ELSE 0
            /\ todo'[c] = rest
            /\ UNCHANGED ring
            /\ out'[c] = out[c]
<1>1. /\ \A x : Comes(c, x) <=> s = x
      /\ Tail(todo[c]) = rest
  BY DEF Comes, Starts
<1>2. Refuses(c) <=> ring.count = IF s = "room" THEN Capacity ELSE 0
  BY <1>1 DEF Refuses
<1>3. CASE Refuse(c)
  BY <1>1, <1>2, <1>3 DEF PerCaller, Refuse
<1>4. CASE Accept(c)
  BY <1>1, <1>2, <1>4 DEF PerCaller, Accept, Proceed
<1>. QED
  BY <1>1, <1>3, <1>4 DEF Access, Write, Read, Query

(* Any other access is made.                                               *)
LEMMA Made ==
  ASSUME NEW c \in Callers, Access(c), PerCaller,
         NEW s, s # "room", s # "any", NEW rest, Starts(todo[c], s, rest)
  PROVE  /\ s # "exit"
         /\ todo'[c] = rest
         /\ ring' = Then(s, ring, call[c].value)
         /\ out'[c] = IF s = "load"
                      THEN Result(Called(call[c]), ring.buffer[ring.tail])
                      ELSE out[c]
<1>1. /\ \A x : Comes(c, x) <=> s = x
      /\ Tail(todo[c]) = rest
  BY DEF Comes, Starts
<1>2. CASE Write(c)
  BY <1>1, <1>2 DEF PerCaller, Write, Proceed, Then
<1>3. CASE Read(c)
  BY <1>1, <1>3 DEF PerCaller, Read, Proceed, Then
<1>4. CASE Query(c)
  BY <1>1, <1>4 DEF PerCaller, Query, Proceed, Then
<1>. QED
  BY <1>1, <1>2, <1>3, <1>4 DEF Access, Refuse, Refuses, Accept

(* Only the destructor of the lock is left.                                *)
LEMMA NoAccessLeft ==
  ASSUME NEW c \in Callers, todo[c] = <<"exit">> PROVE ~Access(c)
<1>1. \A x : Comes(c, x) <=> x = "exit"
  BY DEF Comes
<1>. QED
  BY <1>1 DEF Access, Refuse, Refuses, Accept, Write, Read, Query

(* An access changes nothing of the other callers, nor what the last call  *)
(* left.                                                                   *)
LEMMA AccessAlone ==
  ASSUME NEW c \in Callers, Access(c), PerCaller
  PROVE  /\ UNCHANGED <<inside, call, vars>>
         /\ todo[c] # <<>> /\ Head(todo[c]) # "enter"
         /\ PerCaller'
         /\ \A d \in Callers \ {c} : todo'[d] = todo[d] /\ out'[d] = out[d]
<1>1. CASE Refuse(c)
  BY <1>1 DEF PerCaller, Refuse, Refuses, Comes
<1>2. CASE Accept(c)
  BY <1>2 DEF PerCaller, Accept, Refuses, Comes, Proceed
<1>3. CASE Write(c)
  BY <1>3 DEF PerCaller, Write, Comes, Proceed
<1>4. CASE Read(c)
  BY <1>4 DEF PerCaller, Read, Comes, Proceed
<1>5. CASE Query(c)
  BY <1>5 DEF PerCaller, Query, Comes, Proceed
<1>. QED
  BY <1>1, <1>2, <1>3, <1>4, <1>5 DEF Access

(* Each access of a push goes on to the next place in it.                  *)
LEMMA PushAccess ==
  ASSUME NEW c \in Callers, Access(c), PerCaller,
         call[c].name = "push", PushAt(c)
  PROVE  PushAt(c)'
<1>. DEFINE R(b, h, n, o) == Ring(b, h, tail, n, o, underflow_count)
            stored == [buffer EXCEPT ![head] = call[c].value]
            h1 == AdvanceIndex(head)
            o1 == overflow_count
            ok == Success("push")
<1>1. /\ UNCHANGED <<buffer, head, tail, count, overflow_count, underflow_count>>
      /\ call'[c] = call[c]
      /\ Called(call[c]) = "push"
  BY AccessAlone DEF vars, Called
<1>2. CASE At(c, <<"room", "store", "advanceHead", "more", "exit">>, Members, ok)
  <2>1. Starts(todo[c], "room", <<"store", "advanceHead", "more", "exit">>)
    BY <1>2 DEF At, Starts
  <2>2. \/ /\ count = Capacity
           /\ At(c, <<"exit">>, R(buffer, head, count, o1 + 1), Failure("push"))'
        \/ /\ count # Capacity
           /\ At(c, <<"store", "advanceHead", "more", "exit">>, Members, ok)'
    BY <1>1, <1>2, <2>1, Checked DEF At, Ring, Members
  <2>. QED
    BY <1>1, <2>2 DEF PushAt
<1>3. CASE /\ count # Capacity
           /\ At(c, <<"store", "advanceHead", "more", "exit">>, Members, ok)
  <2>1. Starts(todo[c], "store", <<"advanceHead", "more", "exit">>)
    BY <1>3 DEF At, Starts
  <2>2. /\ todo'[c] = <<"advanceHead", "more", "exit">>
        /\ ring' = Then("store", ring, call[c].value)
        /\ out'[c] = out[c]
    BY <2>1, Made
  <2>3. Then("store", Members, call[c].value) = R(stored, head, count, o1)
    BY DEF Then, Ring, Members, Cleared
  <2>4. At(c, <<"advanceHead", "more", "exit">>, R(stored, head, count, o1), ok)'
    BY <1>1, <1>3, <2>2, <2>3 DEF At, Members, Cleared
  <2>. QED
    BY <1>1, <1>3, <2>4 DEF PushAt
<1>4. CASE /\ count # Capacity
           /\ At(c, <<"advanceHead", "more", "exit">>, R(stored, head, count, o1), ok)
  <2>1. Starts(todo[c], "advanceHead", <<"more", "exit">>)
    BY <1>4 DEF At, Starts
  <2>2. /\ todo'[c] = <<"more", "exit">>
        /\ ring' = Then("advanceHead", ring, call[c].value)
        /\ out'[c] = out[c]
    BY <2>1, Made
  <2>3. Then("advanceHead", R(stored, head, count, o1), call[c].value) = R(stored, h1, count, o1)
    BY DEF Then, Ring, Members, Cleared
  <2>4. At(c, <<"more", "exit">>, R(stored, h1, count, o1), ok)'
    BY <1>1, <1>4, <2>2, <2>3 DEF At, Members, Cleared
  <2>. QED
    BY <1>1, <1>4, <2>4 DEF PushAt
<1>5. CASE count # Capacity /\ At(c, <<"more", "exit">>, R(stored, h1, count, o1), ok)
  <2>1. Starts(todo[c], "more", <<"exit">>)
    BY <1>5 DEF At, Starts
  <2>2. /\ todo'[c] = <<"exit">>
        /\ ring' = Then("more", ring, call[c].value)
        /\ out'[c] = out[c]
    BY <2>1, Made
  <2>3. Then("more", R(stored, h1, count, o1), call[c].value) = R(stored, h1, count + 1, o1)
    BY DEF Then, Ring, Members, Cleared
  <2>4. At(c, <<"exit">>, R(stored, h1, count + 1, o1), ok)'
    BY <1>1, <1>5, <2>2, <2>3 DEF At, Members, Cleared
  <2>. QED
    BY <1>1, <1>5, <2>4 DEF PushAt
<1>6. CASE todo[c] = <<"exit">>
  BY <1>6, NoAccessLeft
<1>. QED
  BY <1>2, <1>3, <1>4, <1>5, <1>6 DEF PushAt, At

(* Of a pop.                                                               *)
LEMMA PopAccess ==
  ASSUME NEW c \in Callers, Access(c), PerCaller,
         call[c].name = "pop", PopAt(c)
  PROVE  PopAt(c)'
<1>. DEFINE R(t, n, u) == Ring(buffer, head, t, n, overflow_count, u)
            t1 == AdvanceIndex(tail)
            u1 == underflow_count
            ok == Success("pop")
            taken == Result("pop", buffer[tail])
<1>1. /\ UNCHANGED <<buffer, head, tail, count, overflow_count, underflow_count>>
      /\ call'[c] = call[c]
      /\ Called(call[c]) = "pop"
  BY AccessAlone DEF vars, Called
<1>2. CASE At(c, <<"any", "load", "advanceTail", "less", "exit">>, Members, ok)
  <2>1. Starts(todo[c], "any", <<"load", "advanceTail", "less", "exit">>)
    BY <1>2 DEF At, Starts
  <2>2. \/ /\ count = 0
           /\ At(c, <<"exit">>, R(tail, count, u1 + 1), Failure("pop"))'
        \/ /\ count # 0
           /\ At(c, <<"load", "advanceTail", "less", "exit">>, Members, ok)'
    BY <1>1, <1>2, <2>1, Checked DEF At, Ring, Members
  <2>. QED
    BY <1>1, <2>2 DEF PopAt
<1>3. CASE count # 0 /\ At(c, <<"load", "advanceTail", "less", "exit">>, Members, ok)
  <2>1. Starts(todo[c], "load", <<"advanceTail", "less", "exit">>)
    BY <1>3 DEF At, Starts
  <2>2. /\ todo'[c] = <<"advanceTail", "less", "exit">>
        /\ ring' = Then("load", ring, call[c].value)
        /\ out'[c] = Result(Called(call[c]), ring.buffer[ring.tail])
    BY <2>1, Made
  <2>3. Then("load", Members, call[c].value) = Members
    BY DEF Then, Ring, Members, Cleared
  <2>4. At(c, <<"advanceTail", "less", "exit">>, Members, taken)'
    BY <1>1, <1>3, <2>2, <2>3 DEF At, Ring, Members
  <2>. QED
    BY <1>1, <1>3, <2>4 DEF PopAt
<1>4. CASE count # 0 /\ At(c, <<"advanceTail", "less", "exit">>, Members, taken)
  <2>1. Starts(todo[c], "advanceTail", <<"less", "exit">>)
    BY <1>4 DEF At, Starts
  <2>2. /\ todo'[c] = <<"less", "exit">>
        /\ ring' = Then("advanceTail", ring, call[c].value)
        /\ out'[c] = out[c]
    BY <2>1, Made
  <2>3. Then("advanceTail", Members, call[c].value) = R(t1, count, u1)
    BY DEF Then, Ring, Members, Cleared
  <2>4. At(c, <<"less", "exit">>, R(t1, count, u1), taken)'
    BY <1>1, <1>4, <2>2, <2>3 DEF At, Members, Cleared
  <2>. QED
    BY <1>1, <1>4, <2>4 DEF PopAt
<1>5. CASE count # 0 /\ At(c, <<"less", "exit">>, R(t1, count, u1), taken)
  <2>1. Starts(todo[c], "less", <<"exit">>)
    BY <1>5 DEF At, Starts
  <2>2. /\ todo'[c] = <<"exit">>
        /\ ring' = Then("less", ring, call[c].value)
        /\ out'[c] = out[c]
    BY <2>1, Made
  <2>3. Then("less", R(t1, count, u1), call[c].value) = R(t1, count - 1, u1)
    BY DEF Then, Ring, Members, Cleared
  <2>4. At(c, <<"exit">>, R(t1, count - 1, u1), taken)'
    BY <1>1, <1>5, <2>2, <2>3 DEF At, Members, Cleared
  <2>. QED
    BY <1>1, <1>5, <2>4 DEF PopAt
<1>6. CASE todo[c] = <<"exit">>
  BY <1>6, NoAccessLeft
<1>. QED
  BY <1>2, <1>3, <1>4, <1>5, <1>6 DEF PopAt, At

(* Of a peek.                                                              *)
LEMMA PeekAccess ==
  ASSUME NEW c \in Callers, Access(c), PerCaller,
         call[c].name = "peek", PeekAt(c)
  PROVE  PeekAt(c)'
<1>. DEFINE R(u) == Ring(buffer, head, tail, count, overflow_count, u)
            ok == Success("peek")
            seen == Result("peek", buffer[tail])
<1>1. /\ UNCHANGED <<buffer, head, tail, count, overflow_count, underflow_count>>
      /\ call'[c] = call[c]
      /\ Called(call[c]) = "peek"
  BY AccessAlone DEF vars, Called
<1>2. CASE At(c, <<"any", "load", "exit">>, Members, ok)
  <2>1. Starts(todo[c], "any", <<"load", "exit">>)
    BY <1>2 DEF At, Starts
  <2>2. \/ /\ count = 0
           /\ At(c, <<"exit">>, R(underflow_count + 1), Failure("peek"))'
        \/ /\ count # 0
           /\ At(c, <<"load", "exit">>, Members, ok)'
    BY <1>1, <1>2, <2>1, Checked DEF At, Ring, Members
  <2>. QED
    BY <1>1, <2>2 DEF PeekAt
<1>3. CASE count # 0 /\ At(c, <<"load", "exit">>, Members, ok)
  <2>1. Starts(todo[c], "load", <<"exit">>)
    BY <1>3 DEF At, Starts
  <2>2. /\ todo'[c] = <<"exit">>
        /\ ring' = Then("load", ring, call[c].value)
        /\ out'[c] = Result(Called(call[c]), ring.buffer[ring.tail])
    BY <2>1, Made
  <2>3. Then("load", Members, call[c].value) = Members
    BY DEF Then, Ring, Members, Cleared
  <2>4. At(c, <<"exit">>, Members, seen)'
    BY <1>1, <1>3, <2>2, <2>3 DEF At, Ring, Members
  <2>. QED
    BY <1>1, <1>3, <2>4 DEF PeekAt
<1>4. CASE todo[c] = <<"exit">>
  BY <1>4, NoAccessLeft
<1>. QED
  BY <1>2, <1>3, <1>4 DEF PeekAt, At

(* Of a clear that keeps the overflow counter.                             *)
LEMMA ClearAccess ==
  ASSUME NEW c \in Callers, Access(c), PerCaller,
         call[c].name = "clear", ClearAt(c)
  PROVE  ClearAt(c)'
<1>. DEFINE o == overflow_count
            ok == Success("clear")
<1>1. /\ UNCHANGED <<buffer, head, tail, count, overflow_count, underflow_count>>
      /\ call'[c] = call[c]
      /\ Called(call[c]) = "clear"
  BY AccessAlone DEF vars, Called
<1>2. CASE At(c, <<"resetHead", "resetTail", "resetCount", "exit">>, Members, ok)
  <2>1. Starts(todo[c], "resetHead", <<"resetTail", "resetCount", "exit">>)
    BY <1>2 DEF At, Starts
  <2>2. /\ todo'[c] = <<"resetTail", "resetCount", "exit">>
        /\ ring' = Then("resetHead", ring, call[c].value)
        /\ out'[c] = out[c]
    BY <2>1, Made
  <2>3. Then("resetHead", Members, call[c].value) = Cleared(0, tail, count, o)
    BY DEF Then, Ring, Members, Cleared
  <2>4. At(c, <<"resetTail", "resetCount", "exit">>, Cleared(0, tail, count, o), ok)'
    BY <1>1, <1>2, <2>2, <2>3 DEF At, Members, Cleared
  <2>. QED
    BY <1>1, <1>2, <2>4 DEF ClearAt
<1>3. CASE At(c, <<"resetTail", "resetCount", "exit">>, Cleared(0, tail, count, o), ok)
  <2>1. Starts(todo[c], "resetTail", <<"resetCount", "exit">>)
    BY <1>3 DEF At, Starts
  <2>2. /\ todo'[c] = <<"resetCount", "exit">>
        /\ ring' = Then("resetTail", ring, call[c].value)
        /\ out'[c] = out[c]
    BY <2>1, Made
  <2>3. Then("resetTail", Cleared(0, tail, count, o), call[c].value) = Cleared(0, 0, count, o)
    BY DEF Then, Ring, Members, Cleared
  <2>4. At(c, <<"resetCount", "exit">>, Cleared(0, 0, count, o), ok)'
    BY <1>1, <1>3, <2>2, <2>3 DEF At, Members, Cleared
  <2>. QED
    BY <1>1, <1>3, <2>4 DEF ClearAt
<1>4. CASE At(c, <<"resetCount", "exit">>, Cleared(0, 0, count, o), ok)
  <2>1. Starts(todo[c], "resetCount", <<"exit">>)
    BY <1>4 DEF At, Starts
  <2>2. /\ todo'[c] = <<"exit">>
        /\ ring' = Then("resetCount", ring, call[c].value)
        /\ out'[c] = out[c]
    BY <2>1, Made
  <2>3. Then("resetCount", Cleared(0, 0, count, o), call[c].value) = Cleared(0, 0, 0, o)
    BY DEF Then, Ring, Members, Cleared
  <2>4. At(c, <<"exit">>, Cleared(0, 0, 0, o), ok)'
    BY <1>1, <1>4, <2>2, <2>3 DEF At, Members, Cleared
  <2>. QED
    BY <1>1, <1>4, <2>4 DEF ClearAt
<1>5. CASE todo[c] = <<"exit">>
  BY <1>5, NoAccessLeft
<1>. QED
  BY <1>2, <1>3, <1>4, <1>5 DEF ClearAt, At

(* Of a clear that resets it.                                              *)
LEMMA ClearAllAccess ==
  ASSUME NEW c \in Callers, Access(c), PerCaller,
         call[c].name = "clearAll", ClearAllAt(c)
  PROVE  ClearAllAt(c)'
<1>. DEFINE o == overflow_count
            ok == Success("clear")
<1>1. /\ UNCHANGED <<buffer, head, tail, count, overflow_count, underflow_count>>
      /\ call'[c] = call[c]
      /\ Called(call[c]) = "clear"
  BY AccessAlone DEF vars, Called
<1>2. CASE At(c, <<"resetHead", "resetTail", "resetCount", "resetOverflow", "exit">>,
              Members, ok)
  <2>1. Starts(todo[c], "resetHead", <<"resetTail", "resetCount", "resetOverflow", "exit">>)
    BY <1>2 DEF At, Starts
  <2>2. /\ todo'[c] = <<"resetTail", "resetCount", "resetOverflow", "exit">>
        /\ ring' = Then("resetHead", ring, call[c].value)
        /\ out'[c] = out[c]
    BY <2>1, Made
  <2>3. Then("resetHead", Members, call[c].value) = Cleared(0, tail, count, o)
    BY DEF Then, Ring, Members, Cleared
  <2>4. At(c, <<"resetTail", "resetCount", "resetOverflow", "exit">>,
         Cleared(0, tail, count, o), ok)'
    BY <1>1, <1>2, <2>2, <2>3 DEF At, Members, Cleared
  <2>. QED
    BY <1>1, <1>2, <2>4 DEF ClearAllAt
<1>3. CASE At(c, <<"resetTail", "resetCount", "resetOverflow", "exit">>,
              Cleared(0, tail, count, o), ok)
  <2>1. Starts(todo[c], "resetTail", <<"resetCount", "resetOverflow", "exit">>)
    BY <1>3 DEF At, Starts
  <2>2. /\ todo'[c] = <<"resetCount", "resetOverflow", "exit">>
        /\ ring' = Then("resetTail", ring, call[c].value)
        /\ out'[c] = out[c]
    BY <2>1, Made
  <2>3. Then("resetTail", Cleared(0, tail, count, o), call[c].value) = Cleared(0, 0, count, o)
    BY DEF Then, Ring, Members, Cleared
  <2>4. At(c, <<"resetCount", "resetOverflow", "exit">>, Cleared(0, 0, count, o), ok)'
    BY <1>1, <1>3, <2>2, <2>3 DEF At, Members, Cleared
  <2>. QED
    BY <1>1, <1>3, <2>4 DEF ClearAllAt
<1>4. CASE At(c, <<"resetCount", "resetOverflow", "exit">>, Cleared(0, 0, count, o), ok)
  <2>1. Starts(todo[c], "resetCount", <<"resetOverflow", "exit">>)
    BY <1>4 DEF At, Starts
  <2>2. /\ todo'[c] = <<"resetOverflow", "exit">>
        /\ ring' = Then("resetCount", ring, call[c].value)
        /\ out'[c] = out[c]
    BY <2>1, Made
  <2>3. Then("resetCount", Cleared(0, 0, count, o), call[c].value) = Cleared(0, 0, 0, o)
    BY DEF Then, Ring, Members, Cleared
  <2>4. At(c, <<"resetOverflow", "exit">>, Cleared(0, 0, 0, o), ok)'
    BY <1>1, <1>4, <2>2, <2>3 DEF At, Members, Cleared
  <2>. QED
    BY <1>1, <1>4, <2>4 DEF ClearAllAt
<1>5. CASE At(c, <<"resetOverflow", "exit">>, Cleared(0, 0, 0, o), ok)
  <2>1. Starts(todo[c], "resetOverflow", <<"exit">>)
    BY <1>5 DEF At, Starts
  <2>2. /\ todo'[c] = <<"exit">>
        /\ ring' = Then("resetOverflow", ring, call[c].value)
        /\ out'[c] = out[c]
    BY <2>1, Made
  <2>3. Then("resetOverflow", Cleared(0, 0, 0, o), call[c].value) = Cleared(0, 0, 0, 0)
    BY DEF Then, Ring, Members, Cleared
  <2>4. At(c, <<"exit">>, Cleared(0, 0, 0, 0), ok)'
    BY <1>1, <1>5, <2>2, <2>3 DEF At, Members, Cleared
  <2>. QED
    BY <1>1, <1>5, <2>4 DEF ClearAllAt
<1>6. CASE todo[c] = <<"exit">>
  BY <1>6, NoAccessLeft
<1>. QED
  BY <1>2, <1>3, <1>4, <1>5, <1>6 DEF ClearAllAt, At

(* Of resetCounters.                                                       *)
LEMMA ResetAccess ==
  ASSUME NEW c \in Callers, Access(c), PerCaller,
         call[c].name = "resetCounters", ResetAt(c)
  PROVE  ResetAt(c)'
<1>. DEFINE R(o, u) == Ring(buffer, head, tail, count, o, u)
            ok == Success("resetCounters")
<1>1. /\ UNCHANGED <<buffer, head, tail, count, overflow_count, underflow_count>>
      /\ call'[c] = call[c]
      /\ Called(call[c]) = "resetCounters"
  BY AccessAlone DEF vars, Called
<1>2. CASE At(c, <<"resetOverflow", "resetUnderflow", "exit">>, Members, ok)
  <2>1. Starts(todo[c], "resetOverflow", <<"resetUnderflow", "exit">>)
    BY <1>2 DEF At, Starts
  <2>2. /\ todo'[c] = <<"resetUnderflow", "exit">>
        /\ ring' = Then("resetOverflow", ring, call[c].value)
        /\ out'[c] = out[c]
    BY <2>1, Made
  <2>3. Then("resetOverflow", Members, call[c].value) = R(0, underflow_count)
    BY DEF Then, Ring, Members, Cleared
  <2>4. At(c, <<"resetUnderflow", "exit">>, R(0, underflow_count), ok)'
    BY <1>1, <1>2, <2>2, <2>3 DEF At, Members, Cleared
  <2>. QED
    BY <1>1, <1>2, <2>4 DEF ResetAt
<1>3. CASE At(c, <<"resetUnderflow", "exit">>, R(0, underflow_count), ok)
  <2>1. Starts(todo[c], "resetUnderflow", <<"exit">>)
    BY <1>3 DEF At, Starts
  <2>2. /\ todo'[c] = <<"exit">>
        /\ ring' = Then("resetUnderflow", ring, call[c].value)
        /\ out'[c] = out[c]
    BY <2>1, Made
  <2>3. Then("resetUnderflow", R(0, underflow_count), call[c].value) = R(0, 0)
    BY DEF Then, Ring, Members, Cleared
  <2>4. At(c, <<"exit">>, R(0, 0), ok)'
    BY <1>1, <1>3, <2>2, <2>3 DEF At, Members, Cleared
  <2>. QED
    BY <1>1, <1>3, <2>4 DEF ResetAt
<1>4. CASE todo[c] = <<"exit">>
  BY <1>4, NoAccessLeft
<1>. QED
  BY <1>2, <1>3, <1>4 DEF ResetAt, At

(* Of a query.                                                             *)
LEMMA QueryAccess ==
  ASSUME NEW c \in Callers, Access(c), PerCaller,
         call[c].name = "query", QueryAt(c)
  PROVE  QueryAt(c)'
<1>. DEFINE ok == Success("query")
<1>1. /\ UNCHANGED <<buffer, head, tail, count, overflow_count, underflow_count>>
      /\ call'[c] = call[c]
      /\ Called(call[c]) = "query"
  BY AccessAlone DEF vars, Called
<1>2. CASE At(c, <<"look", "exit">>, Members, ok)
  <2>1. Starts(todo[c], "look", <<"exit">>)
    BY <1>2 DEF At, Starts
  <2>2. /\ todo'[c] = <<"exit">>
        /\ ring' = Then("look", ring, call[c].value)
        /\ out'[c] = out[c]
    BY <2>1, Made
  <2>3. Then("look", Members, call[c].value) = Members
    BY DEF Then, Ring, Members, Cleared
  <2>4. At(c, <<"exit">>, Members, ok)'
    BY <1>1, <1>2, <2>2, <2>3 DEF At, Members, Cleared
  <2>. QED
    BY <1>1, <1>2, <2>4 DEF QueryAt
<1>3. CASE todo[c] = <<"exit">>
  BY <1>3, NoAccessLeft
<1>. QED
  BY <1>2, <1>3 DEF QueryAt, At

-----------------------------------------------------------------------------
(* The call that leaves.                                                   *)

(* The lock is given back when nothing else is left to do.                 *)
Leaves(c) == todo[c] = <<"exit">> /\ Exit(c)

(* What the members are, the next call finds.                              *)
LEMMA LeavesMembers ==
  ASSUME NEW c \in Callers, Leaves(c),
         NEW b, NEW h, NEW t, NEW n, NEW o, NEW u, ring = Ring(b, h, t, n, o, u)
  PROVE  /\ buffer' = b /\ head' = h /\ tail' = t /\ count' = n
         /\ overflow_count' = o /\ underflow_count' = u
         /\ ring' = Members'
BY DEF Leaves, Exit, Ring, Members

(* A call whose next access is the destructor is at its last place.        *)
LEMMA LastPlace ==
  ASSUME NEW c \in Callers, Comes(c, "exit"), InCall(c)
  PROVE  todo[c] = <<"exit">>
<1>2. CASE PushAt(c)
  BY <1>2 DEF PushAt, At, Comes
<1>3. CASE PopAt(c)
  BY <1>3 DEF PopAt, At, Comes
<1>4. CASE PeekAt(c)
  BY <1>4 DEF PeekAt, At, Comes
<1>5. CASE ClearAt(c)
  BY <1>5 DEF ClearAt, At, Comes
<1>6. CASE ClearAllAt(c)
  BY <1>6 DEF ClearAllAt, At, Comes
<1>7. CASE ResetAt(c)
  BY <1>7 DEF ResetAt, At, Comes
<1>8. CASE QueryAt(c)
  BY <1>8 DEF QueryAt, At, Comes
<1>. QED
  BY <1>2, <1>3, <1>4, <1>5, <1>6, <1>7, <1>8 DEF InCall

(* The call that leaves is a call of RingBuffer, and a query is none.      *)
LEMMA LeavesAsOneAction ==
  ASSUME NEW c \in Callers, Leaves(c), InCall(c)
  PROVE  [Next]_vars /\ ring' = Members'
<1>. USE DEF At, Leaves
<1>1. answer' = IF call[c].name = "query" THEN answer ELSE out[c]
  BY DEF Exit
<1>2. CASE call[c].name = "push" /\ call[c].value \in Values /\ PushAt(c)
  <2>. DEFINE v == call[c].value
  <2>1. CASE /\ count # Capacity
             /\ ring = Ring([buffer EXCEPT ![head] = v], AdvanceIndex(head), tail,
                            count + 1, overflow_count, underflow_count)
             /\ out[c] = Success("push")
    <3>1. PushStored(v) /\ ring' = Members'
      BY <1>1, <1>2, <2>1, LeavesMembers DEF PushStored
    <3>. QED
      BY <1>2, <3>1 DEF Next
  <2>2. CASE /\ count = Capacity
             /\ ring = Ring(buffer, head, tail, count, overflow_count + 1, underflow_count)
             /\ out[c] = Failure("push")
    <3>1. PushRefused /\ ring' = Members'
      BY <1>1, <1>2, <2>2, LeavesMembers DEF PushRefused
    <3>. QED
      BY <1>2, <3>1 DEF Next
  <2>. QED
    BY <1>2, <2>1, <2>2 DEF PushAt
<1>3. CASE call[c].name = "pop" /\ PopAt(c)
  <2>1. CASE /\ count # 0
             /\ ring = Ring(buffer, head, AdvanceIndex(tail), count - 1,
                            overflow_count, underflow_count)
             /\ out[c] = Result("pop", buffer[tail])
    <3>1. PopTaken /\ ring' = Members'
      BY <1>1, <1>3, <2>1, LeavesMembers DEF PopTaken
    <3>. QED
      BY <3>1 DEF Next
  <2>2. CASE /\ count = 0
             /\ ring = Ring(buffer, head, tail, count, overflow_count, underflow_count + 1)
             /\ out[c] = Failure("pop")
    <3>1. Underflow("pop") /\ ring' = Members'
      BY <1>1, <1>3, <2>2, LeavesMembers DEF Underflow
    <3>. QED
      BY <3>1 DEF Next
  <2>. QED
    BY <1>3, <2>1, <2>2 DEF PopAt
<1>4. CASE call[c].name = "peek" /\ PeekAt(c)
  <2>1. CASE count # 0 /\ ring = Members /\ out[c] = Result("peek", buffer[tail])
    <3>1. PeekSeen /\ ring' = Members'
      BY <1>1, <1>4, <2>1, LeavesMembers DEF PeekSeen, Members
    <3>. QED
      BY <3>1 DEF Next
  <2>2. CASE /\ count = 0
             /\ ring = Ring(buffer, head, tail, count, overflow_count, underflow_count + 1)
             /\ out[c] = Failure("peek")
    <3>1. Underflow("peek") /\ ring' = Members'
      BY <1>1, <1>4, <2>2, LeavesMembers DEF Underflow
    <3>. QED
      BY <3>1 DEF Next
  <2>. QED
    BY <1>4, <2>1, <2>2 DEF PeekAt
<1>5. CASE call[c].name = "clear" /\ ClearAt(c)
  <2>1. ring = Cleared(0, 0, 0, overflow_count) /\ out[c] = Success("clear")
    BY <1>5 DEF ClearAt
  <2>2. Clear(FALSE) /\ ring' = Members'
    BY <1>1, <1>5, <2>1, LeavesMembers DEF Clear, Cleared
  <2>. QED
    BY <2>2 DEF Next
<1>6. CASE call[c].name = "clearAll" /\ ClearAllAt(c)
  <2>1. ring = Cleared(0, 0, 0, 0) /\ out[c] = Success("clear")
    BY <1>6 DEF ClearAllAt
  <2>2. Clear(TRUE) /\ ring' = Members'
    BY <1>1, <1>6, <2>1, LeavesMembers DEF Clear, Cleared
  <2>. QED
    BY <2>2 DEF Next
<1>7. CASE call[c].name = "resetCounters" /\ ResetAt(c)
  <2>1. /\ ring = Ring(buffer, head, tail, count, 0, 0)
        /\ out[c] = Success("resetCounters")
    BY <1>7 DEF ResetAt
  <2>2. ResetCounters /\ ring' = Members'
    BY <1>1, <1>7, <2>1, LeavesMembers DEF ResetCounters
  <2>. QED
    BY <2>2 DEF Next
<1>8. CASE call[c].name = "query" /\ QueryAt(c)
  <2>1. ring = Members
    BY <1>8 DEF QueryAt
  <2>2. UNCHANGED vars /\ ring' = Members'
    BY <1>1, <1>8, <2>1, LeavesMembers DEF Members, vars
  <2>. QED
    BY <2>2
<1>. QED
  BY <1>2, <1>3, <1>4, <1>5, <1>6, <1>7, <1>8 DEF InCall

-----------------------------------------------------------------------------
(* The invariant.                                                          *)

(* Who accesses a member or leaves is inside the critical section.         *)
LEMMA OnlyInside ==
  ASSUME SharedInv, NEW c \in Callers, todo[c] # <<>>, Head(todo[c]) # "enter"
  PROVE  c = inside /\ inside # Nobody /\ InCall(c)
<1>1. ~Outside(c)
  BY CallNames, EnterFirst DEF Outside
<1>. QED
  BY <1>1, SharedAssumption DEF SharedInv

(* Initially everybody is outside and the members are their history.       *)
LEMMA SharedInitInv == SharedInit => SharedInv
BY SharedAssumption
DEF SharedInit, SharedInv, PerCaller, Outside, Members, Ring

(* A caller that gets in is at the first place of its call.                *)
LEMMA EnterInv ==
  ASSUME SharedInv, NEW c \in Callers, Enter(c) PROVE SharedInv'
<1>1. inside = Nobody /\ inside' = c /\ c # Nobody /\ ring = Members
  BY SharedAssumption DEF Enter, SharedInv
<1>2. /\ call[c] \in AllCalls
      /\ todo[c] = Steps[call[c].name]
      /\ out[c] = Success(Called(call[c]))
  BY <1>1, SharedAssumption DEF SharedInv, Outside, Enter, Comes
<1>3. /\ todo'[c] = Tail(todo[c])
      /\ \A d \in Callers \ {c} : todo'[d] = todo[d]
      /\ PerCaller'
      /\ UNCHANGED <<ring, call, out, vars>>
  BY DEF Enter, Proceed, SharedInv, PerCaller
<1>4. Members' = Members
  BY <1>3 DEF Members, Ring, vars
<1>5. /\ ring' = Members' /\ out'[c] = Success(Called(call'[c])) /\ call'[c] = call[c]
      /\ todo'[c] = Tail(Steps[call[c].name])
  BY <1>1, <1>2, <1>3, <1>4
<1>6. InCall(c)'
  <2>1. CASE call[c].name = "push"
    <3>1. todo'[c] = <<"room", "store", "advanceHead", "more", "exit">>
      BY <1>5, <2>1 DEF Steps
    <3>. QED
      BY <1>2, <1>5, <2>1, <3>1, CallNames DEF InCall, PushAt, At, Called
  <2>2. CASE call[c].name = "pop"
    <3>1. todo'[c] = <<"any", "load", "advanceTail", "less", "exit">>
      BY <1>5, <2>2 DEF Steps
    <3>. QED
      BY <1>5, <2>2, <3>1 DEF InCall, PopAt, At, Called
  <2>3. CASE call[c].name = "peek"
    <3>1. todo'[c] = <<"any", "load", "exit">>
      BY <1>5, <2>3 DEF Steps
    <3>. QED
      BY <1>5, <2>3, <3>1 DEF InCall, PeekAt, At, Called
  <2>4. CASE call[c].name = "clear"
    <3>1. todo'[c] = <<"resetHead", "resetTail", "resetCount", "exit">>
      BY <1>5, <2>4 DEF Steps
    <3>. QED
      BY <1>5, <2>4, <3>1 DEF InCall, ClearAt, At, Called
  <2>5. CASE call[c].name = "clearAll"
    <3>1. todo'[c] = <<"resetHead", "resetTail", "resetCount", "resetOverflow", "exit">>
      BY <1>5, <2>5 DEF Steps
    <3>. QED
      BY <1>5, <2>5, <3>1 DEF InCall, ClearAllAt, At, Called
  <2>6. CASE call[c].name = "resetCounters"
    <3>1. todo'[c] = <<"resetOverflow", "resetUnderflow", "exit">>
      BY <1>5, <2>6 DEF Steps
    <3>. QED
      BY <1>5, <2>6, <3>1 DEF InCall, ResetAt, At, Called
  <2>7. CASE call[c].name = "query"
    <3>1. todo'[c] = <<"look", "exit">>
      BY <1>5, <2>7 DEF Steps
    <3>. QED
      BY <1>5, <2>7, <3>1 DEF InCall, QueryAt, At, Called
  <2>. QED
    BY <1>2, <2>1, <2>2, <2>3, <2>4, <2>5, <2>6, <2>7, CallNames
<1>7. ASSUME NEW d \in Callers, d # c PROVE Outside(d)'
  BY <1>1, <1>3, <1>7, SharedAssumption DEF SharedInv, Outside
<1>. QED
  BY <1>1, <1>3, <1>6, <1>7 DEF SharedInv

(* An access moves the caller inside on to its next place.                 *)
LEMMA AccessInv ==
  ASSUME SharedInv, NEW c \in Callers, Access(c) PROVE SharedInv'
<1>1. PerCaller
  BY DEF SharedInv
<1>2. /\ UNCHANGED <<inside, call, vars>>
      /\ PerCaller'
      /\ \A d \in Callers \ {c} : todo'[d] = todo[d] /\ out'[d] = out[d]
  BY <1>1, AccessAlone
<1>3. c = inside /\ inside # Nobody /\ InCall(c)
  BY <1>1, AccessAlone, OnlyInside
<1>4. InCall(c)'
  BY <1>1, <1>2, <1>3, PushAccess, PopAccess, PeekAccess, ClearAccess, ClearAllAccess,
     ResetAccess, QueryAccess DEF InCall
<1>5. ASSUME NEW d \in Callers, d # c PROVE Outside(d)'
  BY <1>2, <1>3, <1>5 DEF SharedInv, Outside
<1>. QED
  BY <1>2, <1>3, <1>4, <1>5 DEF SharedInv

(* A caller that leaves has made its call.                                 *)
LEMMA ExitInv ==
  ASSUME SharedInv, NEW c \in Callers, Exit(c)
  PROVE  SharedInv' /\ [Next]_vars
<1>1. todo[c] # <<>> /\ Head(todo[c]) = "exit" /\ Comes(c, "exit")
  BY DEF Exit, Comes
<1>2. c = inside /\ inside # Nobody /\ InCall(c)
  BY <1>1, OnlyInside
<1>3. todo[c] = <<"exit">> /\ Leaves(c)
  BY <1>1, <1>2, LastPlace DEF Leaves
<1>4. [Next]_vars /\ ring' = Members'
  BY <1>2, <1>3, LeavesAsOneAction
<1>5. /\ inside' = Nobody /\ PerCaller'
      /\ call'[c] = NoCall /\ todo'[c] = <<>>
      /\ \A d \in Callers \ {c} : todo'[d] = todo[d] /\ out'[d] = out[d] /\ call'[d] = call[d]
  <2>1. PerCaller
    BY DEF SharedInv
  <2>2. /\ inside' = Nobody /\ out' = out
        /\ call' = [call EXCEPT ![c] = NoCall]
        /\ todo' = [todo EXCEPT ![c] = Tail(todo[c])]
    BY DEF Exit, Proceed
  <2>3. Tail(<<"exit">>) = <<>>
    OBVIOUS
  <2>4. todo' = [todo EXCEPT ![c] = <<>>]
    BY <1>3, <2>2, <2>3
  <2>. QED
    BY <2>1, <2>2, <2>4 DEF PerCaller
<1>6. \A d \in Callers : Outside(d)'
  BY <1>2, <1>5 DEF SharedInv, Outside
<1>. QED
  BY <1>4, <1>5, <1>6 DEF SharedInv

(* A call that begins waits outside.                                       *)
LEMMA BeginInv ==
  ASSUME SharedInv, NEW c \in Callers, Begin(c) PROVE SharedInv'
<1>1. c # inside
  <2>1. ~InCall(c)
    BY DEF Begin, InCall, NoCall
  <2>. QED
    BY <2>1, SharedAssumption DEF SharedInv
<1>2. /\ UNCHANGED <<ring, inside, vars>>
      /\ call'[c] \in AllCalls
      /\ todo'[c] = Steps[call'[c].name]
      /\ out'[c] = Success(Called(call'[c]))
      /\ \A d \in Callers \ {c} : todo'[d] = todo[d] /\ out'[d] = out[d] /\ call'[d] = call[d]
      /\ PerCaller'
  BY DEF Begin, SharedInv, PerCaller
<1>3. \A d \in Callers : d # inside => Outside(d)'
  BY <1>2 DEF SharedInv, Outside
<1>4. inside # Nobody => InCall(inside)'
  <2>1. SUFFICES ASSUME inside # Nobody PROVE InCall(inside)'
    OBVIOUS
  <2>2. /\ todo'[inside] = todo[inside] /\ out'[inside] = out[inside]
        /\ call'[inside] = call[inside]
        /\ InCall(inside)
    BY <1>1, <1>2, <2>1 DEF SharedInv
  <2>. QED
    BY <1>2, <2>2
    DEF InCall, PushAt, PopAt, PeekAt, ClearAt, ClearAllAt, ResetAt, QueryAt, At,
        Members, Cleared, Ring, vars
<1>5. Members' = Members
  BY <1>2 DEF Members, Ring, vars
<1>. QED
  BY <1>2, <1>3, <1>4, <1>5 DEF SharedInv

(* Every step preserves the invariant, and is a step of RingBuffer or      *)
(* leaves its variables alone.                                             *)
LEMMA SharedNextInv ==
  SharedInv /\ [SharedNext]_sharedVars => SharedInv' /\ [Next]_vars
<1>. SUFFICES ASSUME SharedInv, [SharedNext]_sharedVars PROVE SharedInv' /\ [Next]_vars
  OBVIOUS
<1>1. ASSUME NEW c \in Callers, Begin(c) PROVE SharedInv' /\ [Next]_vars
  BY <1>1, BeginInv DEF Begin
<1>2. ASSUME NEW c \in Callers, Enter(c) PROVE SharedInv' /\ [Next]_vars
  BY <1>2, EnterInv DEF Enter
<1>3. ASSUME NEW c \in Callers, Access(c) PROVE SharedInv' /\ [Next]_vars
  BY <1>3, AccessInv, AccessAlone DEF SharedInv
<1>4. ASSUME NEW c \in Callers, Exit(c) PROVE SharedInv' /\ [Next]_vars
  BY <1>4, ExitInv
<1>5. CASE UNCHANGED sharedVars
  <2>1. UNCHANGED <<ring, inside, call, todo, out, vars>>
    BY <1>5 DEF sharedVars
  <2>2. SharedInv'
    BY <2>1
    DEF SharedInv, PerCaller, Outside, InCall, PushAt, PopAt, PeekAt, ClearAt, ClearAllAt,
        ResetAt, QueryAt, At, Members, Cleared, Ring, vars
  <2>. QED
    BY <2>1, <2>2
<1>. QED
  BY <1>1, <1>2, <1>3, <1>4, <1>5 DEF SharedNext, Access

-----------------------------------------------------------------------------
(* However the accesses of the callers interleave, their calls are made    *)
(* one at a time, each as a single action of RingBuffer.                   *)
THEOREM CallsAreAtomic == SharedSpec => ImplementsRingBuffer
<1>1. SharedInit => Init
  BY DEF SharedInit
<1>. QED
  BY <1>1, SharedInitInv, SharedNextInv, PTL DEF SharedSpec, Spec, ImplementsRingBuffer

(* So head, tail and count agree whenever nobody is inside, ...            *)
THEOREM SharedRepresentation == SharedSpec => []IndicesAgree
BY CallsAreAtomic, Representation, PTL DEF ImplementsRingBuffer

(* ... and all callers together see one bounded first-in first-out queue.  *)
THEOREM SharedQueue == SharedSpec => ImplementsBoundedQueue
BY CallsAreAtomic, Implementation, PTL DEF ImplementsRingBuffer

=============================================================================
