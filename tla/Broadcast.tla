----------------------------- MODULE Broadcast ------------------------------
(***************************************************************************)
(* What the bus promises: whatever is said is put at the end of what is    *)
(* due to everyone registered but its source, as often as they are         *)
(* registered, and is lost for a listener exactly when its backlog is      *)
(* full.  What is due is heard one by one and never changes.  So all hear  *)
(* the same frames in the same order, none of them said twice.             *)
(***************************************************************************)
EXTENDS Integers, Sequences

CONSTANTS Peers, Messages,
          Backlog              \* frames a listener may be behind

VARIABLES registered,          \* how often each peer is registered
          said,                \* the messages said, and by whom
          due,                 \* all that each peer is to hear
          received             \* what each peer has heard

vars == <<registered, said, due, received>>

Room(p) == Backlog - (Len(due[p]) - Len(received[p]))

Copies(source) ==
  [p \in Peers |-> IF p = source THEN 0
                   ELSE IF registered[p] < Room(p) THEN registered[p] ELSE Room(p)]

Init ==
  /\ registered = [p \in Peers |-> 0]
  /\ said = {}
  /\ due = [p \in Peers |-> <<>>]
  /\ received = [p \in Peers |-> <<>>]

Join(p) ==
  /\ registered' = [registered EXCEPT ![p] = @ + 1]
  /\ UNCHANGED <<said, due, received>>

Leave(p) ==
  /\ registered[p] > 0
  /\ registered' = [registered EXCEPT ![p] = @ - 1]
  /\ UNCHANGED <<said, due, received>>

Say(source, message) ==
  /\ \A e \in said : e.frame # message
  /\ said' = said \cup {[source |-> source, frame |-> message]}
  /\ due' = [p \in Peers |-> due[p] \o [i \in 1 .. Copies(source)[p] |-> message]]
  /\ UNCHANGED <<registered, received>>

Hear(p) ==
  /\ Len(received[p]) < Len(due[p])
  /\ received' = [received EXCEPT ![p] = Append(@, due[p][Len(@) + 1])]
  /\ UNCHANGED <<registered, said, due>>

Next == \E p \in Peers : Join(p) \/ Leave(p) \/ Hear(p)
                         \/ \E message \in Messages : Say(p, message)

Spec == Init /\ [][Next]_vars

=============================================================================
