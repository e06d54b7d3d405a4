------------------------------- MODULE BusEnv -------------------------------
(***************************************************************************)
(* The bus on its own, used in every way its interface allows: peers are   *)
(* registered and unregistered, also twice, they send by themselves and    *)
(* some of them answer every frame they receive, frames are put on the bus *)
(* from outside, and either processSinglePass or processFrames runs.       *)
(*                                                                         *)
(* A frame is its number in the order of sending.                          *)
(***************************************************************************)
EXTENDS CanBus, Functions

CONSTANTS Peers, Answering,     \* the peers, and those that answer
          MaxProcessingPasses,  \* 64
          MaxSent               \* bound: frames

ASSUME BusEnvAssumption ==
  /\ Answering \subseteq Peers
  /\ MaxProcessingPasses \in Nat \ {0}
  /\ MaxSent \in Nat

VARIABLES call,          \* the call that is running
          made,          \* the passes it has made
          progressed,    \* its last pass moved a frame
          sent,          \* history: frames sent so far
          before,        \* history: frames sent before the pass that runs
          lost,          \* history: frames refused by a full buffer or cleared
          members,       \* history: how often each peer should be registered
          said,          \* history: what was distributed
          received       \* history: what every peer received

history == <<sent, before, lost, members, said, received>>
vars == <<tx, devices, rx, bus, stage, call, made, progressed, history>>

Init ==
  /\ devices = <<>>
  /\ tx = [p \in Peers |-> <<>>] /\ rx = [p \in Peers |-> <<>>]
  /\ bus = <<>> /\ stage = "idle"
  /\ call = "none" /\ made = 0 /\ progressed = FALSE
  /\ sent = 0 /\ before = 0 /\ lost = {}
  /\ members = [p \in Peers |-> 0]
  /\ said = {}
  /\ received = [p \in Peers |-> <<>>]

-----------------------------------------------------------------------------
(* Between two calls.                                                      *)

(* The frame with the next number is put into buffer q, or is lost.        *)
Number(q, capacity) ==
  /\ sent < MaxSent
  /\ sent' = sent + 1
  /\ lost' = IF Len(q) < capacity THEN lost ELSE lost \cup {sent + 1}

SendByItself(p) ==
  /\ Number(tx[p], QueueCapacity)
  /\ Send(p, <<sent + 1>>)
  /\ UNCHANGED <<devices, bus, members>>

TransmitFromOutside(p) ==
  /\ Number(bus, BusCapacity)
  /\ Transmit(p, sent + 1)
  /\ UNCHANGED <<tx, devices, members>>

ChangeRegistry(p) ==
  /\ \/ Register(p)   /\ members' = [members EXCEPT ![p] = @ + 1]
     \/ Unregister(p) /\ members' = [members EXCEPT ![p] = @ - 1]
  /\ UNCHANGED <<tx, bus, sent, lost>>

ClearFrames ==
  /\ bus # <<>>
  /\ bus' = <<>>
  /\ lost' = lost \cup {bus[i].frame : i \in DOMAIN bus}
  /\ UNCHANGED <<tx, devices, sent, members>>

Outside ==
  /\ call = "none"
  /\ ClearFrames \/ \E p \in Peers :
       SendByItself(p) \/ TransmitFromOutside(p) \/ ChangeRegistry(p)
  /\ UNCHANGED <<rx, stage, call, made, progressed, before, said, received>>

-----------------------------------------------------------------------------
(* processSinglePass and processFrames.                                    *)

StartPass ==
  /\ BeginPass
  /\ progressed' = FALSE
  /\ before' = sent
  /\ UNCHANGED <<tx, devices, rx, bus, sent, lost, members, said, received>>

StartCall ==
  /\ call = "none"
  /\ call' \in {"processSinglePass", "processFrames"}
  /\ made' = 0
  /\ StartPass

Goes == call = "processFrames" /\ progressed /\ made < MaxProcessingPasses

NextPass == Goes /\ StartPass /\ UNCHANGED <<call, made>>

Return ==
  /\ call # "none" /\ stage = "idle"
  /\ ~Goes
  /\ call' = "none" /\ made' = 0 /\ progressed' = FALSE /\ before' = 0
  /\ UNCHANGED <<tx, devices, rx, bus, stage, sent, lost, members, said, received>>

Drain ==
  /\ \E p \in Peers :
       /\ DrainFrame(p)
       /\ lost' = IF Len(bus) < BusCapacity THEN lost ELSE lost \cup {Head(tx[p])}
  /\ UNCHANGED <<said, received, sent>>

Distribute ==
  /\ DistributeFrame
  /\ said' = said \cup {Head(bus)}
  /\ UNCHANGED <<received, sent, lost>>

(* p receives a frame and answers it in the same call if it is one that    *)
(* answers.                                                                *)
Take(p) ==
  /\ TakeFrame(p)
  /\ received' = [received EXCEPT ![p] = Append(@, Head(rx[p]))]
  /\ \/ /\ p \in Answering
        /\ Number(tx[p], QueueCapacity)
        /\ Send(p, <<sent + 1>>)
     \/ /\ p \notin Answering \/ sent = MaxSent
        /\ UNCHANGED <<tx, sent, lost>>
  /\ UNCHANGED said

MoveFrame ==
  /\ Drain \/ Distribute \/ \E p \in Peers : Take(p)
  /\ progressed' = TRUE
  /\ UNCHANGED <<devices, call, made, before, members>>

LoopDone ==
  /\ \/ (DrainDone \/ DistributeDone) /\ UNCHANGED made
     \/ ProcessDone /\ made' = made + 1
  /\ UNCHANGED <<devices, call, progressed, history>>

Inside == NextPass \/ MoveFrame \/ LoopDone \/ Return

Next == Outside \/ StartCall \/ Inside

Spec == Init /\ [][Next]_vars

-----------------------------------------------------------------------------
(* The registry, which closes a gap with its last device, the three kinds  *)
(* of buffers and the three loops are one channel that every member hears  *)
(* as often as it has registered and not unregistered, and on which each   *)
(* frame is distributed once at most.  What is due to a peer is what it    *)
(* has received and what waits in its input buffer.                        *)
Channel == INSTANCE Broadcast WITH
             Messages <- 1 .. MaxSent, Backlog <- QueueCapacity,
             registered <- members,
             due <- [p \in Peers |-> received[p] \o rx[p]]
ImplementsBroadcast == Channel!Spec

(* "Each tick runs bounded single-pass bus processing" (usage text): no    *)
(* frame is received in the pass in which it was sent, so a pass ends      *)
(* however talkative the devices are.                                      *)
AnswersWait ==
  [][\A p \in Peers :
       received'[p] # received[p] => received'[p][Len(received'[p])] <= before]_vars

Waiting == UNION {Range(tx[p]) : p \in Peers}

(* A call that returns leaves nothing half done: no frame is on the bus or *)
(* in the input buffer of a registered device.  processFrames also leaves  *)
(* no registered device with a frame to send, unless it has made as many   *)
(* passes as it may, and then what is left waits for the next call.  Every *)
(* frame is accounted for: it waits, has been distributed, or was lost in  *)
(* a full buffer or by clearFrames.                                        *)
ReturnsClean ==
  [][call # "none" /\ call' = "none" =>
       /\ bus = <<>> /\ AllEmpty(rx)
       /\ call = "processFrames" => AllEmpty(tx) \/ made = MaxProcessingPasses
       /\ Waiting \cup {e.frame : e \in said} \cup lost = 1 .. sent]_vars

=============================================================================
