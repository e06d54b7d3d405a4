------------------------------ MODULE Network -------------------------------
(***************************************************************************)
(* The runtime with participants leaving and joining the bus: between two  *)
(* ticks anybody may be unregistered from the bus or registered again.     *)
(* The program itself never unregisters anybody, but CanBus offers it and  *)
(* it is the one way in which the heartbeats that the watchdogs wait for,  *)
(* and the frames of a part, can fail to arrive.                           *)
(*                                                                         *)
(* An unregistered participant keeps ticking: what it sends stays in its   *)
(* output buffer.  The ticks go on when the controller has finished or     *)
(* faulted, for what the devices then do.                                  *)
(***************************************************************************)
EXTENDS RuntimeProperties

CONSTANTS MaxChanges,    \* bound: departures and returns
          LastTick       \* bound: ticks

ASSUME NetworkAssumption == MaxChanges \in Nat /\ LastTick \in Nat

VARIABLES changes,       \* history: departures and returns so far
          left,          \* history: passes made when p last left
          settled        \* history: passes made when the controller stopped

netVars == <<vars, changes, left, settled>>

OnBus(p) == \E i \in DOMAIN devices : devices[i] = p

NetworkInit ==
  /\ Init
  /\ changes = 0
  /\ left = [p \in Participants |-> 0]
  /\ settled = 0

-----------------------------------------------------------------------------
Leave(p) ==
  /\ Unregister(p)
  /\ left' = [left EXCEPT ![p] = passes]

Join(p) ==
  /\ ~OnBus(p)
  /\ Register(p)
  /\ UNCHANGED left

Change ==
  /\ step \in {"controller", "endOfTick"}
  /\ changes < MaxChanges
  /\ changes' = changes + 1
  /\ \E p \in Participants : Leave(p) \/ Join(p)
  /\ UNCHANGED <<controllerVars, watchdogVars, visionVars, drawn, tx, rx, bus,
                 stage, step, passes, settled>>

KeepTicking ==
  /\ step = "endOfTick"
  /\ passes < 2 * LastTick
  /\ step' = "controller"
  /\ UNCHANGED <<controllerVars, watchdogVars, visionVars, drawn, devices, tx,
                 rx, bus, stage, passes, changes, left, settled>>

NetworkStep ==
  /\ TickStep
  /\ settled' = IF ~Stopped /\ Stopped' THEN passes ELSE settled
  /\ UNCHANGED <<changes, left>>

NetworkNext ==
  \/ NetworkStep
  \/ Change
  \/ KeepTicking
  \/ /\ step = "endOfTick" /\ passes >= 2 * LastTick
     /\ UNCHANGED netVars

NetworkSpec == NetworkInit /\ [][NetworkNext]_netVars

-----------------------------------------------------------------------------
(* A lost frame may stall the part it belongs to but never duplicates it:  *)
(* whoever leaves and comes back, at most one frame of the current part is *)
(* in flight, and none of a part that is done.                             *)
AtMostOneFramePerPart ==
  /\ Cardinality(UNION {Underway(l) : l \in Legs(phase)}) <= 1
  /\ phase # "Faulted" =>
       \A p \in Phases : \A l \in Legs(p) \ Legs(phase) : Underway(l) = {}

(* The watchdog promise of the README ("heartbeat watchdogs and            *)
(* coordinated safety shutdown").  When a participant has been off the bus *)
(* for the controller's timeout, the controller has stopped: it faulted,   *)
(* unless the run was over before.                                         *)
AbsenceStopsController ==
  \A p \in Participants :
    /\ ~OnBus(p)
    /\ step = "firstPass"
    /\ passes - left[p] >= 2 * DeviceHeartbeatTimeoutTicks - 3
    => Stopped

(* And once the controller has stopped, faulted or finished, every device  *)
(* that ever heard it shuts down within the devices' timeout, on or off    *)
(* the bus: by the shutdown command if it reached it, by its own watchdog  *)
(* if not.                                                                 *)
EveryDeviceShutsDown ==
  Stopped /\ stage = "idle"
  /\ passes - settled >= 2 * ControllerHeartbeatTimeoutTicks =>
    \A d \in Devices : heartbeat_seen[d] => shutdown_latched[d]

(* The same for a device cut off from a controller that goes on.           *)
AbsentDeviceShutsDown ==
  \A d \in Devices :
    /\ ~OnBus(d)
    /\ heartbeat_seen[d]
    /\ stage = "idle"
    /\ passes - left[d] >= 2 * ControllerHeartbeatTimeoutTicks - 2
    => shutdown_latched[d]

=============================================================================
