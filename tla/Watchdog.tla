------------------------------ MODULE Watchdog ------------------------------
(***************************************************************************)
(* What the three devices have in common: each counts its own ticks since  *)
(* the last controller heartbeat, starting with the first heartbeat it     *)
(* sees, and latches a shutdown for good when the controller has been      *)
(* silent for too long.  The classes repeat these members; here they are   *)
(* functions of the device.                                                *)
(***************************************************************************)
EXTENDS Frames, Device

CONSTANT ControllerHeartbeatTimeoutTicks   \* 3 in each of the three devices

ASSUME WatchdogAssumption == ControllerHeartbeatTimeoutTicks \in Nat \ {0}

VARIABLES heartbeat_seen,    \* controller_heartbeat_seen_
          heartbeat_misses,  \* controller_heartbeat_misses_
          shutdown_latched   \* shutdown_latched_

watchdogVars == <<heartbeat_seen, heartbeat_misses, shutdown_latched>>

WatchdogInit ==
  /\ heartbeat_seen = [d \in Devices |-> FALSE]
  /\ heartbeat_misses = [d \in Devices |-> 0]
  /\ shutdown_latched = [d \in Devices |-> FALSE]

(* Device d publishes fs, or does nothing, with its watchdog as it was.    *)
Publish(d, fs) == Send(d, fs) /\ UNCHANGED watchdogVars
Quiet == UNCHANGED <<watchdogVars, tx>>

Latch(d) == shutdown_latched' = [shutdown_latched EXCEPT ![d] = TRUE]

(* Mutant: a heartbeat is noted without resetting the count.               *)
HearControllerUncounted(d) ==
  /\ heartbeat_seen' = [heartbeat_seen EXCEPT ![d] = TRUE]
  /\ UNCHANGED <<heartbeat_misses, shutdown_latched, tx>>

(* A controller heartbeat arrives, also at a device already shut down.     *)
HearController(d) ==
  /\ heartbeat_seen' = [heartbeat_seen EXCEPT ![d] = TRUE]
  /\ heartbeat_misses' = [heartbeat_misses EXCEPT ![d] = 0]
  /\ UNCHANGED <<shutdown_latched, tx>>

(* Mutant: the timeout is noticed one tick late.                           *)
WatchdogExpiresLate(d) ==
  heartbeat_seen[d] /\ heartbeat_misses[d] + 1 > ControllerHeartbeatTimeoutTicks

(* processTick of device d, which says farewell when its controller is     *)
(* gone and sends a sign of life otherwise.                                *)
WatchdogExpires(d) ==
  heartbeat_seen[d] /\ heartbeat_misses[d] + 1 >= ControllerHeartbeatTimeoutTicks

WatchdogTick(d, alive, farewell) ==
  \/ /\ shutdown_latched[d]
     /\ UNCHANGED <<watchdogVars, tx>>
  \/ /\ ~shutdown_latched[d]
     /\ heartbeat_misses' =
          [heartbeat_misses EXCEPT ![d] = IF heartbeat_seen[d] THEN @ + 1 ELSE @]
     /\ \/ /\ WatchdogExpires(d)
           /\ Latch(d)
           /\ Send(d, farewell)
        \/ /\ ~WatchdogExpires(d)
           /\ Send(d, alive)
           /\ UNCHANGED shutdown_latched
     /\ UNCHANGED heartbeat_seen

=============================================================================
