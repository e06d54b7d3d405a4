------------------------------- MODULE Seeds --------------------------------
(***************************************************************************)
(* The seeds of the random generators.  Every runtime that main() makes,   *)
(* the first and one for each restart, has three devices with a generator  *)
(* each; all are seeded from the one seed of the command line, by sums of  *)
(* 32-bit unsigned integers.  CommandLine says which seed that is.         *)
(***************************************************************************)
EXTENDS Integers

CONSTANTS UintLimit,       \* 2^32
          MaxRestarts      \* restarts in the life of the program

ASSUME SeedsAssumption ==
  /\ UintLimit \in Nat \ {0} /\ MaxRestarts \in Nat
  /\ 4 * MaxRestarts < UintLimit

VARIABLES seed,            \* randomConfig.seed
          restartIndex,
          generators       \* history: all that were made

seedsVars == <<seed, restartIndex, generators>>

RestartSeedOffsetStep == 100
Machines == [conveyor |-> 1, vision |-> 2, robot |-> 3]

withSeedOffset(s, offset) == (s + offset) % UintLimit

(* Mutant: a restart moves the seeds on by one.                            *)
SeedOfNarrow(s, restart, machine) ==
  withSeedOffset(s, (restart + Machines[machine]) % UintLimit)

SeedOf(s, restart, machine) ==
  withSeedOffset(s, (((restart * RestartSeedOffsetStep) % UintLimit)
                     + Machines[machine]) % UintLimit)

MadeFor(s, restart) ==
  {[restart |-> restart, machine |-> m, seed |-> SeedOf(s, restart, m)] :
     m \in DOMAIN Machines}

SeedsInit ==
  /\ seed = 0
  /\ restartIndex = 0
  /\ generators = {}

(* createRuntime(restartIndex), before the first run                       *)
Start(s) ==
  /\ generators = {}
  /\ seed' = s
  /\ generators' = MadeFor(s, restartIndex)
  /\ UNCHANGED restartIndex

(* createRuntime(++restartIndex)                                           *)
Restart ==
  /\ generators # {}
  /\ restartIndex < MaxRestarts
  /\ restartIndex' = (restartIndex + 1) % UintLimit
  /\ generators' = generators \cup MadeFor(seed, restartIndex')
  /\ UNCHANGED seed

SeedsNext == (\E s \in 0 .. UintLimit - 1 : Start(s)) \/ Restart

SeedsSpec == SeedsInit /\ [][SeedsNext]_seedsVars

(* No two generators of one program, of different devices or of different  *)
(* restarts, are seeded alike, for any seed, however the sums wrap around: *)
(* none repeats the failures of another.                                   *)
NoSeedTwice ==
  \A g, h \in generators : g.seed = h.seed => g = h

=============================================================================
