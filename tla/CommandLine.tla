---------------------------- MODULE CommandLine -----------------------------
(***************************************************************************)
(* How main() reads its arguments: one loop over all of them for --help    *)
(* and the presets, then a second one for the other options.               *)
(*                                                                         *)
(* An argument is an option with a value.  A value is an integer (for a    *)
(* probability, in hundredths), a preset's name, NaN, or Garbage: what     *)
(* stoul or stod does not read to its end or reports as out of range.      *)
(*                                                                         *)
(* The simulation then runs with what has been set, and restarts; the      *)
(* generators it makes are those of Seeds.                                 *)
(***************************************************************************)
EXTENDS Seeds, Sequences

CONSTANTS Arguments,        \* the arguments that may be given
          NaN, Garbage,
          UlongLimit,       \* 2^64: an unsigned long is below it
          DefaultSeed, DefaultMaxTicks, DefaultTickInterval,
          MaxArguments      \* bound: arguments of one command line

ASSUME CommandLineAssumption ==
  /\ UlongLimit \in Nat \ {0} /\ UlongLimit % UintLimit = 0
  /\ {DefaultSeed, DefaultMaxTicks, DefaultTickInterval} \subseteq 0 .. UintLimit - 1
  /\ MaxArguments \in Nat
  /\ \A arg \in Arguments :
       arg.option \in {"seed", "max-ticks", "tick-interval-ms"} =>
         arg.value \in {NaN, Garbage} \/ arg.value \in Int

VARIABLES args, at,         \* the arguments and the one a loop is at
          mode,             \* the loop, or how it ended
          config            \* what has been set

vars == <<args, at, mode, config, seedsVars>>

(* In the order of the fields of RandomEventConfig.                        *)
Probabilities == <<"p-conveyor-fault", "p-vision-fault", "p-vision-timeout",
                   "p-robot-pick-fail", "p-robot-place-fail">>
Chances == {Probabilities[i] : i \in DOMAIN Probabilities}
Uints == {"seed", "max-ticks", "tick-interval-ms"}

Presets == [smooth    |-> <<0, 0, 0, 0, 0>>,
            medium    |-> <<3, 3, 5, 8, 8>>,
            faulty    |-> <<20, 20, 25, 30, 30>>,
            realistic |-> <<5, 5, 10, 15, 15>>,
            extreme   |-> <<50, 50, 50, 50, 50>>]

Defaults == [o \in Chances \cup Uints |->
               CASE o = "seed"             -> DefaultSeed
                 [] o = "max-ticks"        -> DefaultMaxTicks
                 [] o = "tick-interval-ms" -> DefaultTickInterval
                 [] OTHER                  -> 0]

applyPreset(name, settings) ==
  [o \in DOMAIN settings |->
     IF o \in Chances
     THEN Presets[name][CHOOSE i \in DOMAIN Probabilities : Probabilities[i] = o]
     ELSE settings[o]]

(* stoul reads a sign too, and negates modulo 2^64; it refuses a number    *)
(* that needs more than 64 bits.  stod reads anything that looks like a    *)
(* number, "nan" included.                                                 *)
Readable(arg) ==
  \/ arg.option \in Chances /\ arg.value # Garbage
  \/ /\ arg.option \in Uints
     /\ arg.value \notin {Garbage, NaN}
     /\ arg.value < UlongLimit /\ arg.value > -UlongLimit

(* parseUnsignedValue keeps the low 32 bits.                               *)
Parsed(arg) ==
  IF arg.option \in Uints THEN (arg.value % UlongLimit) % UintLimit ELSE arg.value

Init ==
  /\ args \in UNION {[1 .. n -> Arguments] : n \in 0 .. MaxArguments}
  /\ at = 1
  /\ mode = "presets"
  /\ config = Defaults
  /\ SeedsInit

NextArgument(settings) ==
  /\ at' = at + 1
  /\ config' = settings
  /\ UNCHANGED <<args, mode, seedsVars>>

Turn(to) ==
  /\ mode' = to
  /\ at' = 1
  /\ UNCHANGED <<args, config, seedsVars>>

AtEnd == at > Len(args)
At(option) == ~AtEnd /\ args[at].option = option
KnownPreset == At("preset") /\ args[at].value \in DOMAIN Presets

(* Mutant: --help is left to the second loop.                              *)
ReadForPresetsHelpLater ==
  /\ mode = "presets"
  /\ \/ AtEnd /\ Turn("options")
     \/ KnownPreset /\ NextArgument(applyPreset(args[at].value, config))
     \/ At("preset") /\ ~KnownPreset /\ Turn("refused")
     \/ ~AtEnd /\ ~At("preset") /\ NextArgument(config)

(* An iteration of the first loop.                                         *)
ReadForPresets ==
  /\ mode = "presets"
  /\ \/ AtEnd /\ Turn("options")
     \/ At("help") /\ Turn("help")
     \/ KnownPreset /\ NextArgument(applyPreset(args[at].value, config))
     \/ At("preset") /\ ~KnownPreset /\ Turn("refused")
     \/ ~AtEnd /\ ~At("help") /\ ~At("preset") /\ NextArgument(config)

(* The setting the argument makes, or the end of the program.              *)
ApplyOption ==
  \/ Readable(args[at]) /\ NextArgument([config EXCEPT ![args[at].option] = Parsed(args[at])])
  \/ ~Readable(args[at]) /\ Turn("refused")

(* Mutant: a preset takes effect where it stands among the options.        *)
ReadOptionsInOrder ==
  /\ mode = "options"
  /\ \/ AtEnd /\ Turn("run")
     \/ At("preset") /\ NextArgument(applyPreset(args[at].value, config))
     \/ ~AtEnd /\ ~At("preset") /\ ApplyOption

(* An iteration of the second loop.                                        *)
ReadOptions ==
  /\ mode = "options"
  /\ \/ AtEnd /\ Turn("run")
     \/ At("preset") /\ NextArgument(config)
     \/ ~AtEnd /\ ~At("preset") /\ ApplyOption

(* createRuntime(restartIndex), at first and for each restart.             *)
CreateRuntime ==
  /\ mode = "run"
  /\ Start(config["seed"]) \/ Restart
  /\ UNCHANGED <<args, at, mode, config>>

Next == ReadForPresets \/ ReadOptions \/ CreateRuntime

Spec == Init /\ [][Next]_vars

-----------------------------------------------------------------------------
Given(option) == {i \in DOMAIN args : args[i].option = option}
Latest(indices) == CHOOSE i \in indices : \A j \in indices : j <= i

BadPresets == {i \in Given("preset") : args[i].value \notin DOMAIN Presets}
BadOptions == {i \in DOMAIN args :
                 args[i].option \notin {"preset", "help"} /\ ~Readable(args[i])}

(* How the two loops end, said of the arguments as a whole: --help wins    *)
(* over every mistake but an earlier unknown preset, and otherwise any     *)
(* mistake anywhere keeps the simulation from running.                     *)
EndsAsDeclared ==
  mode \in {"help", "refused", "run"} =>
    LET helped == \E i \in Given("help") : \A j \in BadPresets : i < j
    IN  mode = IF helped THEN "help"
               ELSE IF BadPresets \cup BadOptions # {} THEN "refused"
               ELSE "run"

(* "Note: explicit --p-* flags override preset values" (usage text), in    *)
(* whatever order they are given: the last flag counts, else the last      *)
(* preset, else the default, and a preset sets nothing but probabilities.  *)
FlagsOverridePresets ==
  mode = "run" =>
    \A o \in Chances \cup Uints :
      config[o] = IF Given(o) # {} THEN Parsed(args[Latest(Given(o))])
                  ELSE IF o \in Chances /\ Given("preset") # {}
                  THEN applyPreset(args[Latest(Given("preset"))].value, Defaults)[o]
                  ELSE Defaults[o]

=============================================================================
