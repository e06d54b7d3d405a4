------------------------- MODULE CommandLineProofs --------------------------
(***************************************************************************)
(* With 32-bit integers, no seed is used twice in 2^30 restarts, in the    *)
(* restarts alone and in the program the command line starts.  For every   *)
(* command line, the two loops end as declared and flags override presets. *)
(***************************************************************************)
EXTENDS CommandLine, TLAPS

(* The width of a std::uint32_t.                                           *)
Width32 == UintLimit = 4294967296

(* A sum of 32-bit integers is the sum, less a multiple of 2^32.           *)
LEMMA Remainder ==
  ASSUME NEW x \in Nat
  PROVE  \E q \in Nat : x % 4294967296 = x - 4294967296 * q
BY SMT

(* A seed before it is brought into range.                                 *)
Unwrapped(s, r, k, q) == s + 100 * r + k - 4294967296 * q

(* The same, of the sums a seed is made of.                                *)
LEMMA Sum32 ==
  ASSUME Width32, NEW s \in Nat, NEW r \in Nat, NEW m \in DOMAIN Machines
  PROVE  \E q \in Int : SeedOf(s, r, m) = Unwrapped(s, r, Machines[m], q)
<1>. DEFINE a == (r * 100) % 4294967296
            c == a + Machines[m]
            b == c % 4294967296
            e == s + b
<1>1. Machines[m] \in Nat
  BY DEF Machines
<1>2. r * 100 \in Nat /\ a \in Nat
  BY SMT
<1>3. PICK p \in Nat : a = r * 100 - 4294967296 * p
  BY <1>2, Remainder, SMT
<1>. HIDE DEF a
<1>4. c \in Nat
  BY <1>1, <1>2
<1>. HIDE DEF c
<1>5. b \in Nat
  BY <1>4, SMT
<1>6. PICK q \in Nat : b = c - 4294967296 * q
  BY <1>4, Remainder, SMT
<1>. HIDE DEF b
<1>7. e \in Nat
  BY <1>5
<1>. HIDE DEF e
<1>8. PICK t \in Nat : e % 4294967296 = e - 4294967296 * t
  BY <1>7, Remainder, SMT
<1>9. SeedOf(s, r, m) = e % 4294967296
  BY SMT DEF SeedOf, withSeedOffset, RestartSeedOffsetStep, Width32, a, b, c, e
<1>10. SeedOf(s, r, m) = Unwrapped(s, r, Machines[m], p + q + t)
  BY <1>1, <1>2, <1>3, <1>4, <1>5, <1>6, <1>7, <1>8, <1>9, SMT DEF Unwrapped, c, e
<1>. QED
  BY <1>10

(* Two seeds are the same only for the same device, since 4 divides 100    *)
(* and 2^32, and then only for the same restart, since 25 and 2^30 have no *)
(* common divisor.                                                         *)
LEMMA SumsDiffer ==
  ASSUME NEW k \in 1 .. 3, NEW l \in 1 .. 3, NEW q \in Int,
         NEW r \in Nat, NEW t \in Nat, r < 1073741824, t < 1073741824,
         100 * r + k = 100 * t + l + 4294967296 * q
  PROVE  k = l /\ r = t
<1>1. k = l
  BY SMT
<1>2. 25 * (r - t) = 1073741824 * q
  BY <1>1, SMT
<1>3. r - t = 0
  BY <1>2, SMT
<1>. QED
  BY <1>1, <1>3, SMT

(* The generators made so far are those of the restarts so far.            *)
Made ==
  /\ seed \in Nat
  /\ restartIndex \in 0 .. MaxRestarts
  /\ \/ generators = {} /\ restartIndex = 0
     \/ generators = UNION {MadeFor(seed, r) : r \in 0 .. restartIndex}

(* The generators made differ by their seeds.                              *)
LEMMA MadeImpliesDifferent ==
  ASSUME Width32, Made
  PROVE  NoSeedTwice
<1>. SUFFICES ASSUME NEW g \in generators, NEW h \in generators, g.seed = h.seed
              PROVE  g = h
  BY DEF NoSeedTwice
<1>. generators = UNION {MadeFor(seed, r) : r \in 0 .. restartIndex}
  BY DEF Made
<1>1. PICK r \in 0 .. restartIndex, m \in DOMAIN Machines :
        g = [restart |-> r, machine |-> m, seed |-> SeedOf(seed, r, m)]
  BY DEF Made, MadeFor
<1>2. PICK t \in 0 .. restartIndex, n \in DOMAIN Machines :
        h = [restart |-> t, machine |-> n, seed |-> SeedOf(seed, t, n)]
  BY DEF Made, MadeFor
<1>3. r \in Nat /\ r < 1073741824 /\ t \in Nat /\ t < 1073741824 /\ seed \in Nat
  BY SeedsAssumption, SMT DEF Made, Width32
<1>4. Machines[m] \in 1 .. 3 /\ Machines[n] \in 1 .. 3
  BY DEF Machines
<1>5. PICK p \in Int : SeedOf(seed, r, m) = Unwrapped(seed, r, Machines[m], p)
  BY <1>3, Sum32
<1>6. PICK q \in Int : SeedOf(seed, t, n) = Unwrapped(seed, t, Machines[n], q)
  BY <1>3, Sum32
<1>7. SeedOf(seed, r, m) = SeedOf(seed, t, n)
  BY <1>1, <1>2
<1>8. 100 * r + Machines[m] = 100 * t + Machines[n] + 4294967296 * (p - q)
  BY <1>3, <1>4, <1>5, <1>6, <1>7, SMT DEF Unwrapped
<1>9. Machines[m] = Machines[n] /\ r = t
  BY <1>3, <1>4, <1>8, SumsDiffer, SMT
<1>10. m = n
  BY <1>9 DEF Machines
<1>. QED
  BY <1>1, <1>2, <1>9, <1>10

(* None is made yet.                                                       *)
LEMMA MadeInit == SeedsInit => Made
BY SeedsAssumption DEF SeedsInit, Made

(* Start makes the first, Restart those of the next restart.               *)
LEMMA MadeNext == Made /\ [SeedsNext]_seedsVars => Made'
<1>. SUFFICES ASSUME Made, [SeedsNext]_seedsVars PROVE Made'
  OBVIOUS
<1>1. ASSUME NEW s \in 0 .. UintLimit - 1, Start(s) PROVE Made'
  <2>1. restartIndex = 0
    <3>1. CASE generators = {} /\ restartIndex = 0
      BY <3>1
    <3>2. CASE generators = UNION {MadeFor(seed, r) : r \in 0 .. restartIndex}
      <4>1. MadeFor(seed, 0) \subseteq generators
        BY <3>2 DEF Made
      <4>2. MadeFor(seed, 0) # {}
        BY DEF MadeFor, Machines
      <4>. QED
        BY <1>1, <4>1, <4>2 DEF Start
    <3>. QED
      BY <3>1, <3>2 DEF Made
  <2>2. 0 .. restartIndex' = {0} /\ restartIndex' = 0
    BY <1>1, <2>1 DEF Start
  <2>3. generators' = UNION {MadeFor(seed', r) : r \in 0 .. restartIndex'}
    BY <1>1, <2>1, <2>2 DEF Start
  <2>4. seed' \in Nat
    BY <1>1, SeedsAssumption DEF Start
  <2>. QED
    BY <2>2, <2>3, <2>4, SeedsAssumption DEF Made
<1>2. CASE Restart
  <2>. generators = UNION {MadeFor(seed, r) : r \in 0 .. restartIndex}
    BY <1>2 DEF Made, Restart
  <2>1. restartIndex' = restartIndex + 1 /\ restartIndex' \in 0 .. MaxRestarts
    BY <1>2, SeedsAssumption DEF Restart, Made
  <2>2. 0 .. restartIndex' = (0 .. restartIndex) \cup {restartIndex'}
    BY <2>1 DEF Made
  <2>3. generators' = UNION {MadeFor(seed, r) : r \in 0 .. restartIndex'}
    BY <1>2, <2>2 DEF Restart
  <2>. QED
    BY <1>2, <2>1, <2>3 DEF Restart, Made
<1>3. CASE UNCHANGED seedsVars
  BY <1>3 DEF Made, seedsVars
<1>. QED
  BY <1>1, <1>2, <1>3 DEF SeedsNext

(* Whatever the seed on the command line, the generators of one program of *)
(* the width the code has are all seeded differently.                      *)
THEOREM SeedsAllDiffer ==
  ASSUME Width32
  PROVE  SeedsSpec => []NoSeedTwice
BY MadeInit, MadeNext, MadeImpliesDifferent, PTL DEF SeedsSpec

-----------------------------------------------------------------------------
(* The arguments before index n.                                           *)
Before(n, indices) == {i \in indices : i < n}

(* What the first loop has set when it is at n, and the second at m.       *)
Setting(n, m, o) ==
  IF Before(m, Given(o)) # {} THEN Parsed(args[Latest(Before(m, Given(o)))])
  ELSE IF o \in Chances /\ Before(n, Given("preset")) # {}
  THEN applyPreset(args[Latest(Before(n, Given("preset")))].value, Defaults)[o]
  ELSE Defaults[o]

ConfigIs(n, m) == config = [o \in Chances \cup Uints |-> Setting(n, m, o)]

(* Neither loop would have stopped before index n.                         *)
NoStop(n) == Before(n, Given("help") \cup BadPresets) = {}
NoMistake(n) == Before(n, BadOptions) = {}

Past == Len(args) + 1

(* The loops, and how they ended.                                          *)
Reading ==
  /\ args \in Seq(Arguments)
  /\ at \in 1 .. Past
  /\ mode \in {"presets", "options", "help", "refused", "run"}
  /\ mode = "presets" => NoStop(at) /\ ConfigIs(at, 1)
  /\ mode = "options" => NoStop(Past) /\ NoMistake(at) /\ ConfigIs(Past, at)
  /\ mode = "run" => NoStop(Past) /\ NoMistake(Past) /\ ConfigIs(Past, Past)
  /\ mode = "help" => \E i \in Given("help") : NoStop(i)
  /\ mode = "refused" =>
       \/ \E i \in BadPresets : NoStop(i)
       \/ NoStop(Past) /\ BadOptions # {}

(* The options by name.                                                    *)
LEMMA OptionNames ==
  /\ Chances = {"p-conveyor-fault", "p-vision-fault", "p-vision-timeout",
                "p-robot-pick-fail", "p-robot-place-fail"}
  /\ Uints = {"seed", "max-ticks", "tick-interval-ms"}
<1>1. DOMAIN Probabilities = 1 .. 5
  BY DEF Probabilities
<1>. QED
  BY <1>1 DEF Chances, Uints, Probabilities

(* The latest of some indices before n and n itself is n.                  *)
LEMMA LatestIsLast ==
  ASSUME NEW S, NEW n \in Nat, S \subseteq Nat, \A i \in S : i < n
  PROVE  Latest(S \cup {n}) = n
<1>1. \A j \in S \cup {n} : j <= n
  OBVIOUS
<1>2. ASSUME NEW i \in S \cup {n}, \A j \in S \cup {n} : j <= i PROVE i = n
  BY <1>2
<1>. QED
  BY <1>1, <1>2 DEF Latest

(* A step of a loop adds the argument it is at to those before.            *)
LEMMA OneMore ==
  ASSUME NEW S, S \subseteq Nat, NEW n \in Nat
  PROVE  Before(n + 1, S) = IF n \in S THEN Before(n, S) \cup {n} ELSE Before(n, S)
<1>1. \A i \in S : i < n + 1 <=> i < n \/ i = n
  BY SMT
<1>. QED
  BY <1>1, Zenon DEF Before

(* Nothing is before the first argument.                                   *)
LEMMA NoneBeforeFirst ==
  ASSUME NEW S, S \subseteq Nat \ {0}
  PROVE  Before(1, S) = {}
<1>1. \A i \in S : ~(i < 1)
  BY SMT
<1>. QED
  BY <1>1, Zenon DEF Before

(* All indices are before the end.                                         *)
LEMMA AllBeforePast ==
  ASSUME args \in Seq(Arguments), NEW S, S \subseteq DOMAIN args
  PROVE  Before(Past, S) = S
BY DEF Before, Past

(* What the sets of indices are subsets of.                                *)
LEMMA Indices ==
  ASSUME args \in Seq(Arguments)
  PROVE  /\ DOMAIN args = 1 .. Len(args) /\ Len(args) \in Nat /\ Past \in Nat
         /\ \A o : Given(o) \subseteq DOMAIN args /\ Given(o) \subseteq Nat \ {0}
         /\ BadPresets \subseteq DOMAIN args /\ BadPresets \subseteq Nat \ {0}
         /\ BadOptions \subseteq DOMAIN args /\ BadOptions \subseteq Nat \ {0}
         /\ \A i \in DOMAIN args : args[i] \in Arguments
<1>1. DOMAIN args = 1 .. Len(args) /\ Len(args) \in Nat
  OBVIOUS
<1>2. DOMAIN args \subseteq Nat \ {0}
  BY <1>1, SMT
<1>3. \A o : Given(o) \subseteq DOMAIN args
  BY DEF Given
<1>4. BadPresets \subseteq DOMAIN args /\ BadOptions \subseteq DOMAIN args
  BY <1>3 DEF BadPresets, BadOptions
<1>5. Past \in Nat
  BY <1>1 DEF Past
<1>. QED
  BY <1>1, <1>2, <1>3, <1>4, <1>5

(* What a preset says of a probability does not depend on the settings.    *)
LEMMA PresetSaysAll ==
  ASSUME NEW name, NEW settings, DOMAIN settings = Chances \cup Uints
  PROVE  /\ DOMAIN applyPreset(name, settings) = Chances \cup Uints
         /\ \A o \in Chances : applyPreset(name, settings)[o] = applyPreset(name, Defaults)[o]
<1>1. DOMAIN Defaults = Chances \cup Uints
  BY DEF Defaults
<1>. QED
  BY <1>1 DEF applyPreset

(* The first loop goes on past an argument that is no preset.              *)
LEMMA SkipsInFirst ==
  ASSUME args \in Seq(Arguments), NEW n \in Nat, NEW m \in Nat, n \notin Given("preset")
  PROVE  \A o : Setting(n + 1, m, o) = Setting(n, m, o)
<1>1. Before(n + 1, Given("preset")) = Before(n, Given("preset"))
  BY Indices, OneMore
<1>. QED
  BY <1>1 DEF Setting

(* The first loop applies a preset.                                        *)
LEMMA PresetApplied ==
  ASSUME args \in Seq(Arguments), NEW n \in Nat, n \in Given("preset"), ConfigIs(n, 1)
  PROVE  applyPreset(args[n].value, config)
           = [o \in Chances \cup Uints |-> Setting(n + 1, 1, o)]
<1>1. Before(n + 1, Given("preset")) = Before(n, Given("preset")) \cup {n}
  BY Indices, OneMore
<1>2. Latest(Before(n + 1, Given("preset"))) = n
  <2>1. Before(n, Given("preset")) \subseteq Nat /\ \A i \in Before(n, Given("preset")) : i < n
    BY Indices DEF Before
  <2>. QED
    BY <1>1, <2>1, LatestIsLast
<1>3. \A o : Before(1, Given(o)) = {}
  BY Indices, NoneBeforeFirst
<1>4. DOMAIN config = Chances \cup Uints
  BY DEF ConfigIs
<1>5. ASSUME NEW o \in Chances \cup Uints
      PROVE  applyPreset(args[n].value, config)[o] = Setting(n + 1, 1, o)
  <2>1. CASE o \in Chances
    <3>1. Setting(n + 1, 1, o) = applyPreset(args[n].value, Defaults)[o]
      BY <1>1, <1>2, <1>3, <2>1 DEF Setting
    <3>. QED
      BY <1>4, <2>1, <3>1, PresetSaysAll
  <2>2. CASE o \in Uints
    <3>1. o \notin Chances
      BY <2>2, OptionNames
    <3>2. Setting(n + 1, 1, o) = Defaults[o] /\ Setting(n, 1, o) = Defaults[o]
      BY <1>3, <3>1 DEF Setting
    <3>3. config[o] = Setting(n, 1, o)
      BY <1>5 DEF ConfigIs
    <3>. QED
      <4>1. applyPreset(args[n].value, config)[o] = config[o]
        BY <1>4, <2>2, <3>1 DEF applyPreset
      <4>. QED
        BY <3>2, <3>3, <4>1
  <2>. QED
    BY <2>1, <2>2
<1>6. applyPreset(args[n].value, config)
        = [o \in Chances \cup Uints |-> applyPreset(args[n].value, config)[o]]
  BY <1>4 DEF applyPreset
<1>. QED
  BY <1>5, <1>6

(* The second loop goes on past a preset.                                  *)
LEMMA SkipsInSecond ==
  ASSUME args \in Seq(Arguments), NEW n \in Nat, NEW m \in Nat, m \in Given("preset")
  PROVE  \A o \in Chances \cup Uints : Setting(n, m + 1, o) = Setting(n, m, o)
<1>. SUFFICES ASSUME NEW o \in Chances \cup Uints
              PROVE  Setting(n, m + 1, o) = Setting(n, m, o)
  OBVIOUS
<1>1. o # "preset"
  BY OptionNames
<1>2. m \notin Given(o)
  BY <1>1 DEF Given
<1>3. Before(m + 1, Given(o)) = Before(m, Given(o))
  BY <1>2, Indices, OneMore
<1>. QED
  BY <1>3 DEF Setting

(* The second loop makes the setting of an option.                         *)
LEMMA FlagApplied ==
  ASSUME args \in Seq(Arguments), NEW n \in Nat, NEW m \in DOMAIN args,
         ConfigIs(n, m), args[m].option \in Chances \cup Uints
  PROVE  [config EXCEPT ![args[m].option] = Parsed(args[m])]
           = [o \in Chances \cup Uints |-> Setting(n, m + 1, o)]
<1>1. m \in Nat
  BY Indices, SMT
<1>. SUFFICES ASSUME NEW o \in Chances \cup Uints
              PROVE  Setting(n, m + 1, o)
                       = IF o = args[m].option THEN Parsed(args[m]) ELSE Setting(n, m, o)
  BY DEF ConfigIs
<1>2. CASE o = args[m].option
  <2>1. m \in Given(o)
    BY <1>2 DEF Given
  <2>2. Before(m + 1, Given(o)) = Before(m, Given(o)) \cup {m}
    BY <1>1, <2>1, Indices, OneMore
  <2>3. Before(m, Given(o)) \subseteq Nat /\ \A i \in Before(m, Given(o)) : i < m
    BY Indices DEF Before
  <2>4. Latest(Before(m + 1, Given(o))) = m
    BY <1>1, <2>2, <2>3, LatestIsLast
  <2>. QED
    BY <1>2, <2>2, <2>4 DEF Setting
<1>3. CASE o # args[m].option
  <2>1. m \notin Given(o)
    BY <1>3 DEF Given
  <2>2. Before(m + 1, Given(o)) = Before(m, Given(o))
    BY <1>1, <2>1, Indices, OneMore
  <2>. QED
    BY <1>3, <2>2 DEF Setting
<1>. QED
  BY <1>2, <1>3

(* An argument that stops no loop.                                         *)
LEMMA NoStopNext ==
  ASSUME args \in Seq(Arguments), NEW n \in Nat, NoStop(n),
         n \notin Given("help"), n \notin BadPresets
  PROVE  NoStop(n + 1)
<1>1. Given("help") \cup BadPresets \subseteq Nat
  BY Indices
<1>. QED
  BY <1>1, OneMore DEF NoStop

(* The same for the options.                                               *)
LEMMA NoMistakeNext ==
  ASSUME args \in Seq(Arguments), NEW n \in Nat, NoMistake(n), n \notin BadOptions
  PROVE  NoMistake(n + 1)
BY Indices, OneMore DEF NoMistake

(* Nothing is read yet.                                                    *)
LEMMA ReadingInit == Init => Reading
<1>. SUFFICES ASSUME Init PROVE Reading
  OBVIOUS
<1>1. PICK n \in 0 .. MaxArguments : args \in [1 .. n -> Arguments]
  BY DEF Init
<1>2. n \in Nat
  BY CommandLineAssumption, SMT
<1>3. args \in Seq(Arguments)
  BY <1>1, <1>2
<1>4. at = 1 /\ at \in 1 .. Past
  BY <1>3, Indices, SMT DEF Init, Past
<1>5. NoStop(1)
  <2>1. Given("help") \cup BadPresets \subseteq Nat \ {0}
    BY <1>3, Indices
  <2>. QED
    BY <2>1, NoneBeforeFirst DEF NoStop
<1>6. ConfigIs(1, 1)
  <2>1. \A o : Before(1, Given(o)) = {}
    BY <1>3, Indices, NoneBeforeFirst
  <2>2. \A o : Setting(1, 1, o) = Defaults[o]
    BY <2>1 DEF Setting
  <2>3. config = [o \in Chances \cup Uints |-> Defaults[o]]
    BY DEF Init, Defaults
  <2>. QED
    BY <2>2, <2>3 DEF ConfigIs
<1>. QED
  BY <1>3, <1>4, <1>5, <1>6 DEF Init, Reading

(* An iteration of the first loop.                                         *)
LEMMA ReadForPresetsReading == Reading /\ ReadForPresets => Reading'
<1>. SUFFICES ASSUME Reading, ReadForPresets PROVE Reading'
  OBVIOUS
<1>1. /\ args \in Seq(Arguments) /\ args' = args
      /\ at \in Nat /\ Past \in Nat /\ Past' = Past /\ at \in 1 .. Past
      /\ mode = "presets" /\ NoStop(at) /\ ConfigIs(at, 1)
  BY Indices, SMT DEF Reading, ReadForPresets, Turn, NextArgument, Past
<1>2. CASE AtEnd /\ Turn("options")
  <2>1. at = Past
    BY <1>1, <1>2, Indices, SMT DEF AtEnd, Past
  <2>2. BadOptions' = BadOptions /\ NoStop(Past)' /\ ConfigIs(Past, 1)'
    BY <1>1, <1>2, <2>1 DEF Turn, NoStop, ConfigIs, Setting, Given, BadPresets, BadOptions
  <2>3. NoMistake(1)
    BY <1>1, Indices, NoneBeforeFirst DEF NoMistake
  <2>4. at' = 1 /\ mode' = "options" /\ 1 \in 1 .. Past
    BY <1>1, <1>2, SMT DEF Turn
  <2>. QED
    BY <1>1, <2>2, <2>3, <2>4 DEF Reading, NoMistake
<1>3. CASE At("help") /\ Turn("help")
  <2>1. at \in Given("help")
    BY <1>1, <1>3, Indices, SMT DEF At, AtEnd, Given
  <2>2. Given("help")' = Given("help") /\ NoStop(at) /\ \A i : NoStop(i)' <=> NoStop(i)
    BY <1>1 DEF NoStop, Given, BadPresets
  <2>3. at' = 1 /\ mode' = "help" /\ 1 \in 1 .. Past
    BY <1>1, <1>3, SMT DEF Turn
  <2>. QED
    BY <1>1, <2>1, <2>2, <2>3 DEF Reading
<1>4. CASE At("preset") /\ ~KnownPreset /\ Turn("refused")
  <2>1. at \in BadPresets
    BY <1>1, <1>4, Indices, SMT DEF At, AtEnd, Given, BadPresets, KnownPreset
  <2>2. BadPresets' = BadPresets /\ NoStop(at) /\ \A i : NoStop(i)' <=> NoStop(i)
    BY <1>1 DEF NoStop, Given, BadPresets
  <2>3. at' = 1 /\ mode' = "refused" /\ 1 \in 1 .. Past
    BY <1>1, <1>4, SMT DEF Turn
  <2>. QED
    BY <1>1, <2>1, <2>2, <2>3 DEF Reading
<1>5. ASSUME ~AtEnd, at \notin Given("help"), at \notin BadPresets,
             at' = at + 1, mode' = mode,
             config' = [o \in Chances \cup Uints |-> Setting(at + 1, 1, o)]
      PROVE  Reading'
  <2>1. NoStop(at + 1)
    BY <1>1, <1>5, NoStopNext
  <2>2. /\ \A i : NoStop(i)' <=> NoStop(i)
        /\ \A i, o : Setting(i, 1, o)' = Setting(i, 1, o)
    BY <1>1 DEF NoStop, Setting, Given, BadPresets
  <2>3. NoStop(at)' /\ ConfigIs(at, 1)'
    BY <1>5, <2>1, <2>2 DEF ConfigIs
  <2>4. at' \in 1 .. Past
    BY <1>1, <1>5, Indices, SMT DEF AtEnd, Past
  <2>. QED
    BY <1>1, <1>5, <2>3, <2>4 DEF Reading
<1>6. CASE KnownPreset /\ NextArgument(applyPreset(args[at].value, config))
  <2>1. ~AtEnd /\ at \in Given("preset") /\ at \notin Given("help") /\ at \notin BadPresets
    BY <1>1, <1>6, Indices, SMT DEF KnownPreset, At, AtEnd, Given, BadPresets
  <2>. QED
    BY <1>1, <1>5, <1>6, <2>1, PresetApplied DEF NextArgument
<1>7. CASE ~AtEnd /\ ~At("help") /\ ~At("preset") /\ NextArgument(config)
  <2>1. at \notin Given("preset") /\ at \notin Given("help") /\ at \notin BadPresets
    BY <1>7 DEF At, Given, BadPresets
  <2>2. \A o : Setting(at + 1, 1, o) = Setting(at, 1, o)
    BY <1>1, <2>1, SkipsInFirst
  <2>3. config = [o \in Chances \cup Uints |-> Setting(at + 1, 1, o)]
    BY <1>1, <2>2 DEF ConfigIs
  <2>. QED
    BY <1>5, <1>7, <2>1, <2>3 DEF NextArgument
<1>. QED
  BY <1>2, <1>3, <1>4, <1>6, <1>7 DEF ReadForPresets

(* An iteration of the second loop.                                        *)
LEMMA ReadOptionsReading == Reading /\ ReadOptions => Reading'
<1>. SUFFICES ASSUME Reading, ReadOptions PROVE Reading'
  OBVIOUS
<1>1. /\ args \in Seq(Arguments) /\ args' = args
      /\ at \in Nat /\ Past \in Nat /\ Past' = Past /\ at \in 1 .. Past
      /\ mode = "options" /\ NoStop(Past) /\ NoMistake(at) /\ ConfigIs(Past, at)
  BY Indices, SMT DEF Reading, ReadOptions, ApplyOption, Turn, NextArgument, Past
<1>2. /\ BadOptions' = BadOptions
      /\ \A i : (NoStop(i)' <=> NoStop(i)) /\ (NoMistake(i)' <=> NoMistake(i))
      /\ \A i, j, o : Setting(i, j, o)' = Setting(i, j, o)
  BY <1>1 DEF NoStop, NoMistake, Setting, Given, BadPresets, BadOptions
<1>3. CASE AtEnd /\ Turn("run")
  <2>1. at = Past
    BY <1>1, <1>3, Indices, SMT DEF AtEnd, Past
  <2>2. NoMistake(Past)' /\ NoStop(Past)' /\ ConfigIs(Past, Past)'
    BY <1>1, <1>2, <1>3, <2>1 DEF Turn, ConfigIs
  <2>3. at' = 1 /\ mode' = "run" /\ 1 \in 1 .. Past
    BY <1>1, <1>3, SMT DEF Turn
  <2>. QED
    BY <1>1, <2>2, <2>3 DEF Reading
<1>4. ASSUME ~AtEnd, at \notin BadOptions,
             at' = at + 1, mode' = mode,
             config' = [o \in Chances \cup Uints |-> Setting(Past, at + 1, o)]
      PROVE  Reading'
  <2>1. NoMistake(at + 1)
    BY <1>1, <1>4, NoMistakeNext
  <2>2. NoStop(Past)' /\ NoMistake(at)' /\ ConfigIs(Past, at)'
    BY <1>1, <1>2, <1>4, <2>1 DEF ConfigIs
  <2>3. at' \in 1 .. Past
    BY <1>1, <1>4, Indices, SMT DEF AtEnd, Past
  <2>. QED
    BY <1>1, <1>4, <2>2, <2>3 DEF Reading
<1>5. CASE At("preset") /\ NextArgument(config)
  <2>1. ~AtEnd /\ at \in Given("preset") /\ at \notin BadOptions
    BY <1>1, <1>5, Indices, SMT DEF At, AtEnd, Given, BadOptions
  <2>2. config = [o \in Chances \cup Uints |-> Setting(Past, at + 1, o)]
    BY <1>1, <2>1, SkipsInSecond DEF ConfigIs
  <2>. QED
    BY <1>4, <1>5, <2>1, <2>2 DEF NextArgument
<1>6. CASE ~AtEnd /\ ~At("preset") /\ ApplyOption
  <2>1. at \in DOMAIN args
    BY <1>1, <1>6, Indices, SMT DEF AtEnd
  <2>2. CASE Readable(args[at])
               /\ NextArgument([config EXCEPT ![args[at].option] = Parsed(args[at])])
    <3>1. args[at].option \in Chances \cup Uints /\ at \notin BadOptions
      BY <2>2 DEF Readable, BadOptions
    <3>. QED
      BY <1>1, <1>4, <1>6, <2>1, <2>2, <3>1, FlagApplied DEF NextArgument
  <2>3. CASE ~Readable(args[at]) /\ Turn("refused")
    <3>1. at \notin Given("help")
      <4>1. at # Past
        BY <2>1, Indices, SMT DEF Past
      <4>2. at < Past
        BY <1>1, <4>1, SMT
      <4>. QED
        BY <1>1, <4>2 DEF NoStop, Before
    <3>2. at \in BadOptions
      BY <1>6, <2>1, <2>3, <3>1 DEF BadOptions, At, Given
    <3>3. at' = 1 /\ mode' = "refused" /\ 1 \in 1 .. Past
      BY <1>1, <2>3, SMT DEF Turn
    <3>4. NoStop(Past)' /\ (BadOptions # {})'
      BY <1>1, <1>2, <3>2
    <3>. QED
      BY <1>1, <3>3, <3>4 DEF Reading
  <2>. QED
    BY <1>6, <2>2, <2>3 DEF ApplyOption
<1>. QED
  BY <1>3, <1>5, <1>6 DEF ReadOptions

(* Once the loops have ended, nothing changes what was read.               *)
LEMMA ReadingNext == Reading /\ [Next]_vars => Reading'
<1>. SUFFICES ASSUME Reading, [Next]_vars PROVE Reading'
  OBVIOUS
<1>1. CASE ReadForPresets
  BY <1>1, ReadForPresetsReading
<1>2. CASE ReadOptions
  BY <1>2, ReadOptionsReading
<1>3. CASE UNCHANGED <<args, at, mode, config>>
  <2>1. /\ Past' = Past /\ BadOptions' = BadOptions /\ BadPresets' = BadPresets
        /\ Given("help")' = Given("help")
        /\ \A i : (NoStop(i)' <=> NoStop(i)) /\ (NoMistake(i)' <=> NoMistake(i))
        /\ \A i, j : ConfigIs(i, j)' <=> ConfigIs(i, j)
    BY <1>3 DEF Past, NoStop, NoMistake, ConfigIs, Setting, Given, BadPresets, BadOptions
  <2>2. /\ NoStop(at)' <=> NoStop(at)
        /\ NoStop(Past)' <=> NoStop(Past)
        /\ NoMistake(at)' <=> NoMistake(at)
        /\ NoMistake(Past)' <=> NoMistake(Past)
        /\ ConfigIs(at, 1)' <=> ConfigIs(at, 1)
        /\ ConfigIs(Past, at)' <=> ConfigIs(Past, at)
        /\ ConfigIs(Past, Past)' <=> ConfigIs(Past, Past)
    BY <1>3, <2>1
  <2>. QED
    BY <1>3, <2>1, <2>2 DEF Reading
<1>. QED
  BY <1>1, <1>2, <1>3 DEF Next, vars, CreateRuntime

(* How the loops ended follows from where they would have stopped.         *)
LEMMA ReadingEnds == Reading => EndsAsDeclared
<1>. SUFFICES ASSUME Reading, mode \in {"help", "refused", "run"}
              PROVE  mode = IF \E i \in Given("help") : \A j \in BadPresets : i < j THEN "help"
                            ELSE IF BadPresets \cup BadOptions # {} THEN "refused" ELSE "run"
  BY DEF EndsAsDeclared
<1>. DEFINE helped == \E i \in Given("help") : \A j \in BadPresets : i < j
<1>1. args \in Seq(Arguments)
  BY DEF Reading
<1>2. Given("help") \subseteq Nat /\ BadPresets \subseteq Nat
  BY <1>1, Indices
<1>3. \A i \in Given("help") : i \notin BadPresets
  BY DEF Given, BadPresets
<1>4. NoStop(Past) => Given("help") = {} /\ BadPresets = {}
  <2>1. Before(Past, Given("help") \cup BadPresets) = Given("help") \cup BadPresets
    BY <1>1, Indices, AllBeforePast
  <2>. QED
    BY <2>1 DEF NoStop
<1>5. NoMistake(Past) => BadOptions = {}
  BY <1>1, Indices, AllBeforePast DEF NoMistake
<1>6. \A n : NoStop(n) => \A i \in Given("help") \cup BadPresets : ~(i < n)
  BY DEF NoStop, Before
<1>7. CASE mode = "help"
  <2>1. PICK i \in Given("help") : NoStop(i)
    BY <1>7 DEF Reading
  <2>2. ASSUME NEW j \in BadPresets PROVE i < j
    <3>1. ~(j < i) /\ i # j /\ i \in Nat /\ j \in Nat
      BY <1>2, <1>3, <1>6, <2>1
    <3>. QED
      BY <3>1, SMT
  <2>. QED
    BY <1>7, <2>1, <2>2
<1>8. CASE mode = "refused"
  <2>1. CASE \E i \in BadPresets : NoStop(i)
    <3>1. PICK i \in BadPresets : NoStop(i)
      BY <2>1
    <3>2. \A h \in Given("help") : ~(h < i)
      BY <1>6, <3>1
    <3>. QED
      BY <1>8, <3>2
  <2>2. CASE NoStop(Past) /\ BadOptions # {}
    BY <1>4, <1>8, <2>2
  <2>. QED
    BY <1>8, <2>1, <2>2 DEF Reading
<1>9. CASE mode = "run"
  BY <1>4, <1>5, <1>9 DEF Reading
<1>. QED
  BY <1>7, <1>8, <1>9

(* All arguments are before the end.                                       *)
LEMMA ReadingSets == Reading => FlagsOverridePresets
<1>. SUFFICES ASSUME Reading, mode = "run", NEW o \in Chances \cup Uints
              PROVE  config[o] = IF Given(o) # {} THEN Parsed(args[Latest(Given(o))])
                  ELSE IF o \in Chances /\ Given("preset") # {}
                  THEN applyPreset(args[Latest(Given("preset"))].value, Defaults)[o]
                  ELSE Defaults[o]
  BY DEF FlagsOverridePresets
<1>1. args \in Seq(Arguments) /\ ConfigIs(Past, Past)
  BY DEF Reading
<1>2. Before(Past, Given(o)) = Given(o) /\ Before(Past, Given("preset")) = Given("preset")
  BY <1>1, Indices, AllBeforePast
<1>3. config[o] = Setting(Past, Past, o)
  BY <1>1 DEF ConfigIs
<1>. QED
  BY <1>2, <1>3 DEF Setting

(* --help wins over every mistake but an earlier unknown preset, and       *)
(* otherwise any mistake anywhere keeps the simulation from running:       *)
(* whatever the arguments, however many.                                   *)
THEOREM LoopsEndAsDeclared == Spec => []EndsAsDeclared
BY ReadingInit, ReadingNext, ReadingEnds, PTL DEF Spec

(* The simulation runs with the last flag, else the last preset, else the  *)
(* default, whatever the arguments and in whatever order they come.        *)
THEOREM FlagsWin == Spec => []FlagsOverridePresets
BY ReadingInit, ReadingNext, ReadingSets, PTL DEF Spec

(* The seed set is one of 32 bits, so that the simulation is made with it. *)
SeedSet ==
  /\ DOMAIN config = Chances \cup Uints
  /\ config["seed"] \in 0 .. UintLimit - 1

(* The default is in range.                                                *)
LEMMA SeedSetInit == Init => SeedSet
<1>. SUFFICES ASSUME Init PROVE SeedSet
  OBVIOUS
<1>1. "seed" \in Uints /\ "seed" \notin Chances
  BY OptionNames
<1>2. Defaults["seed"] = DefaultSeed /\ DOMAIN Defaults = Chances \cup Uints
  BY <1>1 DEF Defaults
<1>3. DefaultSeed \in 0 .. UintLimit - 1
  BY CommandLineAssumption
<1>. QED
  BY <1>2, <1>3 DEF Init, SeedSet

(* What a readable number becomes.                                         *)
LEMMA ParsedInRange ==
  ASSUME NEW arg \in Arguments, arg.option = "seed", Readable(arg)
  PROVE  Parsed(arg) \in 0 .. UintLimit - 1
<1>. DEFINE v == arg.value
            w == v % UlongLimit
<1>1. "seed" \in Uints /\ "seed" \notin Chances
  BY OptionNames
<1>2. Parsed(arg) = w % UintLimit
  BY <1>1 DEF Parsed
<1>3. v \in Int
  BY <1>1, CommandLineAssumption DEF Readable
<1>. HIDE DEF v
<1>4. w \in Int
  BY <1>3, CommandLineAssumption, SMT
<1>. HIDE DEF w
<1>5. UintLimit \in Nat /\ UintLimit > 0
  BY SeedsAssumption, SMT
<1>6. (w % UintLimit) \in 0 .. UintLimit - 1
  BY <1>4, <1>5, SMT
<1>. QED
  BY <1>2, <1>6

(* Presets leave the seed alone.                                           *)
LEMMA SeedSetNext == Reading /\ SeedSet /\ [Next]_vars => SeedSet'
<1>. SUFFICES ASSUME Reading, SeedSet, [Next]_vars PROVE SeedSet'
  OBVIOUS
<1>1. "seed" \in Uints /\ "seed" \notin Chances
  BY OptionNames
<1>2. args' = args
  BY DEF Next, vars, ReadForPresets, ReadOptions, ApplyOption, NextArgument, Turn, CreateRuntime
<1>3. CASE config' = config
  BY <1>2, <1>3 DEF SeedSet
<1>4. CASE ReadForPresets /\ NextArgument(applyPreset(args[at].value, config))
  <2>1. applyPreset(args[at].value, config)["seed"] = config["seed"]
    BY <1>1 DEF applyPreset, SeedSet
  <2>2. DOMAIN applyPreset(args[at].value, config) = DOMAIN config
    BY DEF applyPreset
  <2>. QED
    BY <1>2, <1>4, <2>1, <2>2 DEF SeedSet, NextArgument
<1>5. CASE /\ ~AtEnd /\ at \in DOMAIN args /\ Readable(args[at])
           /\ NextArgument([config EXCEPT ![args[at].option] = Parsed(args[at])])
  <2>1. CASE args[at].option = "seed"
    <3>1. Parsed(args[at]) \in 0 .. UintLimit - 1
      BY <1>5, <2>1, ParsedInRange, Indices DEF Reading
    <3>. QED
      BY <1>1, <1>2, <1>5, <2>1, <3>1 DEF SeedSet, NextArgument
  <2>2. CASE args[at].option # "seed"
    BY <1>1, <1>2, <1>5, <2>2 DEF SeedSet, NextArgument
  <2>. QED
    BY <2>1, <2>2
<1>6. ~AtEnd => at \in DOMAIN args
  BY Indices, SMT DEF Reading, AtEnd
<1>7. CASE ReadForPresets
  BY <1>3, <1>4, <1>7 DEF ReadForPresets, NextArgument, Turn
<1>8. CASE ReadOptions
  BY <1>3, <1>5, <1>6, <1>8 DEF ReadOptions, ApplyOption, NextArgument, Turn
<1>9. CASE CreateRuntime \/ UNCHANGED vars
  BY <1>3, <1>9 DEF CreateRuntime, vars
<1>. QED
  BY <1>7, <1>8, <1>9 DEF Next

(* CommandLine takes the steps of Seeds.                                   *)
LEMMA NextSeeds == SeedSet /\ [Next]_vars => [SeedsNext]_seedsVars
<1>. SUFFICES ASSUME SeedSet, [Next]_vars PROVE [SeedsNext]_seedsVars
  OBVIOUS
<1>1. CASE CreateRuntime
  BY <1>1 DEF CreateRuntime, SeedsNext, SeedSet
<1>2. CASE ReadForPresets \/ ReadOptions \/ UNCHANGED vars
  BY <1>2 DEF ReadForPresets, ReadOptions, ApplyOption, NextArgument, Turn, vars
<1>. QED
  BY <1>1, <1>2 DEF Next

(* Whatever the command line, the generators of the simulations started    *)
(* from it, and of their restarts, are all seeded differently.             *)
THEOREM ProgramSeedsAllDiffer ==
  ASSUME Width32
  PROVE  Spec => []NoSeedTwice
<1>1. Init => Reading /\ SeedSet /\ Made
  BY ReadingInit, SeedSetInit, MadeInit DEF Init
<1>2. Reading /\ SeedSet /\ Made /\ [Next]_vars => (Reading /\ SeedSet /\ Made)'
  BY ReadingNext, SeedSetNext, NextSeeds, MadeNext
<1>3. Made => NoSeedTwice
  BY MadeImpliesDifferent
<1>. QED
  BY <1>1, <1>2, <1>3, PTL DEF Spec

=============================================================================
