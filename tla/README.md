# Verification of the CAN device simulation

TLA+ models of the washer line simulated by this repository, TLC runs that check
them on small instances, and TLAPS proofs of what matters most for every value
of the parameters. Paths are relative to the repository root, as in `PROJECT.json`
without its leading `src/`.

## 1. The system

One thread runs everything. `main` ticks a `SimulationRuntime`; a tick is

    controller.processTick   bus pass   conveyor, vision, robot processTick   bus pass

and a bus pass drains every output buffer into the bus buffer, copies each frame
into the input buffer of everyone but its source, and lets everyone handle what
it got. What is sent while handling waits for the next pass. There is no
parallelism, but five parties hold state about the same part and the same
heartbeats, and they only learn of each other through frames that are at least
one pass old. That is where the difficulty lies.

| Component | Code | State | Operations | Talks to |
|---|---|---|---|---|
| RingBuffer | `include/ring_buffer.hpp` | array, head, tail, count, two counters | push, pop, peek, clear, resetCounters | used by Device and CanBus |
| Device | `src/device.cpp` | input and output buffer | push/pop Rx/Tx, processRxFrames | base class of all participants |
| CanBus | `src/can_bus.cpp` | registered devices, bus buffer | register, unregister, transmit, processSinglePass, processFrames, clearFrames | moves frames between Devices |
| Controller | `src/controller.cpp` | phase, counts, latch, missed heartbeats | processTick, receiveFrame | commands the three devices |
| ConveyorBelt | `src/conveyor_belt.cpp` | watchdog, latch | processTick, receiveFrame | PartArrived is heard by the sensor and the controller |
| VisionSensor | `src/vision_sensor.cpp` (from 496) | watchdog, latch, image slot, part counter, last result | processTick, receiveFrame, queueImageInput | verdicts to the controller |
| Image classifier | `src/vision_sensor.cpp` (to 470) | none | flood fill, bounding box, hole features, decision | called by VisionSensor |
| RoboticArm | `src/robotic_arm.cpp` | watchdog, latch | processTick, receiveFrame | results to the controller |
| RandomEventSystem | `src/random_event.cpp` | generator | five draws | called by the devices |
| SimulationRuntime | `src/main.cpp` 191-220 | one of each | processTick | |
| Main loop | `src/main.cpp` 324-404 | totals, tick budget, restarts | the loop, the operator's prompt | owns the runtime |
| Command line | `src/main.cpp` 24-189, 258-312 | configuration | presets, options | configures everything else |
| Seeds | `src/main.cpp` 186-199, 373 | base seed, number of restarts | createRuntime | one generator per device and restart |

What makes each correct, and what is hard about it:

- **RingBuffer**: a first-in first-out queue; full and empty both have head = tail.
  With hooks it may be shared with an interrupt handler: each call makes several
  accesses and has several ways out, all between the two hooks.
- **CanBus**: everybody else gets each frame once, in order, in this pass and not
  a later or an earlier one; results of pushes are ignored, so a full buffer
  would lose frames silently. Devices may come, go and register twice, and those
  that answer every frame may keep `processFrames` busy until its limit.
- **Controller**: each part is counted once and commanded once whatever arrives;
  a fault is announced once and is final; silence of any device is noticed in time.
- **Devices**: the watchdog stops them after the timeout and for no other reason,
  and a shutdown is final.
- **VisionSensor**: one verdict per image, and the robot handles the part the
  verdict is about, although no frame carries a part id.
- **The line**: the frame awaited is always on its way; every run ends, every
  failure is noticed, no alarm is false.
- **Main loop**: totals are the parts really completed; the budget is kept.
- **Image classifier**: the box is that of the part, the threshold separates part
  and background, and round parts with a hole are washers. Everything
  is a numeric edge: corners that touch, ties, ratios at their limits, a feature
  computed from a single pixel.
- **Command line**: two loops over the same arguments that have to agree; numbers
  change their width on the way.
- **Seeds**: sums that wrap around and still must never meet.

`PROJECT.json` lists these hazards with their lines and the properties aimed at them.

## 2. Modules

    Frames   Device                       RingBuffer --implements--> BoundedQueue
      |    /   |                              |
      Controller   Watchdog  RandomEvents   SharedRingBuffer --implements--> RingBuffer
      |    |         \       /
      |    |     ConveyorBelt  RoboticArm     CanBus
      |    |         |   |  VisionSensor      |    |
      |    |         |  DevicesEnv            |   BusEnv --implements--> Broadcast
      |  ControllerEnv  |                     |
      |                 |                     |
      +----------------- Runtime -------------+
                            |
                     RuntimeProperties --implements--> ProductionLine
                      /            \
                  Network        MainLoop

    Seeds                              BrightComponents         Classifier
      |
    CommandLine

A line down is EXTENDS. `MC...` modules and their `.cfg` files are the instances of
section 3. The proofs of section 4 are in `ControllerProofs` (about `ControllerEnv`),
`DevicesProofs`, `BusProofs`, `RingBufferProofs` (about both ring buffers),
`RuntimeProofs` (what holds of the line however many frames are lost, then what the
schedule of a tick adds when no buffer gets full), `SurroundingsProofs` (which extends
it: about `Network` and `MainLoop`), `CommandLineProofs` (with `Seeds`) and
`ClassifierProofs` (about `Classifier` and `BrightComponents`).

| Module | Models | Correspondence |
|---|---|---|
| `Frames` | `can_protocol.hpp`, the three message enums | a frame is its id and the meaning of its first byte; a command has no data |
| `Device` | the output buffers | `tx[p]` is the sequence the ring buffer of `p` stands for; a push into a full one drops the frame, as the callers that ignore the result do |
| `Controller` | `controller.cpp` | `ControllerTick` is `processTick`, `ControllerReceive` is `receiveFrame`, each with all it sends. The three miss counters are one function. `issued` is a history of the commands sent |
| `ControllerEnv` | the controller on an unknown bus | any frame at any time, the output buffer drained at any time or never |
| `Watchdog` | what the three devices repeat | heartbeat seen, misses, latch, as functions of the device |
| `RandomEvents` | `random_event.cpp` | an event of probability 0 never happens, any other may at each draw |
| `ConveyorBelt`, `RoboticArm`, `VisionSensor` | the three device files | `...Tick` and `...Receive`, each with the whole sequence of messages it publishes. The checks of the latch inside `pick`, `place`, `removeReject` and `reset` repeat the one in `handleCommand` |
| `CanBus` | `can_bus.cpp` | the three loops of `processSinglePass`, one frame per step, in the order of the code |
| `DevicesEnv` | each device on an unknown bus | any frame or tick at any time; images handed in from outside |
| `Runtime` | `SimulationRuntime`, the loop around it | `step` is the call that comes next, `stage` the loop of the bus |
| `RuntimeProperties` | | what the line promises |
| `Network` | a runtime whose participants leave and join the bus between ticks | `unregisterDevice` and `registerDevice` |
| `MainLoop` | `main` | `NewRuntime` is `createRuntime`; `Answer` is `waitForResumeCommand` |
| `ProductionLine` | | what the line is for its operator: a part at a time, handled as inspected, until the run is complete or a station fails; no frames, ticks or heartbeats |
| `BusEnv`, `Broadcast` | `can_bus.cpp` on its own, and its promise | `call` and `made` are `processSinglePass` or `processFrames` and its passes; peers stand for devices, some of which answer each frame. In `Broadcast` what is said is due at once to everyone registered but the source, as far as their backlog has room, and is heard one by one; what is due to a peer is what it has received and what waits in its input buffer |
| `RingBuffer`, `BoundedQueue` | `ring_buffer.hpp` and its promise | one action per call and outcome; `answer` records the last call and what it returned |
| `SharedRingBuffer` | the same class used from several contexts | `Steps` lists the accesses of each call, `todo` those it has yet to make; `Enter` and `Exit` are the constructor and destructor of `CriticalSectionLock`; `ring` holds the members, and the variables of `RingBuffer`, which it extends, what they were when the last call left |
| `CommandLine` | the two argument loops of `main`, presets, number parsing | `mode` is the loop, or how it ended; `config` is what has been set. A simulation that runs is created, and created again, as in `Seeds` |
| `Seeds` | `withSeedOffset`, the constructor of `SimulationRuntime` | `generators` is a history of all that were seeded |
| `BrightComponents` | `findBrightBoundingBox`, `floodFillBrightComponent` | a picture is the set of its bright pixels; `Visit` is one turn of the fill's loop, `phase` says whether the scan, a fill or the whole search is over, `foundBox` is the result |
| `Classifier` | `computeAdaptiveBrightThreshold`, `computeHoleFeatures`, `classifyWasher` | one action per stage of the function. Pixels are counted by zone of the circle; fractions are compared by integers |

For the line an image is abstracted to the verdict the classifier gives on it, so a part is
Valid, Invalid or Unknown at random; `Classifier` shows that each of the three is really
given. An image may also have an empty path, with which it is never loaded and stays in the
slot; only a caller from outside hands one in. Names, scores, texts and the second byte of
a status frame, which nobody reads, are left out.

Definitions whose comment starts with *Mutant* are not part of a model. Each is
the definition that follows it with a plausible mistake of the code; put in its
place it makes the property named in `PROJECT.json` fail, which shows what the
property is worth.

## 3. The runs

| Run | Asks | Bounds and why they are enough |
|---|---|---|
| `controller_env` (89,629 states) | Do counters and commands stay in step whatever arrives? Is a fault announced once and final? | target 2: the branch that goes on and the one that ends; an output buffer of 3: sends that fit, partly fit and do not; the code's timeout of 3 |
| `runtime` (23,027) | One frame per part in flight; robot and camera at the same part; 7 passes per accepted and 5 per rejected part; no false alarm; shutdown reaches all or none; no frame lost; runs end; is the whole a `ProductionLine`? | the code's target of 5 and timeouts of 3, all five failures. Part ids below 3, so that the counter wraps twice. Buffers of 12, the smallest we tried that lose nothing (10 is too few); the code has 256 and 1024 |
| `runtime_prompt` (violation) | Are the devices shut down when the operator is asked? | see the finding below |
| `devices_env` (263,746) | Does a device stop when it should, only then, and for good? One verdict per image? | two images, also without a path: one left over from a failed inspection and one that replaces it; the last 4 calls remembered, one more than the timeout |
| `network` (844,650) | What do lost frames do, and who notices an absence, and when? | two departures or returns, at any of 16 ticks, three parts; no injected failures, so that every fault comes from a watchdog. `SurroundingsProofs` has any number of departures, at any time |
| `ring_buffer` (139,130) | Do calls that interrupt each other at any access behave as if made one at a time, and is that a queue? | two contexts, capacity 3, two values; a call that can be refused begins only below one counted refusal; `RingBufferProofs` covers every capacity and any number of contexts |
| `main_loop` (51,338) | Are the totals right, the budget kept, and does main settle? | runs of 2 parts, 12 ticks: several complete runs, faults and restarts in one behaviour; a failure of the sensor and one of the last command of a part |
| `bus` (3,531,443) | Does everyone hear the same frames in the same order as often as it is registered, whoever joins or leaves? Are answers kept for the next pass? What is left when a call returns? | three peers for three slots, so that one is registered twice beside another, or refused; buffers of two frames, so that their order shows (with buffers of one it does not, nor does the second copy of a peer that is registered twice), and three frames, so that pushes are refused too; a limit of two passes, reached by two peers that answer each other |
| `command_line` (43,716) | How do the loops end, and which of several settings counts? Is a seed used twice? | three arguments out of seventeen; a 32-bit integer has 5 bits here and an unsigned long 6: for the parsing all that matters is that one divides the other, and the sums of the seeds wrap around; 7 restarts are all for which 4 times their number is below the limit, and `CommandLineProofs` has the real width |
| `components` (10,800) | Is a region found as a whole, once? Is the box that of the rule? | pictures of 7 by 6 made of two rectangles: rings, notches, corners that touch, ties, regions at the border; limits of 3, 4 and 4 pixels for 20, 120 and 80, so that every clause of the rule decides some picture. `ClassifierProofs` has pictures of any size |
| `classifier` (121,290) | Does the threshold separate part and background? Is a part ever undecided? Is a washer what has a hole? | the smallest box, one that is too small, two just under and one above the limit of the aspect; contrasts of 7 and 8, the least that counts as dark; shares on both sides of the limits 5 and 89 percent; every number of dark pixels in the centre, and none, one, half or all in each other zone. `ClassifierProofs` has every box up to the 192 by 192 of the code, and any numbers |
| `classifier_speck` (violation) | Is a solid disc Invalid? | the same; see the findings |

`MaxPasses` bounds a history variable, above the passes any of these runs makes;
it matters only when a mistake stalls the line for ever.

Buffers larger than the most that is ever in them behave alike, which
`NoFrameLost` shows for 12 slots in `runtime`: the run tells nothing new with
256. The theorem about it (section 4) asks for 155 slots, which the code has and the
run has not; 12 make the run the sharper check. In `network` a participant that comes back brings what it sent meanwhile,
and 12 slots do overflow; with the 24 (and 60 for the bus) of the run nothing
does within its 16 ticks (the same instance was checked once with `NoFrameLost`
added), so there a frame is lost only by an absence, never by a full buffer.

**Deadlock** is checked wherever the program goes on for ever; the command line,
the restarts, the search and the classification come to an end and their runs say
so. Where the program stops (a runtime the main
loop is done with, `main` after its summary, the end of the bounded ticks) the
model says so by an explicit stuttering disjunct.

**Fairness.** `Runtime!FairSpec` and `MainLoop!MainSpec` assume weak fairness of
the step of the single thread as a whole: it never waits for anything, and there
is nobody else it could be starved by. Nothing is assumed of the operator, who
may never answer or answer nonsense for ever, so `MainSettles` claims only that
main comes to the prompt or to its end. Within a pass the choices (verdict,
failure) carry no fairness. `RunEnds`, and the
fairness of `ProductionLine` (the line does not stand still before it is complete or
stopped), hold because the awaited frame is always on its way (`OneFramePerPart`).

**Timeouts as found.** `AbsenceStopsController`, `EveryDeviceShutsDown` and
`AbsentDeviceShutsDown` are stated in bus passes (two to a tick), and each bound is
tight: with one pass less TLC finds a counterexample. The bound of `EveryDeviceShutsDown`
used to be one pass too small, and its run could not tell: with an even number of parts
the controller completes a run in the pass that hides it. The attempt to prove it did, and
the run now has three parts. The devices' promise is for those that
have heard the controller at least once; one that never did waits for ever
(`StopsOnlyWithCause` relies on it, it is what the code does).

### Findings

`DevicesShutDownAtPrompt` is violated. A fault that the controller receives in
the second pass of a tick (the conveyor's answer to the first request is such a
frame) queues the shutdown commands after the last drain that runtime will ever
see: main looks at `hasFault`, prompts, and then replaces the runtime or exits.
`README.md:67` says that the controller "enters fault and sends shutdown commands
to all devices". `ShutdownAllOrNothing` says what does hold: all three devices
are shut down or none is, and in the second case the commands are still queued.
`Network` shows that if ticks went on the devices would be shut down in time.

`SpeckIsNoHole` is violated. The concentration of the dark pixels is 1 when the only
one lies near the centre, and 18 times it exceeds the limit of 17 by itself: a solid
disc with one pixel darker by 8 levels is Valid. `README.md:28-29` says Valid is a
"washer-like ring with center hole" and Invalid a "solid disc/non-washer".
`HoleMakesWasher` says what does hold: without any dark pixel a part is Invalid, and
one that is dark all over its center is Valid exactly if the annulus is brighter by 8 levels.

### Observed, and not the subject of a run

- `parseUnsignedValue` reads 64 bits and a sign and keeps 32 (`Parsed`):
  `--max-ticks=4294967296` makes no tick, `--max-ticks=-1` up to 4294967295, although
  the usage text says `<uint>` and garbage is refused.
- `nan` is read by `std::stod` (`Readable`), is not changed by `std::clamp`, and
  reaches `std::bernoulli_distribution`, although the usage text says `<0..1>`.
- A picture with no candidate at all, or one too small to look at, is Invalid
  (`CheckBox`); `README.md:30` says Unknown is for an "insufficient/conflicting
  signal". Unknown is given exactly to pictures that cannot be read, and the branch
  for too few samples is never taken, for no box (`ReadPictureIsAlwaysDecided`).

## 4. The proofs

| Theorem | For every | Says |
|---|---|---|
| `ControllerTypeCorrect`, `PartsAccounted`, `NoCommandTwice`, `ShutdownExactlyOnce`, `FaultIsFinal` | target, timeout > 0, buffer capacity > 0, and every sequence of frames, ticks and drains | the five properties of run `controller_env` |
| `VerdictPerImage`, `SilenceStops`, `CauseOfStop`, `ShutdownIsFinal` | timeout > 0, buffer capacity, set of possible failures, and every sequence of frames, ticks and images | the four properties of run `devices_env` |
| `BusIsBroadcast`, `AnswersAreForTheNextPass`, `NothingHalfDone` | set of peers and of those that answer, number of slots, buffer capacities, limit of passes > 0, number of frames | the three properties of run `bus`: the refinement of `Broadcast`, and two action properties |
| `OneFrameAtMost` | run length, timeout, buffer capacities, part id width, set of possible failures | at most one frame that moves a part on is in flight, and one that the phase waits for |
| `RightPart` | the same | `RobotHandlesInspectedPart` |
| `ExactlyOneFrame` | run length, part id width, set of possible failures, timeouts > 1, buffers of more than 154 frames | `OneFramePerPart`: exactly one, while the controller has not faulted |
| `LineInLockstep` | the same | `Lockstep`: 7 passes for an accepted part, 5 for a rejected one |
| `NoAlarmIsFalse` | the same | `NoFalseAlarm`: no watchdog counts more than one tick of silence; a fault is due to exactly one injected failure |
| `ShutdownIsWhole` | the same | `ShutdownAllOrNothing` |
| `NothingIsLost` | the same | `NoFrameLost`: no buffer is ever full |
| `RuntimeIsLine` | the same | the runtime implements `ProductionLine`, but for its fairness |
| `NeverTwoFrames`, `RightPartWhoeverIsThere` | as for `RightPart`, and any departures and returns | `AtMostOneFramePerPart` and `RobotHandlesInspectedPart` of run `network` |
| `AbsenceIsNoticed`, `AbsentDeviceIsSafe` | the same, whatever is lost | `AbsenceStopsController`, `AbsentDeviceShutsDown` |
| `EveryDeviceIsSafe` | the same, as long as no buffer gets full | `EveryDeviceShutsDown` |
| `TotalsAreSound`, `RunsAreSound`, `EndIsExplained` | as for `RightPart`, and every tick budget and number of restarts | the three invariants of run `main_loop` |
| `ClassifierIsSound` | grey levels, shares, boxes up to 192 by 192, numbers of dark pixels outside the centre | the invariant of the classification, stage by stage |
| `ThresholdAlwaysSeparates`, `ReadPictureIsAlwaysDecided`, `HoleAlwaysMakesWasher`, `LargerHoleIsAlwaysWasher` | the same | `ThresholdSeparates`, `ReadPictureIsDecided`, `HoleMakesWasher`, `LargerHoleStillWasher` |
| `FillIsAlwaysRegion`, `AlwaysFindsByRule` | width, height, picture, the three limits | `FillIsRegion`, `FindsByRule` |
| `LoopsEndAsDeclared`, `FlagsWin` | command line of any length, table of options, integer width | the two properties of run `command_line` about the loops |
| `SeedsAllDiffer`, `ProgramSeedsAllDiffer` | base seed, and number of restarts below 2^30, with the real 32 bits | `NoSeedTwice`, for the restarts alone and for the program a command line starts |
| `Representation`, `Implementation` | capacity > 0, set of values | head, tail and count agree; the array implements the bounded queue |
| `CallsAreAtomic`, `SharedRepresentation`, `SharedQueue` | the same, and any number of callers | calls that interrupt each other at any access are calls made one at a time; what follows from it |

*Controller.* No property is inductive, since what a step does to a counter
depends on the phase. `Inv` of `ControllerProofs` adds what each phase knows
about every counter (`Progress`: waiting for a pick, for instance, means one more
request and one more pick than parts processed and accepted), the weaker facts
that survive an interruption by a fault (`Interrupted`), and the equivalence of
latch, phase and shutdown commands (`Latched`). `Watching` keeps the miss
counters below the timeout while the controller has not faulted, without which
their type is not preserved. One lemma per kind of call says which commands it
mentions; the step lemma has one case per branch of the handlers.

*Devices.* The watchdog's properties compare a counter with a window of the latest
calls. `Counting` ties them: a device that is up has counted the ticks since the last
heartbeat (`LastBeat`), fewer than the timeout, and the window, one call longer than the
timeout, still holds that heartbeat. So a window of ticks alone means that the device is
down (`SilenceStops`), and a device that goes down by itself has a window of ticks alone
(`CauseOfStop`). What a call publishes is described once per device (`VisionSays` and its
like): a sequence of frames, empty or last words if the latch is set, with a verdict only
for an image in the slot.

*Bus.* `Inv` says where frames are (`InOnePlace`, `Accounted`: each sent frame is in one
output buffer, on the bus, distributed, or lost), when (`Timely`: none is sent while frames
are drained or distributed, and what is handled was sent before), what each loop leaves
empty (`Emptied`), and that a peer has as many slots as it should (`Registry`). The last
is the one about `unregisterDevice`, which fills the free slot with the last device, perhaps
the same one: `UnregisterCounts` counts slots before and after. In the refinement a peer's
due frames are those received followed by those in its input buffer; a distributed entry
appends to it the copies that fit (`DistributeSays`, `PushedCopies`), handling a frame moves
it across the border (`HeadMoves`), and everything else is a stutter or a change of the
registry.

*Runtime.* Nothing in a frame says which part it is about. `Flying(H)` counts the frames
of a set H in all output buffers, on the bus, and in the input buffers of those who heed them.
Moving a frame keeps the count or, when a buffer is full or a participant is away, lowers it;
only a handler that consumes one sends one. So `Flying` of all frames that move a part on
is at most 1, and that of those the phase does not wait for is 0 (`OneOfThisPart`).
With it, what a frame in flight says of the sensor's records (`FrameKnows`: a request is on
its way before the part is counted by the sensor, a verdict after) holds until it is
handled, and then becomes what the phase knows (`PhaseKnows`), from which
`RobotHandlesInspectedPart` follows. `Tally` is the controller's own accounting. No
capacity is assumed: a lost frame leaves a part standing, it does not confuse two.

*Schedule of a tick.* That a frame is there, and not only that no other one is, needs
buffers that never get full, and how full they get depends on who has spoken since they
were last emptied. `Ledger` bounds, for each participant and each loop of the bus, what it has
said and what it still owes: so many frames for each one it has yet to hear, and those of
its own call in the tick. The bounds are coarse, so that they need not know the phase, and come
to `Burst` = 154 at most, which `Geared` asks of every buffer; the code has 256 and 1024.
With `Basis` (which loop has emptied what, and who sends which frame) it is `Booked`, and
`NothingIsLost` follows. From then on frames only move, and three more invariants hold
(with `Booked` they are `Clockwork`):

- `Beating`: at each step of the tick, the heartbeat that a device or the controller waits for
  has been heard or is in the place the schedule says, so no count of missed ones gets
  above 1. With a timeout of 1 that would be an alarm, hence timeouts > 1; the code has 3.
- `Latching`: after a fault either all three shutdown commands wait in the output buffer of the
  controller, or each has reached its device or is coming in the pass being made.
- `Journeying`: the frame awaited is in flight, in the place which the phase and the number of
  passes since the part was requested say; after a fault there is none, and exactly one
  failure has been drawn. With `OneFrameAtMost` this is `ExactlyOneFrame`, and the
  passes are those of `Lockstep`. `MaxPasses`, the bound of that history, is to be
  above 7 passes for each part of the run.

*The line as its operator sees it.* `RuntimeProperties` maps a runtime to a
`ProductionLine` by where the awaited frame is (`Whereabouts`). Under `Clockwork` the
guards of that CASE exclude each other, so every step of the runtime is a step
of the line or leaves it alone, with one lemma per call. `RuntimeIsLine` is the property
`ImplementsLine` of the run without its fairness.

*Network.* The invariant of the runtime asks of the registry only that no device is in it twice
(`NoTwice`), and so it is that of `Network` too. `OneFrame` relates its counts to the
sets of places by which `AtMostOneFramePerPart` is stated. The deadlines of an absence are
counts of missed ticks in a history of passes: `Away` says that what is absent has nothing new in
its input buffer nor the others from it once the pass of its departure is over, and
`Attending` that the party that misses it has since counted one
miss for every two passes. That is all of `AbsenceIsNoticed` and `AbsentDeviceIsSafe`, and
no room is assumed. `EveryDeviceIsSafe` needs more, since a controller that has stopped may
have left heartbeats behind, and each of them restarts a watchdog. `Stopping` says that they come
to a device with the shutdown command behind them, so that the device is either warned
(`Warned`) or counts down (`CountsDown`). A full buffer could drop the command and
keep the heartbeats, so the theorem is about behaviours in which `NoFrameLost` holds; in
`Network` that cannot be had from `Geared`, since a participant that never comes back
never drains what it says.

*Main loop.* The totals depend on how a run ends: `MainInv` is the invariant of the runtime,
of which only `Tally` is used (a finished run has counted its length, a faulted one less),
with what each place in main knows of the run (`Ending`), the budget, and the
three properties.

*Command line.* `Reading` says of each loop what it has read before its index: no help and
no bad preset before `at` in the first loop and everywhere in the second, no bad option before
`at` in the second, and every setting being that of the latest flag, else of the latest preset,
else the default, of what was read (`ConfigIs`). At the ends of the loops this is what
`EndsAsDeclared` and `FlagsOverridePresets` say of the whole command line.

*Seeds.* A 32-bit sum is the sum less a multiple of 2^32 (`Remainder`, `Sum32`).
Two equal seeds then differ by such a multiple; since 4 divides 100 and 2^32 they are
of the same device, and since 25 and 2^30 have no common divisor of the same restart,
as long as there are fewer than 2^30 (`SumsDiffer`). The invariant `Made` says which
generators there are, in `SeedsSpec` and in `CommandLine`, which takes its steps with the
seed that has been set.

*Search for the part.* What a region is, is a recursive definition, and so is what the fill pushes
of nine pixels. Both need an induction over numbers, and the induction theorems of the library
cannot be used, since they take a formula as a parameter. `Inductive` takes a set instead, by the
well-foundedness of the numbers, and from it come that a recursion has a value at all
(`Recursion`), that each set of the chain that ends in a region is contained in every closed set
with its first pixel (`RegionIsLeast`), and that the last one is closed itself, because each one
that is not has a pixel more than the one before (`RegionIsClosed`). `Filling` then says that
the counts are those of the pixels popped, whose neighbours have all been pushed, each once:
with the stack empty they are closed, hence the region (`FillFinds`). `SearchInv` adds that the
regions compared are whole and begin before anything not seen yet, so that a tie is won
by the region found first, and that the two records are the largest of them (`BestOfMore`).

*Classifier.* What a box of any size has in its zones cannot be tabulated, so the pixels are
bounded from below: a rectangle of offsets lies within the centre, another within the
annulus, and from 16 pixels on each holds the minimum that the code asks for; boxes of 10 to
15 need two rectangles, chosen by the parity of their sides (`SamplesAreEnough`).
The threshold is an integer root: that there is one is a pigeonhole argument without
induction (`RootIs`). The mean plus a part of the deviation, rounded either way, is then bounded by both
levels (`RoundedSeparates`). The verdict is a sum of quotients:
over a center that is all dark its term is 28 by itself, so that with a bright annulus nothing
else matters (`WholeHole`); without one, nothing counts as dark and what is left of the contrast
is less than 5 (`WholeHoleInShade`), as it is 0 for a uniform part (`UniformIsNone`).
That a hole which is larger in the center or in the gap is still one is seen term by term,
since none of the features falls (`PartsGrow`, `LargerHole`). Farther out two of them fall, and
the verdict can be lost: TLC finds one dark pixel of the gap, beside a bright center, that is
called a washer until one of the annulus is dark too, and a hole that leaves the annulus less
than 8 levels brighter. With both excluded, as in `LargerHoleStillWasher`, it follows from
`WholeHole`. `ClassifierInv` says which threshold, box and counts the picture of each stage may
have, and that a verdict is one of `Verdicts`.

*Ring buffer.* `TypeOK /\ IndicesAgree` is inductive. Under it the contents are a
sequence (`ContentsSeq`); a push appends (`PushAppends`), a pop takes the head
(`PopTakesHead`), everything else leaves them alone or empties them. Each call
then maps to the same call of `BoundedQueue`.

*Shared ring buffer.* `SharedInv` says that a caller who is not inside the critical section
has not begun (`Outside`), that without a caller inside the members are as the last call
left them, and of the caller inside what it has done to them so far, one alternative per place
of the code (`PushAt`, `PopAt`, ...). The last alternative of each call, at its exit, is
the state one action of `RingBuffer` leads to (`LeavesAsOneAction`); all earlier accesses are
stutters. That the hooks exclude other callers is the assumption `Enter` makes of them.

TLC checked each of these invariants on the instance of its run before it was proved.
The assumptions, but for `Geared`, which the theorems that need it name, are the named
`ASSUME`s of the modules: capacities, limits and timeouts
are positive, the targets and bounds natural numbers, there is at least one value, an
unsigned long is a multiple of an unsigned int, the levels of a picture are of 8 bits and its
dark one is below its bright one, a box is at most the 192 by 192 of a preprocessed picture, and
the options that take a number are given one, or something that cannot be read.

*Only model-checked*, so far:

- `EveryDeviceShutsDown` in behaviours where a buffer does get full, where it need not hold;
- everything about liveness (`RunEnds`, `MainSettles`, the fairness of `ProductionLine`),
  which the prover cannot do.

## 5. Not modelled

- of the image classifier: decoding and resizing a picture (a library does both), the
  score, and pictures of more than two levels, whose weights would be real numbers;
- the order and spelling of options: an argument is an option with a value;
- `ConveyorBelt::setSpeed` and `setDirection`: private, called from nowhere;
- queries that change nothing (`size`, `lastResult`, ...), texts and logging;
- frames of unknown ids, status bytes outside the enums, and status frames
  without data: every handler ignores them;
- the generator behind the injected failures: a draw is a free choice;
- the counters of `std::size_t`: natural numbers here, 2^64 is out of reach;
- `registerDevices` failing: four devices fit into ten slots;
- stb_image: vendored.

## 6. Plan

Done in this order: frames and buffers; controller alone; devices and bus; the
runtime and its properties; devices alone; the network; the ring buffer and its
proofs; the controller's proofs; the main loop; the bus alone; the command line with
the seeds and their proof; the search for the part; the classification; the ring
buffer with its critical section taken apart; the line as its operator sees it.

The proofs followed in this order: the controller, the seeds and the ring buffer; the devices;
the shared ring buffer; the runtime, the main loop and the network; the command line; the bus.
Two models changed for them without changing what they say of the code: `Broadcast` keeps what
is due to each peer instead of one log with positions, whose mapping was a fold, and
`SharedRingBuffer` reads the accesses of a call from a table.

The last proofs were those of the schedule of a tick: `NoFrameLost` first, the heartbeats, the
shutdown and the frame of the part on top of it, then the refinement of `ProductionLine`
and the deadlines of `Network`; then the classifier. The former changed no definition that
models code; one bound and the instance of `network` changed (section 3, Timeouts as found).
For the proofs about the classifier its sums over sets of zones became sums by name, how many
pixels outside the centre may be dark became a constant, boxes are no longer below 50, and a
contrast of exactly 4 may pass for more or not, since it is computed with rounding. For those
about the search the list of neighbours became a recursive function, and its variables and
specification have names of their own, so that both halves of the classifier share a module
of proofs.

Left: how full a buffer can get in `Network`, as a function of the time its owner is away, without
which `EveryDeviceIsSafe` has to name the behaviours it is about; and the parts of the
classifier that need real numbers (section 5).
