SPECIFICATION Spec
CONSTANTS
  Arguments <- MCArguments
  NaN = NaN
  Garbage = Garbage
  UintLimit = 32
  UlongLimit = 64
  MaxRestarts = 7
  DefaultSeed = 29
  DefaultMaxTicks = 6
  DefaultTickInterval = 2
  MaxArguments = 3
INVARIANTS
  EndsAsDeclared
  FlagsOverridePresets
  NoSeedTwice
CHECK_DEADLOCK FALSE
