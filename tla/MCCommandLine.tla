--------------------------- MODULE MCCommandLine ----------------------------
(* Instance of CommandLine for TLC: a std::uint32_t of 5 bits and an       *)
(* unsigned long of 6.                                                     *)
EXTENDS CommandLine

Arg(options, values) == [option : options, value : values]

MCArguments ==
  Arg({"help", "verbose"}, {Garbage})
  \cup Arg({"preset"}, {"smooth", "faulty", "unheard-of"})
  \cup Arg({"max-ticks"}, {-1, 5, 33, 64, Garbage})
  \cup Arg({"seed", "tick-interval-ms"}, {0})
  \cup Arg({"p-conveyor-fault"}, {-30, 40, NaN, Garbage})
  \cup Arg({"p-robot-place-fail"}, {150})
=============================================================================
