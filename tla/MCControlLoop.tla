--------------------------- MODULE MCControlLoop ---------------------------
(* ControlLoop for TLC. *)
EXTENDS ControlLoop

Reading(v, f, s) == [voltage |-> v, frequency |-> f, soc |-> s]

\* Overvoltage with a second violation, another violation that leaves the second
\* one of the first standing, and a reading without violation.
MCReadings ==
  {Reading("high", "absent", "low"), Reading("low", "absent", "absent"),
   Reading("ok", "ok", "ok")}
=============================================================================
