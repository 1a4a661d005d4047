\* A threshold of two errors in a window of three ticks, one device whose clock
\* is off by one tick in either direction, and time for a trip, a reset and a
\* second trip.
SPECIFICATION Spec
CONSTANTS
  Devices = {d}
  Never = Never
  StaleAfter = 2
  MaxErrors = 2
  Window = 2
  MaxLead = 1
  MaxLag = 1
  MaxTime = 8
  MaxRecorded = 7
\* The clock has reached its bound.
CHECK_DEADLOCK FALSE
INVARIANTS
  RateDecides
  ClosedMeansHeard
PROPERTIES
  Hysteresis
