\* No error follows the trip.
SPECIFICATION Spec
CONSTANTS
  Devices = {d}
  Never = Never
  StaleAfter = 2
  MaxErrors = 2
  Window = 2
  MaxLead = 1
  MaxLag = 1
  MaxTime = 8
  MaxRecorded = 7
\* The clock has reached its bound.
CHECK_DEADLOCK FALSE
INVARIANT
  ResetWhenSubsided
