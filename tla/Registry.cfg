\* Two devices so that a write on behalf of one carries the record of the
\* other; four changes, two process ends and a failed write let a removal be
\* followed by a failure, a restart and another change.
SPECIFICATION FairSpec
CONSTANTS
  Devices = {d1, d2}
  MaxChanges = 4
  MaxFaults = 1
  MaxEnds = 2
\* A process that is down with a fragment in its file cannot start.
CHECK_DEADLOCK FALSE
INVARIANTS
  AnswersHold
  RemovalHolds
  QuietMeansSaved
PROPERTY StopEnds
