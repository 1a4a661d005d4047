\* Two commands share one dispatcher; two process ends, one failed status
\* write and a budget of two attempts are enough for a retry, a restart in
\* the middle of it and a second restart after the recovery.
SPECIFICATION FairSpec
CONSTANTS
  Commands = {c1, c2}
  NoCmd = NoCmd
  Hung = {}
  MaxAttempts = 2
  MaxCrashes = 2
  MaxLostWrites = 1
\* A process whose commands are all settled has nothing to do.
CHECK_DEADLOCK FALSE
INVARIANTS
  TypeOK
  Custody
  NoLostWakeup
  WriteAhead
  BoundedDuplicates
PROPERTIES
  SettledIsFinal
  ImplementsLedger
  EventuallyDecided
