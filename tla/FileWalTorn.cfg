\* One write cut short by a killed process.
SPECIFICATION Spec
CONSTANTS
  Ids = {a, b}
  Junk = Junk
  Nothing = Nothing
  Compact = Compact
  MaxLines = 3
  MaxVersions = 2
  MaxCrashes = 1
  MaxTears = 1
  MaxFaults = 0
  MaxScheduled = 1
SYMMETRY Symmetry
\* When every record is written the log has nothing to do.
CHECK_DEADLOCK FALSE
INVARIANT
  DamageIsIsolated
