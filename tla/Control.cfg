\* One device, three points, one failed write, one staleness evaluation and one
\* restart or operator request, after which a removed device may be restored.
SPECIFICATION Spec
CONSTANTS
  Devices = {d}
  Readings <- MCReadings
  MaxPoints = 3
  MaxFaults = 1
  MaxSweeps = 1
  MaxOperations = 1
\* The bounds of the occurrences are reached.
CHECK_DEADLOCK FALSE
INVARIANTS
  TypeOK
  InArrivalOrder
  CurtailedOnceReleasedOnce
  NoCommandForgotten
  OvertakesByFewerAlarms
  LogFollowsEngine
