\* Three points of one batch suffice; no write fails and no operator interferes.
SPECIFICATION Spec
CONSTANTS
  Devices = {d}
  Readings <- MCReadings
  MaxPoints = 3
  MaxFaults = 0
  MaxSweeps = 0
  MaxOperations = 0
CHECK_DEADLOCK FALSE
INVARIANTS
  HistoryIsRight
