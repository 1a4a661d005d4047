\* The adapter of c1 never answers; no crash interferes.
SPECIFICATION HungSpec
CONSTANTS
  Commands = {c1, c2}
  NoCmd = NoCmd
  Hung = {c1}
  MaxAttempts = 2
  MaxCrashes = 0
  MaxLostWrites = 0
CHECK_DEADLOCK FALSE
PROPERTY OthersAreServed
