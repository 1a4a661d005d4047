\* Two commands with two attempts each, one process end, two changes of the
\* gates, and an adapter that gives up at the second error.
SPECIFICATION FairSpec
CONSTANTS
  Commands = {c1, c2}
  NoCmd = NoCmd
  c1 = c1
  c2 = c2
  Request <- Wishes
  Socs <- ChargeStates
  Unknown = Unknown
  NotANumber = NotANumber
  SocMin = 1
  SocMax = 2
  MaxCurtail = 2
  MaxDischarge = 2
  MaxCharge = 2
  MaxAttempts = 2
  MaxEnds = 1
  MaxReconnectAttempts = 2
  MaxEvents = 2
\* A process that is down after its last end may stay so.
CHECK_DEADLOCK FALSE
INVARIANTS
  TypeOK
  GivesUpAtTheLimit
  AtMostOneSlips
PROPERTIES
  RefusalIsFinal
  OvertakenOnlyAfterFailure
  StartGoesOn
  StopEnds
