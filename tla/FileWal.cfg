\* Two ids with two records each, a threshold of three lines, a process end,
\* two torn writes (the second onto the first) and a failed operation.
SPECIFICATION BackendsSpec
CONSTANTS
  a = a
  b = b
  Ids = {a, b}
  Junk = Junk
  Nothing = Nothing
  Compact = Compact
  MaxLines = 3
  MaxVersions = 2
  MaxCrashes = 1
  MaxTears = 2
  MaxFaults = 1
  MaxScheduled = 1
  NotGiven = NotGiven
  Clocks <- MCClocks
  Questions <- MCQuestions
  Limits = {NotGiven, 1, 2, 6}
  DefaultLimit = 3
  MaxLimit = 2
\* When every record is written the log has nothing to do.
CHECK_DEADLOCK FALSE
INVARIANTS
  LossIsBounded
  CountFollowsFile
  AnswersAgree
PROPERTIES
  CompactionIsInvisible
  ImplementsLog
  EveryAppendSettles
