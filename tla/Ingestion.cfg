\* Two adapters; a poll cycle of up to three devices overflows a buffer of three
\* slots, which takes two batches to drain.
SPECIFICATION FairSpec
CONSTANTS
  Adapters = {m, p}
  Capacity = 3
  BatchSize = 2
  MaxBurst = 3
  MaxArrivals = 5
  Empty = Empty
  Nobody = Nobody
\* All points of the bound have arrived and been drained.
CHECK_DEADLOCK FALSE
INVARIANTS
  NoStall
  Accounted
PROPERTIES
  ImplementsQueues
  BackpressureEnds
