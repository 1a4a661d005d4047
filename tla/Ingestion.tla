----------------------------- MODULE Ingestion -----------------------------
(***************************************************************************)
(* IngestionManager: a ring buffer per adapter, backpressure, and a drain  *)
(* loop that yields to the event loop between batches.                     *)
(*                                                                         *)
(* An adapter emits its points synchronously: one per MQTT message, one    *)
(* per device in a poll cycle, and it looks at its paused flag only before *)
(* the first.  While it emits nothing else runs, so its remaining points   *)
(* are a variable and every other action waits for them.                   *)
(***************************************************************************)
EXTENDS Naturals, Sequences, FiniteSets

CONSTANTS
  Adapters,
  Capacity,      \* config.ingestion.maxBufferSize
  BatchSize,     \* config.ingestion.batchSize
  MaxBurst,      \* devices of one adapter, all polled in one tick
  MaxArrivals,   \* bound: points per adapter
  Empty, Nobody

ASSUME IngestionAssumption ==
  /\ Capacity \in Nat \ {0} /\ BatchSize \in Nat \ {0} /\ MaxBurst \in Nat \ {0}
  /\ MaxArrivals \in Nat
  /\ IsFiniteSet(Adapters) /\ Nobody \notin Adapters

\* The n-th point of an adapter, and whether Normalizer.normalize accepts it.
Points == [number : 1..MaxArrivals, valid : BOOLEAN]

INSTANCE RingBuffer WITH Items <- Points

VARIABLES
  buffer,      \* entry.buffer per adapter
  paused,      \* entry.paused, always equal to the adapter's own paused flag
  draining,    \* entry.draining: a setImmediate callback is pending
  emitting,    \* the adapter that is emitting, or Nobody
  remaining,   \* the points it has still to emit
  received, normalized, invalid, dropped,   \* metrics
  arrived,     \* ghost: points received per adapter
  handed       \* ghost: points handed on per adapter, in order

metrics == <<received, normalized, invalid, dropped>>
vars == <<buffer, paused, draining, emitting, remaining, metrics, arrived, handed>>

Init ==
  /\ buffer = [a \in Adapters |-> EmptyRing]
  /\ paused = [a \in Adapters |-> FALSE]
  /\ draining = [a \in Adapters |-> FALSE]
  /\ emitting = Nobody /\ remaining = 0
  /\ received = 0 /\ normalized = 0 /\ invalid = 0 /\ dropped = 0
  /\ arrived = [a \in Adapters |-> 0]
  /\ handed = [a \in Adapters |-> <<>>]

\* A message arrives, or the poll timer fires; a paused adapter drops it.
Emit(a) ==
  /\ emitting = Nobody /\ ~paused[a]
  /\ \E n \in 1..MaxBurst :
       /\ arrived[a] + n <= MaxArrivals
       /\ remaining' = n
  /\ emitting' = a
  /\ UNCHANGED <<buffer, paused, draining, metrics, arrived, handed>>

\* An eviction that is not counted.
EvictSilently(a) == dropped

Evict(a) == IF IsFull(buffer[a]) THEN dropped + 1 ELSE dropped

\* _enqueue of one point: push, count an eviction, pause when full, and make
\* sure that a drain is scheduled.
Enqueue(a) ==
  /\ emitting = a
  /\ remaining' = remaining - 1
  /\ emitting' = IF remaining = 1 THEN Nobody ELSE a
  /\ arrived' = [arrived EXCEPT ![a] = @ + 1]
  /\ received' = received + 1
  /\ dropped' = Evict(a)
  /\ \E valid \in BOOLEAN :
       buffer' = [buffer EXCEPT ![a] = Push(@, [number |-> arrived[a] + 1, valid |-> valid])]
  /\ paused' = [paused EXCEPT ![a] = @ \/ IsFull(buffer'[a])]
  /\ draining' = [draining EXCEPT ![a] = TRUE]
  /\ UNCHANGED <<normalized, invalid, handed>>

LowWater == Capacity \div 2

\* How many points of a batch the normalizer accepts.
Accepted(batch) == Cardinality({k \in 1..Len(batch) : batch[k].valid})

\* The loop ends with its batch although points are left.
DrainsOnce(a) == FALSE

\* The loop goes on while the buffer is not empty.
DrainsOn(a) == buffer'[a].count > 0

\* The adapter is never resumed.
PausedForGood(a) == paused[a]

\* Paused until the buffer has drained to the low-water mark.
StaysPaused(a) == paused[a] /\ buffer'[a].count > LowWater

\* _drain, from its setImmediate: one batch is normalized and handed on, valid
\* points to onPoint and the others to onInvalid.
Drain(a) ==
  /\ emitting = Nobody /\ draining[a]
  /\ LET batch == Drained(buffer[a], BatchSize)
     IN  /\ handed' = [handed EXCEPT ![a] = @ \o batch]
         /\ normalized' = normalized + Accepted(batch)
         /\ invalid' = invalid + (Len(batch) - Accepted(batch))
  /\ buffer' = [buffer EXCEPT ![a] = AfterDrain(@, BatchSize)]
  /\ paused' = [paused EXCEPT ![a] = StaysPaused(a)]
  /\ draining' = [draining EXCEPT ![a] = DrainsOn(a)]
  /\ UNCHANGED <<emitting, remaining, received, dropped, arrived>>

Next == \E a \in Adapters : Emit(a) \/ Enqueue(a) \/ Drain(a)

Spec == Init /\ [][Next]_vars

\* A synchronous emit runs to its end, a setImmediate callback runs.
FairSpec == Spec /\ \A a \in Adapters : WF_vars(Enqueue(a)) /\ WF_vars(Drain(a))
-----------------------------------------------------------------------------
(* Properties.                                                             *)

\* Every variable stays in its type.
TypeOK ==
  /\ buffer \in [Adapters -> Rings]
  /\ paused \in [Adapters -> BOOLEAN] /\ draining \in [Adapters -> BOOLEAN]
  /\ emitting \in Adapters \cup {Nobody} /\ remaining \in 0..MaxBurst
  /\ received \in Nat /\ normalized \in Nat /\ invalid \in Nat /\ dropped \in Nat
  /\ arrived \in [Adapters -> 0..MaxArrivals]
  /\ handed \in [Adapters -> Seq(Points)]

\* The buffer holds the latest arrivals and nothing else: only the oldest are
\* ever lost, whatever the interleaving of bursts and drains.
HoldsTheLatest ==
  \A a \in Adapters : \A k \in 1..buffer[a].count :
    Contents(buffer[a])[k].number = arrived[a] - buffer[a].count + k

\* Backpressure ends: whenever points wait or the adapter is paused a drain is
\* scheduled.  Nothing else would ever take the points or resume the adapter,
\* which emits nothing while it is paused.
NoStall == \A a \in Adapters : buffer[a].count > 0 \/ paused[a] => draining[a]

\* What waits, each point by its adapter and its place in the buffer.
Places(rings) == {p \in Adapters \X (1..Capacity) : p[2] <= rings[p[1]].count}

Waiting == Cardinality(Places(buffer))

\* Every point the manager received is accounted for exactly once, over all
\* adapters.  Points a paused adapter drops at the transport are not received.
Accounted == received = normalized + invalid + dropped + Waiting

\* What each buffer holds, as a sequence.
Held == [a \in Adapters |-> Contents(buffer[a])]

Queues == INSTANCE LossyQueue WITH waiting <- Held

\* The ring buffers and the drain loops implement the lossy queues: points are
\* handed on in the order of their arrival, and only the oldest are lost.
ImplementsQueues == Queues!Spec

\* A paused adapter is resumed: backpressure is temporary.
BackpressureEnds == \A a \in Adapters : paused[a] ~> ~paused[a]
=============================================================================
