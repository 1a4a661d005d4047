# GridSync-OS: verification

TLA+ models of GridSync-OS, the gateway in `src/` that collects telemetry from
distributed energy devices, decides on protective commands, and delivers
commands through a write-ahead log. The modules are checked with TLC on small
instances; the safety of the command path, the dispatch, the control loop, the
log, the ingestion, the breaker, the registry and the accounts is also proved
with TLAPS for every value of their constants.

Paths such as `CommandQueue.js:57` are relative to `src/src/<directory>/`.

## 1. The system

One Node.js process, hence one thread: code runs without interruption from one
`await` to the next. Concurrency comes from coroutines interleaving at their
awaits (one `_handlePoint` per telemetry point, one per HTTP request, the
dispatcher's drain loop), from timers (retry backoff, compaction, staleness
sweep, polling), and from the disk and the brokers, which answer late or never.
The service manager may kill and restart the process at any time.

    adapters --data--> IngestionManager --onPoint--> _handlePoint
       ^                 (ring buffers)   onInvalid -> CircuitBreaker
       |                                                  |
       |     storage <--telemetry, alarm events--  _handlePoint --> StateMachine
       |        ^                                     |              AlarmEngine
       |        | command events                      | enqueue
       +-- CommandDispatcher <--ready-- CommandQueue <-+--- operators (API)

| component | state | operations | hard behaviour | what makes it correct |
|---|---|---|---|---|
| CommandQueue | `_records`, `_pendingOrder` | `enqueue`, `takeNextPending`, `mark*`, `requeueForRetry`, `recover` | yields while writing; failed writes; crash between write and memory | a live record is held once; nothing accepted is forgotten; nothing refused is sent |
| CommandDispatcher | `_pumping`, `_inFlight`, timers, `_stopped` | `_pump`, `_handleOne`, `_scheduleRetryWake`, `stop` | lost wakeups; a timer against the loop; a send that hangs; gates that are stale after an await | every command is decided; the budget holds over restarts |
| FileWalStorage | three promise chains, line counts, the files | appends, `_compactIdKeyedLog`, reads | a write cut short; a crash in a compaction; a rejected task in the chain | what was reported is read back; compaction is invisible |
| SqliteStorage | a database file | inserts, recovery, queries | rows and lines order the same records differently | the same answers |
| IngestionManager, RingBuffer | a buffer, `paused`, `draining` per adapter | `_enqueue`, `_drain` | bursts over the capacity; the loop ending as a point arrives | only the oldest are lost; nothing stalls; metrics add up |
| Normalizer | none | `normalize` | device time stamps | never coerces |
| CircuitBreaker | `_lastSeen`, `_errorTimestamps`, `_globalTripped` | `recordTelemetry`, `recordError`, `isOpen` | pruning only on errors; clocks of devices | trips and resets by the rate; a silent device is gated |
| StateMachine | mode per device (in the orchestrator) | `transition` | points out of order; state lost at restart | curtailed once, released once |
| AlarmEngine | active alarms | triggers, clears, acknowledgements | its events are written later, side by side | the log agrees with the engine |
| ConstraintValidator | none | `checkTelemetry`, `validateCommand` | boundaries | clamps into the limits |
| GridSyncOrchestrator | device states, latest points, routing | `_handlePoint`, `removeDevice`, `_sweepStaleness`, `start`, `stop` | handlers of a batch run together | a disk error does not stop control |
| DeviceRegistry, UserStore | a map, a JSON file, a write chain | register, update, status | memory changed before the write; file rewritten in place; `create-user.js` writes the same file | survives a restart |
| Adapters | connection, `paused` | connect, publish, poll | reconnects, giving up, late answers | give up at the limit; start goes on whatever the broker does |
| ApiServer, Router, Jwt, PasswordHasher | a socket | requests | parsing | delegate to the above |

`PROJECT.json` lists the components with what is modelled of each, and under
`hazards` the places where this code is hard to test, with the properties that
cover them.

## 2. The modules

| module | models | role |
|---|---|---|
| `CommandLedger` | the docblock of `CommandQueue.js` as a specification | abstract |
| `CommandDelivery` | `CommandQueue.js`, `CommandDispatcher.js`, start and shutdown | detailed |
| `MqttConnection` | `MqttAdapter.js` | detailed |
| `Dispatch` | the gates, the limits, the routing and the connection around the drain loop; `start`, `stop` | composition |
| `DurableLog` | what a `StorageAdapter` promises for commands and alarms | abstract |
| `FileWal` | `FileWalStorage.js`, one id-keyed log | detailed |
| `StorageBackends` | `FileWal` beside the tables of `SqliteStorage.js`, recovery and queries | composition |
| `LossyQueue` | what `IngestionManager` promises | abstract |
| `RingBuffer` | `RingBuffer.js` | operators |
| `Ingestion` | `IngestionManager.js` over `RingBuffer` | detailed |
| `CircuitBreaker` | `CircuitBreaker.js` | detailed |
| `ControlLoop` | `_handlePoint`, `StateMachine.js`, `AlarmEngine.js`, `checkTelemetry`, `removeDevice`, restart | composition |
| `DeviceRegistry` | `DeviceRegistry.js` and its file | detailed |
| `UserStore` | `UserStore.js`, the bootstrap of the administrator, `create-user.js` | detailed |
| `MC...` | the model values, inputs and clocks of each run | TLC |
| `CommandDeliveryProofs`, `DispatchProofs`, `ControlLoopProofs`, `FileWalProofs`, `IngestionProofs`, `CircuitBreakerProofs`, `DeviceRegistryProofs`, `UserStoreProofs` | theorems about the module each is named for, and `FileWalProofs` about `StorageBackends` | TLAPS |

Some modules define, directly before an operator, a faulty variant of it
(`RequeueAtOnce` before `OrderAfterFailure`, `CompactInPlace` before
`CompactSaves`, ...). No specification uses these: each is a plausible mistake
in the code, and with it in place of the operator TLC refutes the property
that `PROJECT.json` names under `mutants`. They show that the properties have
teeth.

### CommandDelivery

An action is what the process does between two awaits. The drain loop is one
coroutine, so its state is the command it works on (`owned`) and what it awaits
for it (`awaits`). `status`, `attempts` and `order` are `_records` and
`_pendingOrder`; `chain` holds the writes handed to the storage and not yet
settled, `walStatus`/`walAttempts` the last line per command on disk. A write
lands (`WriteLands`) before its promise resolves (`landed`), so a crash may hit
between the two. `emit('ready')` is synchronous: `Ready` and `Drain` run the
loop up to its next write within the action that emitted it.

What the registry, the breaker and the validator say when the loop asks is the
choice in `HandleOne`: the attempt is blocked, refused for good, or may be
sent. A send takes effect at the transport (`TransportTakes`) before it is
confirmed, and may fail after it took effect.

The next append may start before the coroutine that awaited the previous one
has resumed. The model lets the coroutine resume first; the difference is only
one of when the next record lands, which no other action looks at.

### Dispatch and MqttConnection

`CommandDelivery` leaves open what the gates say and how a send ends; here the
writes succeed and the gates are modelled. Each write is still an await, and
everything that changes a gate may come between: a point, the breaker, an
operator's `setStatus`, `removeDevice`, the connection. `Take` is `_handleOne` up
to its first write, with `validateCommand` (`Authorised`, `Shape`); `Dispatched`
is the code after that write, which looks up the adapter and does not ask the
gates again.

`MqttConnection` gives each listener an action. The client is a library: it
calls the listeners in any order while they are attached. `connecting` is the
promise of `connect()`, `client = "ending"` the wait of `disconnect()` for
`end(false)`. A publish that the client keeps while it is down is `publishing`.

The count of failures is meant to be of errors since the last connect. The ghost
`failed` counts those, and `GivesUpAtTheLimit` compares it with what the adapter
does.

A stop has two stages. `Stop` is `dispatcher.stop()`, after which no further
command is taken and `stop()` awaits the end of the API server and of the
adapters before this one; the operator's requests end with it, since the server
is closed in the same turn of the event loop. `Disconnects` is the call of
`disconnect()` of this adapter. In between the client is alive: an attempt whose
DISPATCHING record settles there is still handed to it.

A start recovers the unsettled commands in the order in which the storage lists
them. `FileWalStorage` lists them as they were created; the query of
`SqliteStorage.loadPendingCommands` has no ORDER BY, so a start may take them up
in any order (`Listings`). The ghost `listed` is the order of this process, and
`OvertakenOnlyAfterFailure` excepts a command that it put ahead of an older one.
To be sent in that order without a failed attempt takes three commands, since
the first one a start takes up always finds the device unheard and is refused:
the run, with two, does not come to it, and the theorem covers any number.

Four things this showed. `start()` always goes on, since the guard timer covers
the silence of the broker. `stop()` does not while a publish is unanswered when
the client is told to end: `end(false)` waits for it, which is at odds with
`index.js:28` ("no unbounded awaits"). That publish need not have been under way
when the stop began, as the first stage may add one; `StopEnds` therefore says
that a stop ends, or is at the disconnect with a publish unanswered. On
`SqliteStorage` a restart may turn CURTAIL and STANDBY around. And a refusal by
the validator is final only within the process: if its record is lost, the next
start asks again.

### FileWal, DurableLog and StorageBackends

The file is a sequence of lines and, if a write was cut short, a last piece
without a newline. `AppendLands` glues the next record to such a piece, as
`appendFile` does. Compaction is its four awaits: read, write of the temporary
file, rename, and the code after. The process may end between any two.

`CommandDelivery` rests on the interface `DurableLog` and not on a file.
`FileWal` implements it (`ImplementsLog`) as long as no write is cut short. With
writes cut short `LossIsBounded` says what remains: each costs at most one
record that was reported as written.

`StorageBackends` inserts every record that reaches the file into a table as well
and puts the same questions to both. `FileHistory` and `FileTelemetry` compute
what the file backend answers, step by step in the order of the code; SQL leaves
rows with the same `ts` in any order, so `MayAnswer` describes the answers the
table may give. The records of an id are told by their version, whose status is
the last when it is the last; the id stands for the device. `called` is the
clock when a record is handed over, `stamps` the `ts` the file holds.

They differ in three places, which `AnswersAgree` excepts by name: after a write
cut short; for records written for a recovered command, whose `ts` the file
backend takes from the recovered record and SQLite gets anew (`NoneContinued`);
and for telemetry asked for with a limit between 0 and 1, which is floored to
zero and makes `slice(-0)` return everything. The order in which a recovery
lists the commands is that of the file for one and unspecified for the other
(`Dispatch` says what follows from it). The limits of the run are none, one
half, one, and one above the maximum.

A process end loses memory and not what the operating system has taken: there
is no `fsync` in the code, so a loss of power is outside of what it, and the
model, promise.

### Ingestion

`buffer`, `paused`, `draining` are the fields of the adapter's entry. A poll
cycle emits for every device without yielding: `emitting`/`remaining` hold what
it has still to emit, and everything else waits. `Drain` is one `setImmediate`
callback. `onPoint` is asynchronous and its rejections are caught, so `_processOne`
counts as invalid exactly what `normalize` rejects.

### CircuitBreaker

Time is counted in ticks and never runs backwards. `recordTelemetry` takes a
time stamp that may be the device's own, ahead of the clock by up to
`MaxLead` or behind it by up to `MaxLag`. The ghost `recorded` is every error of
the run; `sinceReset` counts those since the last reset.

### ControlLoop

A handler is represented by the one write it awaits, which carries what it does
next: its point in `telemetryChain`, an alarm event with the remaining events
and commands in `alarmChain`, a command in `commandChain`. Each chain settles in
order (they are the promise chains of the storage), the chains among each
other in any order. `PointSettles` is the synchronous middle of `_handlePoint`:
transition, evaluation of alarms, first write. A reading is low, in range or
high in each metric, or lacks it; the age of a device in a sweep is below both
limits, between them or above both.

`removeDevice` changes the status at once (`RemoveDevice`) and deletes the state
when the write of the registry has settled (`RemovalSettles`), which may be
while a handler of the device is under way. The ghosts `accepted` and `earlier`
delimit the life of the present entry of `_deviceStates`, so that the
properties about it remain true statements over a removal.

`Restart` loses what lives in memory: the modes, the active alarms and every
handler at its await. The log keeps what was written. `tracked` says which devices
have a point in this process, as a sweep goes by it; `entered` is the order in
which commands entered the queue. CURTAIL and STANDBY can enter in the wrong
order, and `OvertakesByFewerAlarms` says exactly when: if the later point led to
fewer alarm events.

### DeviceRegistry and UserStore

Both keep a JSON file that `fsp.writeFile` truncates and writes in place, on a
promise chain of their own. `file` is what a reader finds: nothing, an empty
file, a fragment, or the whole text, which `stored` (or `accounts`) stands for.
`WriteOpens`, `WriteProceeds` and `WriteLands` are the stages of a write; a kill
or a failure may come after each. The last of them includes the resolution
of the promise: nobody is told between the two, so a kill there is a kill before
the answer with the record on disk, which a later restart may see and no property
forbids.

The registry changes its map first and queues the text of that moment, so a
failed write leaves memory ahead of the file and the next one mends it. The user
store keeps nothing in memory: a task reads the list, alters it and writes it
back, and a file left empty by a failure is read as a list without accounts by
the next task. That, and a start from an empty file, is the one way in which
what was reported is lost within a process; `answered`, `told` and `reported` are
reset there, so that the properties say what holds up to it and again after it. A
registry that finds a fragment does not start; the user store finds it when the
bootstrap counts the accounts, and the process exits (`CountFails`), as it does
when the write of `init()` fails (`InitFails`).

`init()` of the user store looks for the file and writes `'[]'` when there is
none. Its two awaits are two steps, in either process: `Start` and `ScriptStarts`
look for the file, and what they found decides whether `WriteNil` is ahead of
everything else in their line of tasks; it is a write like the others, of a list
without accounts that was settled on before. Any error of `access()` counts as an
absent file in the code; here only absence does.

`create-user.js` is a second process on the file: `script` holds its tasks, the
write of `init()` if there is one and a creation, which take the same steps as
those of the gateway and wait for nobody. When both have lists in hand at once
the later write undoes the earlier, and an `init()` that found no file empties
the one the other process has made since, with the accounts already reported. The
ghost `overlapped` says that both were at it, and `NoAccountForgotten` holds up
to then. Names stay unique even so.
A creation of a taken name is refused with a `ValidationError`, which
`_enqueueWrite` passes on as a `StorageError` (`UserStore.js:49`).

`Stop` is the point at which the API server has closed: operators have no more
requests, while the points in the ring buffers are still handled and may
register devices. `Close` counts the writes it waits for (`toFlush`). The process
may exit while a later one is in the file.

## 3. The runs

| run | question | bounds |
|---|---|---|
| `Delivery` | safety of the command path, that it implements the ledger, and is every command decided? | 2 commands, budget 2, 2 process ends, 1 failed status write |
| `DeliveryHung` | is a command decided although another's adapter hangs? **No** | 2 commands, no crash |
| `Dispatch` | what reaches a device whose gate has closed, and in what order? does it give up at the limit? do start and stop go on? | 2 commands, budget 2, 1 process end, 2 errors or changes, giving up at 2 |
| `FileWal` | what can the log lose, what does compaction change, does it implement the durable log, does it answer as the tables do, and does every append settle? | 2 ids, 2 records each, threshold 3, 1 end, 2 cuts, 1 failure, 4 clocks, 6 filters, 4 limits |
| `FileWalTorn` | is a corrupt line isolated? **No** | 1 cut |
| `Ingestion` | order, loss, accounting, progress | 2 adapters, capacity 3, batch 2, bursts of 3, 5 points each |
| `Breaker` | does the breaker follow the rate, without flapping, and distrust silence? | threshold 2, window 2 ticks, 7 errors, 8 ticks, clocks off by 1 |
| `BreakerReset` | does it reset when errors stop? **No** | the same |
| `Control` | order, effects, isolation of failed writes, log against engine, over a restart | 1 device, 3 points of 3 kinds, 1 failure, 1 sweep, 1 restart or request |
| `AlarmOrder` | does the alarm history end right? **No** | 3 points, no failure |
| `Registry` | does what was answered hold, and does a stop end? | 2 devices, 4 changes, 1 failed write, 2 ends |
| `Accounts` | are accounts kept, and their names unique? | 2 names, 5 calls of which the script may make any creation, 1 failure, 2 ends |

Why the bounds are enough. In `Delivery` two commands are what it takes for one
to arrive while the loop is busy with the other, a budget of two separates a
retry from the last attempt, and two process ends allow a restart in the middle
of a retry and another after the recovery. In `Dispatch` the second command is
the one that could slip through after the first, two changes close a gate and
break the connection, or reach the limit of failures, and the one end is a kill
or a stop with a start after it. In `FileWal` two records per id and a threshold
of three make compactions run in the middle of appends, the second cut may hit
the piece the first one left, and the clocks stand still, run, and are set back
between records, so that the order of lines and of time stamps differ. In
`Ingestion` a burst as long as the buffer overflows it, a full buffer takes two
batches, and the head wraps around with and without eviction. In `Breaker`
eight ticks suffice for a trip, a reset and a second trip. In `Control` three
points give CURTAIL, STANDBY and CURTAIL again, with alarms of two types left
from one point to the next. One device is enough since devices share nothing but
the order of the chains, which one device's handlers already exercise. In
`Registry` two devices make a write on behalf of one carry the record of the
other, and four changes allow a removal, a failed write, a restart and a change
after it. In `Accounts` five calls are the bootstrap, two creations of one name
side by side, a disabling, and a creation after it.

Symmetry is used in safety runs only, over the ids of `FileWalTorn`, which are
interchangeable there. Deadlock is not checked: a bounded run ends when its
commands, points, records or calls are used up, a process may stay down, and a
gateway whose registry is a fragment does not start.

### What the violations show

* `DeliveryHung`: `sendCommand` has no timeout and the loop is the only one.
* `FileWalTorn`: an append after a cut is glued to the fragment and lost with it,
  although its promise resolved.
* `BreakerReset`: only an error prunes the window; once errors stop, nothing
  resets the breaker and every command stays blocked.
* `AlarmOrder`: handlers side by side write CLEARED before ACTIVE; the latest
  line wins, and the history shows an alarm that is over.

### Fairness

`Delivery` assumes what the event loop and the storage guarantee: a write
that was started settles, a timer fires, a stopped process exits and the service
manager starts it again. It also assumes of each adapter that a send ends, one
way or the other, which the simulated adapters do and MQTT does while the
broker answers; without it the property fails, and `DeliveryHung` is that
failure. No fairness makes a send succeed. Two exceptions are part of the
property: a crash before `enqueue` answered, and a start that could not read
the log.

`Dispatch` assumes that the guard timer fires, that an ended client calls back
once no publish is outstanding, and that `start()` and `stop()` go on after what
they await. What `stop()` awaits before it comes to the disconnect are the end of
the API server, which closes its connections by force, and the disconnects of the
adapters before this one (`WF_dvars(Disconnects)`): those of the simulated ones do
nothing, and one of MQTT that waits for its own broker is the same case once more.
No broker of this adapter has to answer. `FileWal` assumes that file operations
complete. `Ingestion` assumes that a synchronous emit runs to its end and that a
`setImmediate` callback runs; not that points arrive. `Registry` assumes that a
write of the file settles and that `stop()` goes on after what it awaits.

## 4. The proofs

Each theorem holds for every value of the constants that satisfies the module's
assumptions, which say no more than that markers differ from values, sets are
finite and sizes are numbers. None of the properties is inductive; each proof
module defines the strengthening `IInv` (`ControlLoopProofs` one for each
property), proves that `Init` implies it and every step preserves it, and derives
the properties from it.

| module | theorems | what `IInv` adds |
|---|---|---|
| `CommandDeliveryProofs` | `TypeCorrect`, `RecordsAreHeldOnce`, `WakeupsAreKept`, `LogIsAhead`, `RefusalIsTrue`, `DuplicatesAreBounded`, `SettlementIsFinal`, `LedgerIsImplemented` | see below |
| `DispatchProofs` | `AtMostOne`, `GivingUp`, `TypeCorrect`, `RefusalFinal`, `Overtaking` | the record of a dispatch is awaited only while nothing has slipped through; the adapter's count is that of the failures since the last connect, and only a live client is listened to; for the last three, see below |
| `ControlLoopProofs` | `TypeCorrect`, `ArrivalOrder`, `OnceEach`, `LogFollows`, `CommandsKept`, `OvertakesFewer` | see below |
| `FileWalProofs` | `TypeCorrect`, `LossesAreBounded`, `CountIsKept`, `CompactionIsHidden`, `LogIsImplemented`, `BackendsAgree` | see below |
| `IngestionProofs` | `TypeCorrect`, `OnlyTheOldestAreLost`, `NothingStalls`, `NothingUncounted`, `QueuesAreImplemented` | a paused adapter emits nothing beyond its burst; the points in a buffer end with the last arrival |
| `CircuitBreakerProofs` | `GateMeansHeard`, `RateIsMeasured`, `NoFlapping` | the history is in the order of the clock; the list is exactly the end of it that lay in the window of the last error; the errors since a reset bound the list |
| `DeviceRegistryProofs` | `TypeCorrect`, `AnswersAreKept`, `RemovalIsKept`, `QuietIsSaved` | the texts in the chain grow, and lie between what was answered and what memory holds |
| `UserStoreProofs` | `TypeCorrect`, `AccountsAreKept`, `NamesStayUnique` | a list in hand, that of `init()` included, covers what was reported, unless both processes have one; an id stands for one name; creations are of fresh ids |

`CommandDeliveryProofs`. The invariant adds to the properties

* `Held`: the order, the timers and the loop exclude one another, and the status
  of the owned record is the one the loop awaits;
* `Chained`: the write chain holds CREATED writes of waiting callers and at most
  one write of the loop, so no two writes of one command are under way;
* `Logged`: the disk differs from memory by at most the landed write at the head
  of the chain, which is what makes a crash harmless at that point;
* `Paid`: every delivery is paid for by an attempt counted on disk, by a process
  end or failed write, or by the attempt in flight;
* `Attended`: unless stopped, a pending record has a holder and a waiting one
  has a running loop;
* `Down`: a process that is down has no memory.

It is written over explicit arguments because the loop starts from values
no state holds (the records after an enqueue, before the loop has taken one).
Each helper that ends an action (`AwaitWrite`, `Drain`, `Ready`, `NextTurn`) has
one lemma, which the lemmas of the actions use. The two action properties
(`SettlementIsFinal`, `LedgerIsImplemented`) follow from `IInv` and a case
analysis of what a step does to the disk.

`DispatchProofs`. `RefusalFinal` and `Overtaking` are about one life of the
process, and rest on a second invariant, `Typed /\ Standing`. `Typed` gives the
types of the connection, of the command at work and of what is around them.
`Standing` is about the line of commands, the one in the loop before those of
the order: each command is created once; the line and the timers hold only open
ones; one that has not been tried yet is in the line, with nothing younger ahead
of it but what the recovery listed so; and what the validator refused is failed
or about to be. The line a start takes up satisfies the same, whatever its order,
as it lists each open command once and is remembered in `listed`. In the theorem of types, that no value handed to the
client exceeds its limit comes from `Shape`, for every request and state of
charge.

`ControlLoopProofs`. `Types` is inductive by itself: the types of the engine, the
chains, the log and the rest, the histories the ghosts record, and `Room`, that
the numbers of alarms and effects cannot exceed the points and sweeps that cause
them. Each
property then has a part of its own that is inductive together with `Types`:

* `Arrival`: the readings accepted from a device are those its mode is the result
  of, followed by those that still wait in the telemetry chain;
* `Alternation`: since the present entry of the device was made, effects
  alternate, and the mode tells which was last;
* `Follows`: no event in flight or in the log is ahead of the engine: of an alarm
  that is active now none says CLEARED, nor ACKNOWLEDGED unless it was;
* `Counted`: every command proposed has entered the queue, was refused, or is on
  its way in a coroutine of the alarm or command chain;
* `Order`: a coroutine that carries an older command and raised no more alarms
  than another has fewer events left, or as many and stands before it in the
  chain; so it can be overtaken only by one with fewer alarms, and the same
  holds of what has entered the queue.

`FileWalProofs`. `InOrder` says that the records of an id are in the chain in the
order of their numbers, none of them reported; `Staged`, what each phase of a
compaction or append has left behind; `Counted`, that the count is that of the
whole lines, or one more from a start that counted a last piece; `Bounded`, that
the ids whose reported record is not in the lines, and what may be lost next,
together are no more than the cuts. What may be lost next (`Owed`) is the record
that follows an unfinished piece, and the one that has just been written onto
one. `LogIsImplemented` maps the file to `DurableLog`: its content is the latest
record of each id among the pieces, its outstanding writes are the records of
the chain (`Writes`), of which the first has taken effect when it has landed.
Without cuts the file ends with a newline (`WholeLines`), so a landed append
changes the latest record of its id and no other, and no step of a compaction
changes any. `StatesFacts` carries the compaction: the latest states of a log,
taken as a log, have the same latest states in the same order.

`BackendsAgree` is about `StorageBackends`, which adds the tables. `Tabled` says
that the rows of an id are in the order of their numbers and precede what is
still to be written of it, and that without a cut their latest are what is read
from the file; it is kept by every step together with `IInv`. The rest is about
queries. `Arranged` gives the place of each record by counting those before it;
`Placed` shows that such places are the numbers up to the size of the set, so that
an answer lists what the filters keep once each and in order (`Arranges`), and
what a limit leaves of it is an answer of the table (`Answered`). Filters and
limits are arbitrary; the three exceptions are those of `AnswersAgree`. The other theorems are about `FileWal!Spec`, which
`StorageBackends` implements (`FileAsBefore`), as no action of the file looks at
the tables.

`IngestionProofs` rests on `PushFacts` and `DrainFacts`, which prove of the ring
buffer, with its wrapping index, what it means for its contents as a sequence;
everything else reasons about sequences. The points that wait are a set of places
in the buffers (`Places`), so that `NothingUncounted` follows from what a push,
an eviction and a batch add to and take from that set.

Inductions over positions are stated over sets, since the installed provers
cannot instantiate a theorem that takes a predicate. In `CircuitBreakerProofs`
the lemma `UpwardClosed` says that a set of positions that is closed upwards is an
interval, of the length of its cardinality. In the others the lemma `Steps` says
that a set that holds 0, and with each number the next, holds all up to a bound;
it follows from the least number outside. It is what lets the proofs speak of the
recursive functions `Writes` and the mode that readings lead to.

Some theorems state what no run lists as a property: `RefusalIsTrue` (a refused
command is never recorded or sent), `OnlyTheOldestAreLost` (a buffer holds the
latest arrivals in order), and `TypeCorrect` of `FileWalProofs`,
`IngestionProofs`, `DeviceRegistryProofs` and `UserStoreProofs`.

Every invariant and action property of the passing runs is thus proved. Only
liveness (`EventuallyDecided`, `StartGoesOn`, `StopEnds`, `EveryAppendSettles`,
`BackpressureEnds`) is model-checked alone, as the prover does not handle it with
its fairness.

## 5. Not modelled

* Which fields a payload needs (`Normalizer`): a check of each field with no state.
* The readings the Modbus and DNP3 adapters simulate, and their connections, which
  do nothing.
* HTTP, routing, tokens, passwords, logging, and the checks of the configuration.
* A loss of power: nothing is synced, so nothing is promised.
* A file system on which `init` cannot create the files: the process exits.
* The handlers of uncaught exceptions and unhandled rejections: the first begins
  the same stop as a signal, the second logs.
* What only reads: listings, snapshots and metrics of the dashboard. The queries of
  the storage are modelled.
* `consecutiveViolations`, severities and messages of alarms.

## 6. What would come next

1. `Dispatch` with failing writes: the gates over the log of `CommandDelivery`,
   as one composition. Its state space is out of reach of a run of minutes with
   two commands, so it would be a refinement between the two.
2. `Control` with two devices, when the alarm chain they share is the question.
