-------------------------- MODULE CommandDelivery --------------------------
(***************************************************************************)
(* CommandQueue and CommandDispatcher over a durable log, across crashes.  *)
(*                                                                         *)
(* The process is one JavaScript thread.  An action is what runs between   *)
(* two awaits: it starts when a write, a send or a timer completes and     *)
(* ends when every coroutine it woke is awaiting again.  In particular     *)
(* emit('ready') runs the dispatcher's drain loop synchronously, up to the *)
(* first write of the first command it takes.                              *)
(*                                                                         *)
(* The drain loop is the only coroutine of the dispatcher (_pumping), so   *)
(* its local state is one command and what it awaits for it.               *)
(***************************************************************************)
EXTENDS Naturals, Sequences, FiniteSets

CONSTANTS
  Commands,        \* command ids (UUIDs), each enqueued at most once
  NoCmd,           \* the drain loop holds no command
  MaxAttempts,     \* config.commandQueue.maxAttempts
  MaxCrashes,      \* bound: how often the process may end, by crash or exit
  MaxLostWrites    \* bound: how many status writes may fail

ASSUME CommandsAssumption == NoCmd \notin Commands /\ IsFiniteSet(Commands)
ASSUME AttemptsAssumption == MaxAttempts \in Nat \ {0}
ASSUME BoundsAssumption == MaxCrashes \in Nat /\ MaxLostWrites \in Nat

VARIABLES
  up,           \* the process is running and has started its dispatcher
  stopped,      \* the dispatcher's _stopped
  blind,        \* recover() of this run could not read the log
  status,       \* the status field of the _records entry, "ABSENT" without one
  attempts,     \* its attempts field
  order,        \* _pendingOrder
  owned,        \* the command _handleOne works on: _pumping and _inFlight
  awaits,       \* what it awaits: the status write, or the send, of that name
  timers,       \* number of backoff timers armed per command
  chain,        \* writes handed to the storage and not settled, oldest first
  landed,       \* the oldest of them is on disk, its promise not yet resolved
  walStatus,    \* the status in the last line of each command, "NONE" if none
  walAttempts,  \* the attempts in that line
  caller,       \* where the caller of enqueue() stands with each command
  deliveries,   \* ghost: how often a transport took the command
  crashes,      \* ghost: process ends so far
  lostWrites    \* ghost: failed status writes so far

memory == <<stopped, blind, status, attempts, order, owned, awaits, timers,
            chain, landed>>
disk   == <<walStatus, walAttempts>>
ghosts == <<deliveries, crashes, lostWrites>>
vars   == <<up, memory, disk, caller, ghosts>>

Terminal == {"ACKED", "FAILED"}
Unsettled == {"PENDING", "DISPATCHING"}
WriteEvents == {"DISPATCHING", "ACKED", "FAILED", "RETRY_SCHEDULED"}
Writes == [cmd : Commands, event : WriteEvents \cup {"CREATED"},
           attempts : 0..MaxAttempts]

Write(c, event, n) == [cmd |-> c, event |-> event, attempts |-> n]

\* The status field of the record a write carries.
StatusOf(event) ==
  IF event \in {"CREATED", "RETRY_SCHEDULED"} THEN "PENDING" ELSE event

Init ==
  /\ up = TRUE /\ stopped = FALSE /\ blind = FALSE
  /\ status = [c \in Commands |-> "ABSENT"]
  /\ attempts = [c \in Commands |-> 0]
  /\ order = <<>> /\ owned = NoCmd /\ awaits = "NOTHING"
  /\ timers = [c \in Commands |-> 0]
  /\ chain = <<>> /\ landed = FALSE
  /\ walStatus = [c \in Commands |-> "NONE"]
  /\ walAttempts = [c \in Commands |-> 0]
  /\ caller = [c \in Commands |-> "unborn"]
  /\ deliveries = [c \in Commands |-> 0]
  /\ crashes = 0 /\ lostWrites = 0

-----------------------------------------------------------------------------
(* The drain loop.  st, att, ord and q are the records, the pending order  *)
(* and the write chain as the code before it in the same turn left them.   *)

\* The loop has nothing to do, or was told to stop: _pumping is released.
Idle(st, att, ord, q) ==
  /\ status' = st /\ attempts' = att /\ order' = ord /\ chain' = q
  /\ owned' = NoCmd /\ awaits' = "NOTHING"

\* _handleOne awaits the write of c's record with its new status.
AwaitWrite(c, event, n, st, att, ord, q) ==
  /\ status' = [st EXCEPT ![c] = StatusOf(event)]
  /\ attempts' = [att EXCEPT ![c] = n]
  /\ order' = ord
  /\ chain' = Append(q, Write(c, event, n))
  /\ owned' = c /\ awaits' = event

\* Off by one: the budget is compared after it is already overspent.
ExhaustedLate(n, max) == n > max

Exhausted(n, max) == n >= max

\* markFailedAttempt, up to its write.
FailAttempt(c, max, st, att, ord, q) ==
  LET n == att[c] + 1
  IN  AwaitWrite(c, IF Exhausted(n, max) THEN "FAILED" ELSE "RETRY_SCHEDULED",
                 n, st, att, ord, q)

\* _handleOne up to its first await: the registry or the breaker blocks the
\* attempt, the validator refuses the command for good, or it may be sent.
HandleOne(c, st, att, ord, q) ==
  \/ FailAttempt(c, MaxAttempts, st, att, ord, q)
  \/ FailAttempt(c, 1, st, att, ord, q)
  \/ AwaitWrite(c, "DISPATCHING", att[c], st, att, ord, q)

\* takeNextPending: the first entry whose record is PENDING, dropping those
\* before it.
Drain(st, att, ord, q) ==
  LET eligible == {i \in 1..Len(ord) : st[ord[i]] = "PENDING"}
  IN  \/ /\ eligible = {}
         /\ Idle(st, att, <<>>, q)
      \/ \E i \in eligible :
           /\ \A j \in eligible : i <= j
           /\ HandleOne(ord[i], st, att, SubSeq(ord, i + 1, Len(ord)), q)

\* A missed wakeup: the loop ends after every command.
OneAtATime(st, att, ord, q) == Idle(st, att, ord, q)

\* The end of a turn of the drain loop.
NextTurn(st, att, ord, q) ==
  IF stopped THEN Idle(st, att, ord, q) ELSE Drain(st, att, ord, q)

\* The listener of 'ready': _pump returns at once when it is already running.
Ready(st, att, ord, q) ==
  IF owned # NoCmd \/ stopped
  THEN /\ status' = st /\ attempts' = att /\ order' = ord /\ chain' = q
       /\ UNCHANGED <<owned, awaits>>
  ELSE Drain(st, att, ord, q)

-----------------------------------------------------------------------------
(* The storage: writes reach the disk one after the other.                 *)

WriteLands ==
  /\ up /\ chain # <<>> /\ ~landed
  /\ landed' = TRUE
  /\ LET w == Head(chain)
     IN  /\ walStatus' = [walStatus EXCEPT ![w.cmd] = StatusOf(w.event)]
         /\ walAttempts' = [walAttempts EXCEPT ![w.cmd] = w.attempts]
  /\ UNCHANGED <<up, stopped, blind, status, attempts, order, owned, awaits,
                 timers, chain, caller, ghosts>>

-----------------------------------------------------------------------------
(* enqueue().                                                              *)

Enqueue(c) ==
  /\ up /\ caller[c] = "unborn"
  /\ caller' = [caller EXCEPT ![c] = "creating"]
  /\ chain' = Append(chain, Write(c, "CREATED", 0))
  /\ UNCHANGED <<up, stopped, blind, status, attempts, order, owned, awaits,
                 timers, landed, disk, ghosts>>

\* The write succeeded: the record enters the queue, 'ready' is emitted, and
\* only then does enqueue() resolve.
Accept(c) ==
  /\ caller' = [caller EXCEPT ![c] = "accepted"]
  /\ Ready([status EXCEPT ![c] = "PENDING"], [attempts EXCEPT ![c] = 0],
           Append(order, c), Tail(chain))

\* The record enters the queue before its write and is not taken out again.
RefuseButQueue(c) ==
  /\ caller' = [caller EXCEPT ![c] = "refused"]
  /\ Ready([status EXCEPT ![c] = "PENDING"], [attempts EXCEPT ![c] = 0],
           Append(order, c), Tail(chain))

\* The write failed: enqueue() throws and nothing is queued.
Refuse(c) ==
  /\ caller' = [caller EXCEPT ![c] = "refused"]
  /\ chain' = Tail(chain)
  /\ UNCHANGED <<status, attempts, order, owned, awaits>>

CreatedSettles ==
  /\ up /\ chain # <<>> /\ Head(chain).event = "CREATED"
  /\ landed' = FALSE
  /\ IF landed THEN Accept(Head(chain).cmd) ELSE Refuse(Head(chain).cmd)
  /\ UNCHANGED <<up, stopped, blind, timers, disk, ghosts>>

-----------------------------------------------------------------------------
(* The drain loop goes on when the status write it awaits has settled.  A  *)
(* failed one is logged and otherwise treated like one that landed.        *)

\* The write settled: what is left of the chain, and the failures counted.
StatusWriteSettles(event) ==
  /\ up /\ chain # <<>> /\ awaits = event /\ Head(chain).event = event
  /\ \/ landed /\ lostWrites' = lostWrites
     \/ ~landed /\ lostWrites < MaxLostWrites /\ lostWrites' = lostWrites + 1
  /\ landed' = FALSE
  /\ UNCHANGED <<up, stopped, blind, disk, caller, deliveries, crashes>>

\* markDispatching returned: an adapter is found and the send begins.
BeginSend ==
  /\ StatusWriteSettles("DISPATCHING")
  /\ awaits' = "SENDING"
  /\ chain' = Tail(chain)
  /\ UNCHANGED <<status, attempts, order, owned, timers>>

\* No adapter has reported for the device (since this start): the attempt
\* fails.
NoRoute ==
  /\ StatusWriteSettles("DISPATCHING")
  /\ FailAttempt(owned, MaxAttempts, status, attempts, order, Tail(chain))
  /\ UNCHANGED timers

Forget(c) == [status EXCEPT ![c] = "ABSENT"]

\* markAcked, or markFailedAttempt with the budget spent, deletes the record.
Settle ==
  /\ \/ StatusWriteSettles("ACKED")
     \/ StatusWriteSettles("FAILED")
  /\ NextTurn(Forget(owned), [attempts EXCEPT ![owned] = 0], order, Tail(chain))
  /\ UNCHANGED timers

\* The earlier form of markFailedAttempt: back into the order at once.
RequeueAtOnce == Append(order, owned)

\* What markFailedAttempt leaves in the pending order of a retried command.
OrderAfterFailure == order

\* _scheduleRetryWake arms the backoff timer unless the dispatcher stopped.
ScheduleRetry ==
  /\ StatusWriteSettles("RETRY_SCHEDULED")
  /\ timers' = IF stopped THEN timers ELSE [timers EXCEPT ![owned] = @ + 1]
  /\ NextTurn(status, attempts, OrderAfterFailure, Tail(chain))

-----------------------------------------------------------------------------
(* adapter.sendCommand(): external, it ends in success or in an error, and *)
(* an error does not mean that nothing was delivered.                      *)

TransportTakes ==
  /\ up /\ awaits = "SENDING"
  /\ awaits' = "ARRIVED"
  /\ deliveries' = [deliveries EXCEPT ![owned] = @ + 1]
  /\ UNCHANGED <<up, stopped, blind, status, attempts, order, owned, timers,
                 chain, landed, disk, caller, crashes, lostWrites>>

SendSucceeds ==
  /\ up /\ awaits = "ARRIVED"
  /\ AwaitWrite(owned, "ACKED", attempts[owned], status, attempts, order, chain)
  /\ UNCHANGED <<up, stopped, blind, timers, landed, disk, caller, ghosts>>

\* An error taken for a success: the command is acknowledged.
SendErrorIgnored ==
  /\ up /\ awaits \in {"SENDING", "ARRIVED"}
  /\ AwaitWrite(owned, "ACKED", attempts[owned], status, attempts, order, chain)
  /\ UNCHANGED <<up, stopped, blind, timers, landed, disk, caller, ghosts>>

SendFails ==
  /\ up /\ awaits \in {"SENDING", "ARRIVED"}
  /\ FailAttempt(owned, MaxAttempts, status, attempts, order, chain)
  /\ UNCHANGED <<up, stopped, blind, timers, landed, disk, caller, ghosts>>

-----------------------------------------------------------------------------
(* Backoff timers.                                                         *)

\* requeueForRetry: no guard but the record being there and PENDING.
Requeue(c) ==
  IF status[c] = "PENDING"
  THEN Ready(status, attempts, Append(order, c), chain)
  ELSE UNCHANGED <<status, attempts, order, owned, awaits, chain>>

\* The timer wakes the dispatcher without putting the command back.
WakeOnly(c) ==
  /\ up /\ timers[c] > 0
  /\ timers' = [timers EXCEPT ![c] = @ - 1]
  /\ Ready(status, attempts, order, chain)
  /\ UNCHANGED <<up, stopped, blind, landed, disk, caller, ghosts>>

TimerFires(c) ==
  /\ up /\ timers[c] > 0
  /\ timers' = [timers EXCEPT ![c] = @ - 1]
  /\ Requeue(c)
  /\ UNCHANGED <<up, stopped, blind, landed, disk, caller, ghosts>>

-----------------------------------------------------------------------------
(* Stop, the end of the process, and the next start.                       *)

\* dispatcher.stop(), the first step of a graceful shutdown.
Stop ==
  /\ up /\ ~stopped /\ crashes < MaxCrashes
  /\ stopped' = TRUE
  /\ timers' = [c \in Commands |-> 0]
  /\ UNCHANGED <<up, blind, status, attempts, order, owned, awaits, chain,
                 landed, disk, caller, ghosts>>

\* The memory of the process is gone.  A caller whose enqueue() had not
\* resolved never learns what became of its command.
ProcessEnds ==
  /\ up' = FALSE /\ stopped' = FALSE /\ blind' = FALSE
  /\ status' = [c \in Commands |-> "ABSENT"]
  /\ attempts' = [c \in Commands |-> 0]
  /\ order' = <<>> /\ owned' = NoCmd /\ awaits' = "NOTHING"
  /\ timers' = [c \in Commands |-> 0]
  /\ chain' = <<>> /\ landed' = FALSE
  /\ caller' = [c \in Commands |->
                  IF caller[c] = "creating" THEN "unknown" ELSE caller[c]]
  /\ crashes' = crashes + 1
  /\ UNCHANGED <<disk, deliveries, lostWrites>>

Crash == up /\ crashes < MaxCrashes /\ ProcessEnds

\* process.exit() after stop(): storage.close() has waited for the writes it
\* knew of, nothing waits for the drain loop.
Exit == up /\ stopped /\ crashes < MaxCrashes /\ chain = <<>> /\ ProcessEnds

\* The status a terminal record must not have to be loaded.
LoadsFailedToo(c) == walStatus[c] \in Unsettled \cup {"FAILED"}

Loads(c) == walStatus[c] \in Unsettled

\* The orders in which loadPendingCommands may list a set of records: the
\* StorageAdapter interface promises none.
Listings(S) ==
  {s \in [1..Cardinality(S) -> S] :
     /\ \A i, j \in 1..Cardinality(S) : s[i] = s[j] => i = j
     /\ \A c \in S : \E i \in 1..Cardinality(S) : s[i] = c}

\* Attempts forgotten by a restart: the retry budget starts afresh.
FreshBudget(c) == 0

RecoveredAttempts(c) == walAttempts[c]

\* init, recover() and dispatcher.start(): every unsettled record re-enters
\* as PENDING with the attempts it had, and the drain loop starts.
Restart ==
  /\ ~up
  /\ up' = TRUE
  /\ LET pending == {c \in Commands : Loads(c)}
     IN  \E ord \in Listings(pending) :
           Drain([c \in Commands |-> IF c \in pending THEN "PENDING" ELSE "ABSENT"],
                 [c \in Commands |-> IF c \in pending THEN RecoveredAttempts(c) ELSE 0],
                 ord, <<>>)
  /\ UNCHANGED <<stopped, blind, timers, landed, disk, caller, ghosts>>

\* loadPendingCommands failed: the run goes on with an empty queue.
RestartBlind ==
  /\ ~up
  /\ up' = TRUE /\ blind' = TRUE
  /\ UNCHANGED <<stopped, status, attempts, order, owned, awaits, timers, chain,
                 landed, disk, caller, ghosts>>

-----------------------------------------------------------------------------
Next ==
  \/ \E c \in Commands : Enqueue(c) \/ TimerFires(c)
  \/ WriteLands \/ CreatedSettles
  \/ BeginSend \/ NoRoute \/ Settle \/ ScheduleRetry
  \/ TransportTakes \/ SendSucceeds \/ SendFails
  \/ Stop \/ Crash \/ Exit \/ Restart \/ RestartBlind

Spec == Init /\ [][Next]_vars

\* What the event loop and the storage guarantee: writes settle, timers fire,
\* a stopped process exits and the service manager starts it again.
LoopFairness ==
  /\ WF_vars(WriteLands \/ CreatedSettles)
  /\ WF_vars(BeginSend \/ NoRoute \/ Settle \/ ScheduleRetry)
  /\ \A c \in Commands : WF_vars(TimerFires(c))
  /\ WF_vars(Exit) /\ WF_vars(Restart \/ RestartBlind)

\* What an adapter that always answers adds.
SendEnds(c) == owned = c /\ (SendSucceeds \/ SendFails)

FairSpec == Spec /\ LoopFairness /\ \A c \in Commands : WF_vars(SendEnds(c))
-----------------------------------------------------------------------------
(* Properties.                                                             *)

\* Every variable stays in its type; in particular no attempt count ever
\* exceeds maxAttempts, in memory or on disk, over any number of restarts.
TypeOK ==
  /\ up \in BOOLEAN /\ stopped \in BOOLEAN /\ blind \in BOOLEAN
  /\ status \in [Commands -> {"ABSENT"} \cup Unsettled \cup Terminal]
  /\ attempts \in [Commands -> 0..MaxAttempts]
  /\ order \in Seq(Commands)
  /\ owned \in Commands \cup {NoCmd}
  /\ awaits \in {"NOTHING", "SENDING", "ARRIVED"} \cup WriteEvents
  /\ timers \in [Commands -> Nat]
  /\ chain \in Seq(Writes) /\ landed \in BOOLEAN
  /\ walStatus \in [Commands -> {"NONE"} \cup Unsettled \cup Terminal]
  /\ walAttempts \in [Commands -> 0..MaxAttempts]
  /\ caller \in
       [Commands -> {"unborn", "creating", "accepted", "refused", "unknown"}]
  /\ deliveries \in [Commands -> Nat]
  /\ crashes \in 0..MaxCrashes /\ lostWrites \in 0..MaxLostWrites

InOrder(c) == \E i \in 1..Len(order) : order[i] = c

\* A live record is in the hands of exactly one of the pending order, a
\* backoff timer and the drain loop: never in two (it would be sent twice in
\* parallel, what _inFlight is there to prevent), never twice in the order,
\* and, until the dispatcher stops, never in none (nothing would ever send it).
Custody ==
  /\ \A i, j \in 1..Len(order) : order[i] = order[j] => i = j
  /\ \A c \in Commands :
       /\ timers[c] <= 1
       /\ InOrder(c) => status[c] = "PENDING" /\ timers[c] = 0 /\ owned # c
       /\ timers[c] > 0 => status[c] = "PENDING" /\ owned # c
       /\ owned = c => status[c] # "ABSENT"
       /\ status[c] # "ABSENT" /\ ~stopped
            => InOrder(c) \/ timers[c] > 0 \/ owned = c

\* A command waiting in the pending order has a drain loop running that will
\* come to it: no 'ready' is missed, although the event is dropped while the
\* loop runs and nobody polls.
NoLostWakeup == order # <<>> /\ ~stopped => owned # NoCmd

\* The write-ahead half of the guarantee: whatever memory holds as unsettled
\* is unsettled on disk, with no more attempts than memory counts, and what
\* the caller was told is accepted is on disk.
WriteAhead ==
  \A c \in Commands :
    /\ status[c] \in Unsettled =>
         walStatus[c] \in Unsettled /\ walAttempts[c] <= attempts[c]
    /\ caller[c] = "accepted" => walStatus[c] # "NONE"

\* A command the caller was told is not queued is never recorded or sent.
RefusedIsUnsent ==
  \A c \in Commands :
    caller[c] = "refused" =>
      walStatus[c] = "NONE" /\ status[c] = "ABSENT" /\ deliveries[c] = 0

\* The retry budget survives restarts: beyond maxAttempts deliveries of one
\* command, every further one is paid for by a process end or by a status
\* write the disk refused.
BoundedDuplicates ==
  \A c \in Commands : deliveries[c] <= MaxAttempts + crashes + lostWrites

\* A settled record is final: no later step, and no recovery, brings the
\* command back to life or hands it to a transport again.
SettledIsFinal ==
  [][\A c \in Commands : walStatus[c] \in Terminal =>
        /\ walStatus'[c] = walStatus[c]
        /\ deliveries'[c] = deliveries[c]
        /\ status'[c] \in {"ABSENT", walStatus[c]}]_vars

\* The ledger as it can be read off the log.
LedgerState ==
  [c \in Commands |-> CASE walStatus[c] = "NONE" -> "none"
                        [] walStatus[c] \in Unsettled -> "queued"
                        [] walStatus[c] = "ACKED" -> "acked"
                        [] walStatus[c] = "FAILED" -> "failed"]

Delivered == {c \in Commands : deliveries[c] > 0}

Ledger == INSTANCE CommandLedger WITH ledger <- LedgerState, received <- Delivered

\* Queue, dispatcher and log together implement the ledger: what is recorded as
\* acknowledged was received, and a decision is never revised.
ImplementsLedger == Ledger!Spec

\* What a caller asks for is decided: every command it hands to enqueue() is
\* refused, acknowledged or failed in the end, over retries, stops and
\* crashes.  The exceptions are a crash before enqueue() answered and a start
\* that could not read the log, which leaves recorded commands unattended.
EventuallyDecided ==
  \A c \in Commands :
    (caller[c] = "creating" \/ status[c] \in Unsettled)
      ~> (caller[c] \in {"refused", "unknown"} \/ status[c] \in Terminal \/ blind)
=============================================================================
