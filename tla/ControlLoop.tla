------------------------------ MODULE ControlLoop ------------------------------
(***************************************************************************)
(* GridSyncOrchestrator from a normalized point to its effects: the state  *)
(* machine, the alarm engine, the alarm log, removeDevice, and a restart.  *)
(*                                                                         *)
(* _handlePoint is started for every point of a batch and never awaited,   *)
(* so the handlers of several points are under way together.  Each awaits  *)
(* one write at a time: its telemetry point, then one after the other the  *)
(* alarm events it raised, then the command it proposes.  A handler is     *)
(* therefore represented by the write it awaits, which carries what the    *)
(* handler does next.  The three kinds of writes go to three promise       *)
(* chains, each of which settles its writes in order.                      *)
(***************************************************************************)
EXTENDS Integers, Sequences, FiniteSets, SequencesExt

CONSTANTS
  Devices,
  Readings,        \* what a point may report
  MaxPoints,       \* bound: points received
  MaxFaults,       \* bound: failed writes of alarms and commands
  MaxSweeps,       \* bound: staleness evaluations that change an alarm
  MaxOperations    \* bound: restarts, and operator requests but those to
                   \* restore a device

Levels == {"absent", "low", "ok", "high"}

ASSUME ReadingsAssumption ==
  Readings \subseteq [voltage : Levels, frequency : Levels, soc : Levels]
ASSUME BoundsAssumption ==
  MaxPoints \in Nat /\ MaxFaults \in Nat /\ MaxSweeps \in Nat /\ MaxOperations \in Nat

AlarmTypes == {"OVER_VOLTAGE", "UNDER_VOLTAGE", "HIGH_FREQUENCY", "LOW_SOC",
               "DEVICE_OFFLINE", "COMM_TIMEOUT"}
Modes == {"NORMAL", "CURTAILED", "ALERT"}

VARIABLES
  registered,      \* status in the DeviceRegistry, "UNKNOWN" without a record
  tracked,         \* the circuit breaker has heard of the device
  mode,            \* mode in _deviceStates, "NONE" without an entry
  active,          \* _active: the types with an active alarm, per device
  acknowledged,    \* those of them that were acknowledged
  telemetryChain,  \* appends of points that have not settled
  alarmChain,      \* appends of alarm events, with what their coroutine does next
  commandChain,    \* appends of new commands
  removals,        \* removeDevice calls per device that await the registry
  alarmLog,        \* the last event on disk of each alarm
  raised,          \* ghost: alarms raised so far per device and type
  proposed,        \* ghost: the effects of the state machine, per device, with
                   \* the number of alarm events the same point led to
  entered,         \* ghost: the numbers of those enqueue() was called for, in order
  queued,          \* ghost: how many of them entered the command queue
  refused,         \* ghost: how many of them the disk refused, or a restart
                   \* found under way
  accepted,        \* ghost: the readings accepted for the present entry of mode
  earlier,         \* ghost: how many effects earlier entries of mode proposed
  points, faults, sweeps, operations  \* ghosts: bounded occurrences

engine == <<active, acknowledged, raised>>
chains == <<telemetryChain, alarmChain, commandChain>>
counts == <<points, faults, sweeps, operations>>
history == <<proposed, entered, queued, refused, accepted, earlier>>
vars == <<registered, tracked, mode, engine, chains, removals, alarmLog, history, counts>>

MaxRaised == MaxPoints + MaxSweeps

Init ==
  /\ registered = [d \in Devices |-> "UNKNOWN"]
  /\ tracked = [d \in Devices |-> FALSE]
  /\ mode = [d \in Devices |-> "NONE"]
  /\ active = [d \in Devices |-> {}] /\ acknowledged = [d \in Devices |-> {}]
  /\ telemetryChain = <<>> /\ alarmChain = <<>> /\ commandChain = <<>>
  /\ removals = [d \in Devices |-> 0]
  /\ alarmLog = [d \in Devices |-> [t \in AlarmTypes |-> [n \in 1..MaxRaised |-> "NONE"]]]
  /\ raised = [d \in Devices |-> [t \in AlarmTypes |-> 0]]
  /\ proposed = [d \in Devices |-> <<>>] /\ entered = [d \in Devices |-> <<>>]
  /\ queued = [d \in Devices |-> 0] /\ refused = [d \in Devices |-> 0]
  /\ accepted = [d \in Devices |-> <<>>] /\ earlier = [d \in Devices |-> 0]
  /\ points = 0 /\ faults = 0 /\ sweeps = 0 /\ operations = 0

\* The elements of s that are in T, in their order.
Selected(s, T) ==
  LET kept[i \in 0..Len(s)] ==
        IF i = 0 THEN <<>>
        ELSE IF s[i] \in T THEN Append(kept[i - 1], s[i]) ELSE kept[i - 1]
  IN  kept[Len(s)]

-----------------------------------------------------------------------------
(* ConstraintValidator.checkTelemetry and StateMachine.transition.         *)

InViolation(p) ==
  {p.voltage, p.frequency, p.soc} \cap {"low", "high"} # {}

\* Any other violation takes a curtailed device to ALERT.
ForgetsCurtailment(m, p) ==
  IF p.voltage = "high" THEN "CURTAILED"
  ELSE IF InViolation(p) THEN "ALERT" ELSE "NORMAL"

\* A device stays curtailed while any violation persists.
NextMode(m, p) ==
  IF p.voltage = "high" \/ (m = "CURTAILED" /\ InViolation(p)) THEN "CURTAILED"
  ELSE IF InViolation(p) THEN "ALERT" ELSE "NORMAL"

\* A device without an entry is taken to be in NORMAL.
EntryOf(m) == IF m = "NONE" THEN "NORMAL" ELSE m

\* The commands a transition proposes.
Effects(m, p) ==
  IF p.voltage = "high" /\ m # "CURTAILED" THEN <<"CURTAIL">>
  ELSE IF m = "CURTAILED" /\ ~InViolation(p) THEN <<"STANDBY">> ELSE <<>>

-----------------------------------------------------------------------------
(* AlarmEngine.  A check decides one alarm type; the events it may lead to *)
(* are those of a change.                                                  *)

Check(type, on) == [type |-> type, on |-> on]

TelemetryChecks(p) ==
  (IF p.voltage = "absent" THEN <<>>
   ELSE <<Check("OVER_VOLTAGE", p.voltage = "high"),
          Check("UNDER_VOLTAGE", p.voltage = "low")>>)
  \o (IF p.frequency = "absent" THEN <<>>
      ELSE <<Check("HIGH_FREQUENCY", p.frequency = "high")>>)
  \o (IF p.soc = "absent" THEN <<>>
      ELSE <<Check("LOW_SOC", p.soc = "low")>>)

\* The age of the last point is below both limits, between them, or above both
\* (commTimeoutMs is the smaller one).
StalenessChecks(age) ==
  <<Check("DEVICE_OFFLINE", age = "offline"), Check("COMM_TIMEOUT", age # "fresh")>>

Triggers(d, c) == c.on /\ c.type \notin active[d]
Clears(d, c) == ~c.on /\ c.type \in active[d]

\* Stands for the number of a command that no transition proposed.
RESET == 0

Event(d, type, number, status) ==
  [device |-> d, type |-> type, number |-> number, status |-> status]

EventOf(d, c) ==
  IF c.on THEN Event(d, c.type, raised[d][c.type] + 1, "ACTIVE")
  ELSE Event(d, c.type, raised[d][c.type], "CLEARED")

Triggered(d, checks) == {c.type : c \in {x \in ToSet(checks) : Triggers(d, x)}}
Cleared(d, checks) == {c.type : c \in {x \in ToSet(checks) : Clears(d, x)}}

\* The alarm is reported cleared but stays in the map.
KeptActive(d, checks) == active[d] \cup Triggered(d, checks)

ActiveAfter(d, checks) ==
  (active[d] \cup Triggered(d, checks)) \ Cleared(d, checks)

\* An alarm that clears stays acknowledged, and so does its next occurrence.
KeptAcknowledged(d, checks) == acknowledged[d]

AcknowledgedAfter(d, checks) == acknowledged[d] \ Cleared(d, checks)

\* What evaluateTelemetry and evaluateStaleness do to the map.
Evaluate(d, checks) ==
  /\ active' = [active EXCEPT ![d] = ActiveAfter(d, checks)]
  /\ acknowledged' = [acknowledged EXCEPT ![d] = AcknowledgedAfter(d, checks)]
  /\ raised' = [raised EXCEPT ![d] =
                  [t \in AlarmTypes |->
                     IF t \in Triggered(d, checks) THEN @[t] + 1 ELSE @[t]]]

\* What they return.
Events(d, checks) ==
  LET changed == Selected(checks, {c \in ToSet(checks) : Triggers(d, c) \/ Clears(d, c)})
  IN  [i \in 1..Len(changed) |-> EventOf(d, changed[i])]

-----------------------------------------------------------------------------
(* Coroutines.                                                             *)

\* A coroutine goes on to the first event it has to persist, then to the first
\* command it has to enqueue, then ends.  A command is known by its number
\* among those proposed for its device.  alarms and commands are the chains
\* without the write that has just settled.
GoOn(d, events, effects, alarms, commands) ==
  /\ alarmChain' = IF events = <<>> THEN alarms
                   ELSE Append(alarms, [event |-> Head(events), next |-> Tail(events),
                                        effects |-> effects])
  /\ commandChain' = IF events # <<>> \/ effects = <<>> THEN commands
                     ELSE Append(commands, [device |-> d, number |-> Head(effects)])
  /\ entered' = IF events # <<>> \/ effects = <<>> THEN entered
                ELSE [entered EXCEPT ![d] = Append(@, Head(effects))]

\* _handlePoint up to its first await.
HandlePoint(d) ==
  /\ points < MaxPoints /\ points' = points + 1
  /\ IF registered[d] = "REMOVED"
     THEN UNCHANGED <<registered, tracked, telemetryChain, accepted>>
     ELSE /\ registered' = [registered EXCEPT ![d] = IF @ = "UNKNOWN" THEN "PRESENT" ELSE @]
          /\ tracked' = [tracked EXCEPT ![d] = TRUE]
          /\ \E p \in Readings :
               /\ telemetryChain' = Append(telemetryChain, [device |-> d, reading |-> p])
               /\ accepted' = [accepted EXCEPT ![d] = Append(@, p)]
  /\ UNCHANGED <<mode, engine, alarmChain, commandChain, removals, alarmLog, proposed,
                 entered, queued, refused, earlier, faults, sweeps, operations>>

\* The readings of a device whose append has not settled.
Waiting(d) ==
  LET its == Selected(telemetryChain, [device : {d}, reading : Readings])
  IN  [i \in 1..Len(its) |-> its[i].reading]

\* The promise chains are left out.
AnyInTurn(chain) == 1..Len(chain)

\* The writes of a chain that may settle next.
InTurn(chain) == IF chain = <<>> THEN {} ELSE {1}

\* The append of a point settled, one way or the other: transition, alarms,
\* and the first write of what came of them.
PointSettles(i) ==
  /\ i \in InTurn(telemetryChain)
  /\ telemetryChain' = RemoveAt(telemetryChain, i)
  /\ LET d == telemetryChain[i].device
         p == telemetryChain[i].reading
         m == EntryOf(mode[d])
         events == Events(d, TelemetryChecks(p))
         effects == [k \in DOMAIN Effects(m, p) |->
                       [type |-> Effects(m, p)[k], events |-> Len(events)]]
     IN  /\ mode' = [mode EXCEPT ![d] = NextMode(m, p)]
         /\ proposed' = [proposed EXCEPT ![d] = @ \o effects]
         /\ Evaluate(d, TelemetryChecks(p))
         /\ GoOn(d, events, [k \in DOMAIN effects |-> Len(proposed[d]) + k],
                 alarmChain, commandChain)
  /\ UNCHANGED <<registered, tracked, removals, alarmLog, queued, refused, accepted, earlier,
                 counts>>

\* A failed write of an alarm event ends the coroutine.
StopsAtFailure(done, rest) == IF done THEN rest ELSE <<>>

\* A failed write of an alarm event is logged and skipped.
RestAfter(done, rest) == rest

\* The append of an alarm event settled.
AlarmSettles(i, done) ==
  /\ i \in InTurn(alarmChain)
  /\ done \/ faults < MaxFaults
  /\ faults' = IF done THEN faults ELSE faults + 1
  /\ LET w == alarmChain[i]
         e == w.event
     IN  /\ alarmLog' = IF done
                        THEN [alarmLog EXCEPT ![e.device][e.type][e.number] = e.status]
                        ELSE alarmLog
         /\ GoOn(e.device, RestAfter(done, w.next), RestAfter(done, w.effects),
                 RemoveAt(alarmChain, i), commandChain)
  /\ UNCHANGED <<registered, tracked, mode, engine, telemetryChain, removals, proposed,
                 queued, refused, accepted, earlier, points, sweeps, operations>>

\* acknowledgeAllForDevice.  The map lists the alarms in the order they were
\* raised, which is not kept here: any order.
AcknowledgeAll(d) ==
  LET open == active[d] \ acknowledged[d]
  IN  \E order \in [1..Cardinality(open) -> open] :
        /\ \A t \in open : \E i \in DOMAIN order : order[i] = t
        /\ acknowledged' = [acknowledged EXCEPT ![d] = active[d]]
        /\ GoOn(d, [i \in DOMAIN order |->
                      Event(d, order[i], raised[d][order[i]], "ACKNOWLEDGED")],
                <<>>, alarmChain, Tail(commandChain))

\* The append of a new command settled: it is queued, or enqueue() throws.
CommandSettles(done) ==
  /\ commandChain # <<>>
  /\ done \/ faults < MaxFaults
  /\ faults' = IF done THEN faults ELSE faults + 1
  /\ LET d == Head(commandChain).device
     IN  IF Head(commandChain).number = RESET
         THEN /\ IF done THEN AcknowledgeAll(d)
                 ELSE /\ commandChain' = Tail(commandChain)
                      /\ UNCHANGED <<acknowledged, alarmChain, entered>>
              /\ UNCHANGED <<queued, refused>>
         ELSE /\ commandChain' = Tail(commandChain)
              /\ queued' = [queued EXCEPT ![d] = IF done THEN @ + 1 ELSE @]
              /\ refused' = [refused EXCEPT ![d] = IF done THEN @ ELSE @ + 1]
              /\ UNCHANGED <<acknowledged, alarmChain, entered>>
  /\ UNCHANGED <<registered, tracked, mode, active, raised, telemetryChain, removals, alarmLog,
                 proposed, accepted, earlier, points, sweeps, operations>>

\* One device in _sweepStaleness.  The age is that of a snapshot taken before
\* the sweep's first await, and the time stamp may be the device's own, so any
\* age is possible at any time.
Sweep(d) ==
  /\ tracked[d] /\ sweeps < MaxSweeps /\ sweeps' = sweeps + 1
  /\ \E age \in {"fresh", "late", "offline"} :
       /\ Events(d, StalenessChecks(age)) # <<>>
       /\ Evaluate(d, StalenessChecks(age))
       /\ GoOn(d, Events(d, StalenessChecks(age)), <<>>, alarmChain, commandChain)
  /\ UNCHANGED <<registered, tracked, mode, telemetryChain, removals, alarmLog, proposed,
                 queued, refused, accepted, earlier, points, faults, operations>>

-----------------------------------------------------------------------------
(* Requests of operators.                                                  *)

Requested == operations < MaxOperations /\ operations' = operations + 1

\* acknowledgeAlarm.
Acknowledge(d) ==
  /\ Requested
  /\ \E t \in active[d] :
       /\ acknowledged' = [acknowledged EXCEPT ![d] = @ \cup {t}]
       /\ GoOn(d, <<Event(d, t, raised[d][t], "ACKNOWLEDGED")>>, <<>>,
               alarmChain, commandChain)
  /\ UNCHANGED <<registered, tracked, mode, active, raised, telemetryChain, removals,
                 alarmLog, proposed, queued, refused, accepted, earlier, points, faults,
                 sweeps>>

\* issueManualCommand of a RESET.
Reset(d) ==
  /\ Requested
  /\ commandChain' = Append(commandChain, [device |-> d, number |-> RESET])
  /\ UNCHANGED <<registered, tracked, mode, engine, telemetryChain, alarmChain, removals,
                 alarmLog, history, points, faults, sweeps>>

\* setDeviceStatus of a removed device, which restores it; enabled and disabled
\* devices are not told apart here.
Restore(d) ==
  /\ registered[d] = "REMOVED"
  /\ registered' = [registered EXCEPT ![d] = "PRESENT"]
  /\ UNCHANGED <<tracked, mode, engine, chains, removals, alarmLog, history, counts>>

\* removeDevice: the status at once, the rest when the registry is written.
RemoveDevice(d) ==
  /\ Requested /\ registered[d] # "UNKNOWN"
  /\ registered' = [registered EXCEPT ![d] = "REMOVED"]
  /\ removals' = [removals EXCEPT ![d] = @ + 1]
  /\ UNCHANGED <<tracked, mode, engine, chains, alarmLog, history, points, faults,
                 sweeps>>

\* The write of the registry settled: the device's state is deleted, unless the
\* write failed.
RemovalSettles(d, done) ==
  /\ removals[d] > 0
  /\ done \/ faults < MaxFaults
  /\ faults' = IF done THEN faults ELSE faults + 1
  /\ removals' = [removals EXCEPT ![d] = @ - 1]
  /\ IF done
     THEN /\ mode' = [mode EXCEPT ![d] = "NONE"]
          /\ accepted' = [accepted EXCEPT ![d] = Waiting(d)]
          /\ earlier' = [earlier EXCEPT ![d] = Len(proposed[d])]
     ELSE UNCHANGED <<mode, accepted, earlier>>
  /\ UNCHANGED <<registered, tracked, engine, chains, alarmLog, proposed, entered,
                 queued, refused, points, sweeps, operations>>

-----------------------------------------------------------------------------
\* The process ends and starts again: maps and chains are new.  Of the oldest
\* write of each chain nobody knows whether it landed; a command whose record
\* did is recovered into the queue.
Restart ==
  /\ Requested
  /\ \E landed \in BOOLEAN :
       /\ registered' = [d \in Devices |->
                           IF removals[d] > 0 /\ ~landed THEN "PRESENT" ELSE registered[d]]
       /\ alarmLog' = IF landed /\ alarmChain # <<>>
                      THEN LET e == Head(alarmChain).event
                           IN  [alarmLog EXCEPT ![e.device][e.type][e.number] = e.status]
                      ELSE alarmLog
       /\ LET recovered == {d \in Devices : /\ landed /\ commandChain # <<>>
                                             /\ Head(commandChain).device = d
                                             /\ Head(commandChain).number # RESET}
          IN  /\ queued' = [d \in Devices |-> queued[d] + IF d \in recovered THEN 1 ELSE 0]
              /\ refused' = [d \in Devices |-> Len(proposed[d]) - queued'[d]]
  /\ tracked' = [d \in Devices |-> FALSE] /\ mode' = [d \in Devices |-> "NONE"]
  /\ active' = [d \in Devices |-> {}] /\ acknowledged' = [d \in Devices |-> {}]
  /\ telemetryChain' = <<>> /\ alarmChain' = <<>> /\ commandChain' = <<>>
  /\ removals' = [d \in Devices |-> 0]
  /\ accepted' = [d \in Devices |-> <<>>]
  /\ earlier' = [d \in Devices |-> Len(proposed[d])]
  /\ UNCHANGED <<raised, proposed, entered, points, faults, sweeps>>

-----------------------------------------------------------------------------
Next ==
  \/ \E d \in Devices : HandlePoint(d) \/ Sweep(d)
  \/ \E i \in 1..Len(telemetryChain) : PointSettles(i)
  \/ \E i \in 1..Len(alarmChain), done \in BOOLEAN : AlarmSettles(i, done)
  \/ \E done \in BOOLEAN : CommandSettles(done)
  \/ \E d \in Devices : Acknowledge(d) \/ Reset(d) \/ Restore(d) \/ RemoveDevice(d)
  \/ \E d \in Devices, done \in BOOLEAN : RemovalSettles(d, done)
  \/ Restart

Spec == Init /\ [][Next]_vars

-----------------------------------------------------------------------------
(* Properties.                                                             *)

LogEvents == [device : Devices, type : AlarmTypes, number : 1..MaxRaised,
              status : {"ACTIVE", "ACKNOWLEDGED", "CLEARED"}]

\* Type correctness: every coroutine under way holds the events and commands
\* of its own device, and only active alarms can be acknowledged.
TypeOK ==
  /\ registered \in [Devices -> {"UNKNOWN", "PRESENT", "REMOVED"}]
  /\ tracked \in [Devices -> BOOLEAN]
  /\ mode \in [Devices -> Modes \cup {"NONE"}]
  /\ active \in [Devices -> SUBSET AlarmTypes]
  /\ acknowledged \in [Devices -> SUBSET AlarmTypes]
  /\ \A d \in Devices : acknowledged[d] \subseteq active[d]
  /\ telemetryChain \in Seq([device : Devices, reading : Readings])
  /\ alarmChain \in Seq([event : LogEvents, next : Seq(LogEvents),
                         effects : Seq(1..MaxPoints)])
  /\ \A i \in 1..Len(alarmChain) : \A j \in 1..Len(alarmChain[i].next) :
       alarmChain[i].next[j].device = alarmChain[i].event.device
  /\ commandChain \in Seq([device : Devices, number : 0..MaxPoints])
  /\ removals \in [Devices -> Nat]
  /\ alarmLog \in [Devices -> [AlarmTypes -> [1..MaxRaised ->
                    {"NONE", "ACTIVE", "ACKNOWLEDGED", "CLEARED"}]]]
  /\ raised \in [Devices -> [AlarmTypes -> 0..MaxRaised]]
  /\ queued \in [Devices -> Int] /\ refused \in [Devices -> Int]
  /\ points \in 0..MaxPoints /\ faults \in 0..MaxFaults /\ sweeps \in 0..MaxSweeps
  /\ operations \in 0..MaxOperations

\* The mode a device would be in had its readings been handled one at a time.
Replay(readings) ==
  LET after[n \in 0..Len(readings)] ==
        IF n = 0 THEN "NONE" ELSE NextMode(EntryOf(after[n - 1]), readings[n])
  IN  after[Len(readings)]

\* Although the handlers of a device's points run together, its state machine
\* sees the points in the order in which they came: "that delay could let later
\* points overtake the first one, corrupting the temporal order the state
\* machine and telemetry history both depend on"
\* (GridSyncOrchestrator.js:121-130).
InArrivalOrder ==
  \A d \in Devices :
    LET handled == Len(accepted[d]) - Len(Waiting(d))
    IN  /\ handled >= 0
        /\ SubSeq(accepted[d], handled + 1, Len(accepted[d])) = Waiting(d)
        /\ mode[d] = Replay(SubSeq(accepted[d], 1, handled))

\* A device is curtailed once and released once: while its entry lives, CURTAIL
\* and STANDBY alternate beginning with CURTAIL, and it is in CURTAILED exactly
\* if its last CURTAIL has not been followed by STANDBY
\* (StateMachine.js:46-86).
CurtailedOnceReleasedOnce ==
  \A d \in Devices :
    LET effects == SubSeq(proposed[d], earlier[d] + 1, Len(proposed[d]))
    IN  /\ \A i \in 1..Len(effects) :
             effects[i].type = IF i % 2 = 1 THEN "CURTAIL" ELSE "STANDBY"
        /\ (mode[d] = "CURTAILED") <=> (Len(effects) % 2 = 1)

\* The commands a device's coroutines have yet to enqueue.
Underway(d) ==
  {i \in 1..Len(alarmChain) :
     alarmChain[i].event.device = d /\ alarmChain[i].effects # <<>>}
Enqueueing(d) ==
  {i \in 1..Len(commandChain) :
     commandChain[i].device = d /\ commandChain[i].number # RESET}

\* A failed write of an alarm event does not cost the command that the same
\* point called for: every command the state machine proposed is queued, was
\* refused by the disk itself, is still on its way or was lost in a restart ("A
\* storage hiccup must not stop the safety-critical control loop",
\* GridSyncOrchestrator.js:142).
NoCommandForgotten ==
  \A d \in Devices :
    Len(proposed[d]) = queued[d] + refused[d] + Cardinality(Underway(d))
                       + Cardinality(Enqueueing(d))

\* The command of a point waits for the alarm events of the point, so that a
\* later command can enter the queue first, a STANDBY before the CURTAIL it ends
\* say.  It does so only if the later point led to fewer alarm events: writes
\* that fail, other coroutines and removals never bring it about
\* (GridSyncOrchestrator.js:151-157).
OvertakesByFewerAlarms ==
  \A d \in Devices : \A i, j \in 1..Len(entered[d]) :
    LET first == proposed[d][entered[d][i]]
        later == proposed[d][entered[d][j]]
    IN  i < j /\ entered[d][i] > entered[d][j] => first.events < later.events

\* The log is never ahead of the engine: an alarm recorded as cleared is not
\* active, one recorded as acknowledged is either over or acknowledged, and no
\* alarm is recorded that was not raised (AlarmEngine.js:59-67, 135-159).
LogFollowsEngine ==
  \A d \in Devices, t \in AlarmTypes, n \in 1..MaxRaised :
    LET present == t \in active[d] /\ n = raised[d][t]
    IN  /\ alarmLog[d][t][n] # "NONE" => n <= raised[d][t]
        /\ alarmLog[d][t][n] = "CLEARED" => ~present
        /\ alarmLog[d][t][n] = "ACKNOWLEDGED" => (present => t \in acknowledged[d])

\* What "alarm history survives a restart" asks of the log (README.md:319): when
\* no write is under way and none has failed, the last record of an alarm says
\* cleared exactly if the alarm is over.
HistoryIsRight ==
  (alarmChain = <<>> /\ faults = 0) =>
    \A d \in Devices, t \in AlarmTypes : \A n \in 1..raised[d][t] :
      (alarmLog[d][t][n] = "CLEARED") <=> ~(t \in active[d] /\ n = raised[d][t])
=============================================================================
