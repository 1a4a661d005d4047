------------------------------ MODULE Dispatch ------------------------------
(***************************************************************************)
(* What stands between a queued command and its device: the registry, the  *)
(* circuit breaker and the limits, which the dispatcher asks at the start  *)
(* of an attempt, the routing, and the MQTT connection.  The process       *)
(* starts, stops and is killed around all of them.                         *)
(*                                                                         *)
(* All commands are for one device, which reports over MQTT.  The writes   *)
(* of the queue succeed here (CommandDelivery is about those that do not), *)
(* but they take time: each is an await.                                   *)
(***************************************************************************)
EXTENDS MqttConnection, Integers, Sequences, FiniteSets

CONSTANTS
  Commands,      \* command ids
  NoCmd,         \* the drain loop holds no command
  Request,       \* what each asks of the device: a type and a value
  Socs,          \* states of charge a point may carry
  Unknown,       \* no value: no point, or a point without it
  NotANumber,    \* a value Number() does not read
  SocMin, SocMax, MaxCurtail, MaxDischarge, MaxCharge,   \* gridConstraints
  MaxAttempts,   \* config.commandQueue.maxAttempts
  MaxEnds        \* bound: process ends

ASSUME DispatchMarks == /\ NoCmd \notin Commands /\ IsFiniteSet(Commands)
                        /\ Socs \subseteq Int /\ Unknown \notin Int
                        /\ NotANumber \notin Int
ASSUME DispatchLimits == /\ {MaxCurtail, MaxDischarge, MaxCharge} \subseteq Nat
                         /\ SocMin \in Int /\ SocMax \in Int
                         /\ MaxAttempts \in Nat \ {0}
                         /\ MaxEnds \in Nat
ASSUME RequestsAssumption ==
  \A c \in Commands : Request[c].value \in Int \cup {NotANumber}

VARIABLES
  process,     \* "off", "starting", "running", "stopping", "disconnecting"
  registry,    \* the status of the device in the registry
  stored,      \* its status in the file of the registry
  removing,    \* removeDevice awaits the registry's write
  breaker,     \* what isOpen says: "unheard", "open" or "closed"
  soc,         \* of the latest point, or Unknown
  routed,      \* a point named the adapter of the device
  created,     \* the commands in the order of their CREATED records
  outcome,     \* the last status recorded: "open", "ACKED" or "FAILED"
  attempts,    \* failed attempts of each
  order,       \* _pendingOrder
  backoff,     \* commands with a backoff timer
  owned,       \* the command in _handleOne
  awaits,      \* what it awaits
  shaped,      \* the value it sends
  refused,     \* ghost: commands this process's validator refused
  slipped,     \* ghost: commands handed to the client since the gate closed
  listed,      \* ghost: what this process recovered, as the storage listed it
  ends         \* ghost: process ends so far

gates == <<registry, stored, removing, breaker, soc, routed>>
queue == <<created, outcome, attempts, order, backoff, owned, awaits, shaped>>
ghosts == <<refused, slipped, listed>>
dvars == <<mqtt, process, gates, queue, ghosts, ends>>

Init ==
  /\ Unconnected /\ process = "off"
  /\ registry = "ENABLED" /\ stored = "ENABLED" /\ removing = FALSE
  /\ breaker = "unheard" /\ soc = Unknown /\ routed = FALSE
  /\ created = <<>> /\ outcome = [c \in Commands |-> "open"]
  /\ attempts = [c \in Commands |-> 0]
  /\ order = <<>> /\ backoff = {} /\ owned = NoCmd /\ awaits = "nothing"
  /\ shaped = Unknown /\ refused = {} /\ slipped = 0 /\ listed = <<>> /\ ends = 0

Up == process # "off"

\* stop() was called: the dispatcher takes nothing any more.
Stopping == process \in {"stopping", "disconnecting"}

Elements(q) == {q[k] : k \in 1..Len(q)}

\* The created commands that are not settled on disk.
Unsettled == {c \in Elements(created) : outcome[c] = "open"}

\* The orders in which the storage may list them: a file log lists them as they
\* were created, a table promises no order.
Listings ==
  {s \in [1..Cardinality(Unsettled) -> Unsettled] :
     /\ \A i, j \in 1..Cardinality(Unsettled) : s[i] = s[j] => i = j
     /\ \A c \in Unsettled : \E i \in 1..Cardinality(Unsettled) : s[i] = c}

-----------------------------------------------------------------------------
(* ConstraintValidator.validateCommand.                                    *)

Types == {"CURTAIL", "DISCHARGE", "CHARGE", "STANDBY", "RESET"}

Limit(type) ==
  CASE type = "CURTAIL" -> MaxCurtail [] type = "DISCHARGE" -> MaxDischarge
    [] type = "CHARGE" -> MaxCharge [] OTHER -> 0

\* Whether the type is known and the state of charge allows it.
Authorised(r, s) ==
  /\ r.type \in Types
  /\ r.type = "DISCHARGE" => s # Unknown /\ s > SocMin
  /\ r.type = "CHARGE" => s # Unknown /\ s < SocMax

\* A value already below the limit is taken as it is.
ClampAbove(v, hi) == IF v = NotANumber THEN 0 ELSE IF v > hi THEN hi ELSE v

\* clamp(Number(value) || 0, 0, hi)
Clamp(v, hi) == IF v = NotANumber \/ v < 0 THEN 0 ELSE IF v > hi THEN hi ELSE v

Shape(r) == Clamp(r.value, Limit(r.type))

-----------------------------------------------------------------------------
(* CommandDispatcher: one attempt, from takeNextPending to its end.        *)

Gate == registry = "ENABLED" /\ breaker = "closed"

\* Only the first attempt of a command is checked.
PassesOnce(c) == attempts[c] > 0 \/ Gate

Passes(c) == Gate

\* An authorization failure is retried like any other.
RefusalRetried(c) == IF attempts[c] + 1 >= MaxAttempts THEN "FAILED" ELSE "RETRY"

RefusalEnds(c) == "FAILED"

FailedAttempt(c) == IF attempts[c] + 1 >= MaxAttempts THEN "FAILED" ELSE "RETRY"

Take(c, rest) ==
  /\ order' = rest /\ owned' = c
  /\ IF ~Passes(c)
     THEN awaits' = FailedAttempt(c) /\ shaped' = Unknown /\ UNCHANGED refused
     ELSE IF ~Authorised(Request[c], soc)
     THEN awaits' = RefusalEnds(c) /\ shaped' = Unknown
          /\ refused' = refused \cup {c}
     ELSE awaits' = "DISPATCHING" /\ shaped' = Shape(Request[c]) /\ UNCHANGED refused

\* The end of a turn of the loop, or 'ready' finding it idle.
TakeNext(ord) ==
  IF ord = <<>> \/ Stopping
  THEN /\ order' = ord /\ owned' = NoCmd /\ awaits' = "nothing"
       /\ shaped' = Unknown /\ UNCHANGED refused
  ELSE Take(Head(ord), Tail(ord))

\* 'ready': nothing but the order changes while the loop is running.
Ready(ord) ==
  IF owned # NoCmd \/ Stopping
  THEN order' = ord /\ UNCHANGED <<owned, awaits, shaped, refused>>
  ELSE TakeNext(ord)

\* enqueue(), as its CREATED record is written.
Enqueue(c) ==
  /\ Up /\ c \notin Elements(created)
  /\ created' = Append(created, c)
  /\ Ready(Append(order, c))
  /\ UNCHANGED <<mqtt, process, gates, outcome, attempts, backoff,
                 slipped, listed, ends>>

\* The DISPATCHING record is written: the adapter is looked up and asked to
\* send.  Nothing is checked again.
Dispatched ==
  /\ awaits = "DISPATCHING" /\ Up
  /\ IF routed /\ CanPublish /\ client = "live"
     THEN /\ Publish
          /\ awaits' = "sending"
          /\ slipped' = IF Gate THEN 0 ELSE slipped + 1
     ELSE /\ awaits' = FailedAttempt(owned)
          /\ UNCHANGED <<mqtt, slipped>>
  /\ UNCHANGED <<process, gates, created, outcome, attempts, order,
                 backoff, owned, shaped, refused, listed, ends>>

\* sendCommand settles.
SendAnswers ==
  /\ awaits = "sending" /\ Up /\ PublishAnswers
  /\ awaits' \in {"ACKED", FailedAttempt(owned)}
  /\ UNCHANGED <<process, gates, created, outcome, attempts, order,
                 backoff, owned, shaped, ghosts, ends>>

\* The ACKED or FAILED record is written.
Settles ==
  /\ awaits \in {"ACKED", "FAILED"} /\ Up
  /\ outcome' = [outcome EXCEPT ![owned] = awaits]
  /\ TakeNext(order)
  /\ UNCHANGED <<mqtt, process, gates, created, attempts, backoff,
                 slipped, listed, ends>>

\* A failed attempt costs nothing.
NotCounted(c) == attempts

Counted(c) == [attempts EXCEPT ![c] = @ + 1]

\* The RETRY_SCHEDULED record is written, with the attempt counted.
Retries ==
  /\ awaits = "RETRY" /\ Up
  /\ attempts' = Counted(owned)
  /\ backoff' = IF Stopping THEN {} ELSE backoff \cup {owned}
  /\ TakeNext(order)
  /\ UNCHANGED <<mqtt, process, gates, created, outcome, slipped, listed, ends>>

TimerFires(c) ==
  /\ c \in backoff
  /\ backoff' = backoff \ {c}
  /\ Ready(Append(order, c))
  /\ UNCHANGED <<mqtt, process, gates, created, outcome, attempts,
                 slipped, listed, ends>>

-----------------------------------------------------------------------------
(* What changes the gates.                                                 *)

GatesChange ==
  /\ slipped' = IF Gate' THEN 0 ELSE slipped
  /\ UNCHANGED <<connection, process, queue, refused, listed, ends>>

\* _handlePoint: a point of the device, unless it was removed.  The breaker may
\* stay open, for the error rate or the time stamp of the point.
Telemetry ==
  /\ Up /\ listening /\ link = "subscribed" /\ registry # "REMOVED"
  /\ breaker' \in {"open", "closed"}
  /\ soc' \in Socs \cup {Unknown}
  /\ routed' = TRUE
  /\ UNCHANGED <<registry, stored, removing, events>>
  /\ GatesChange

\* The telemetry grows stale, or the error rate trips the breaker.
Trips ==
  /\ Up /\ breaker = "closed" /\ Happens
  /\ breaker' = "open"
  /\ UNCHANGED <<registry, stored, removing, soc, routed>>
  /\ GatesChange

\* The error rate subsides.
Subsides ==
  /\ Up /\ breaker = "open"
  /\ breaker' = "closed"
  /\ UNCHANGED <<registry, stored, removing, soc, routed, events>>
  /\ GatesChange

\* setStatus and removeDevice, up to the write of the registry.
SetStatus(s) ==
  /\ process = "running" /\ registry # s /\ Happens
  /\ registry' = s
  /\ removing' = (removing \/ s = "REMOVED")
  /\ UNCHANGED <<stored, breaker, soc, routed>>
  /\ GatesChange

\* The write has settled; removeDevice goes on to forget the device.
RegistrySettles ==
  /\ Up /\ (stored # registry \/ removing)
  /\ stored' = registry /\ removing' = FALSE
  /\ IF removing THEN soc' = Unknown /\ routed' = FALSE ELSE UNCHANGED <<soc, routed>>
  /\ UNCHANGED <<registry, breaker, events>>
  /\ GatesChange

-----------------------------------------------------------------------------
(* The process.                                                            *)

\* start(): recovery, the dispatcher, and only then the connection.
Start ==
  /\ process = "off" /\ process' = "starting"
  /\ \E listing \in Listings : TakeNext(listing) /\ listed' = listing
  /\ Connect
  /\ UNCHANGED <<gates, created, outcome, attempts, backoff, slipped, ends>>

\* connect() settled, one way or the other.
Started ==
  /\ process = "starting" /\ ~connecting
  /\ process' = "running"
  /\ UNCHANGED <<mqtt, gates, queue, ghosts, ends>>

\* stop() stops the dispatcher and awaits the end of the API server and of the
\* adapters before this one.  An attempt under way goes on, also to the client.
Stop ==
  /\ process = "running" /\ ends < MaxEnds
  /\ process' = "stopping" /\ backoff' = {}
  /\ UNCHANGED <<mqtt, gates, created, outcome, attempts, order, owned, awaits,
                 shaped, ghosts, ends>>

\* It comes to the adapter of the device, and awaits its disconnect().
Disconnects ==
  /\ process = "stopping" /\ process' = "disconnecting"
  /\ Disconnect
  /\ UNCHANGED <<gates, queue, ghosts, ends>>

ProcessEnds ==
  /\ process' = "off" /\ ends' = ends + 1
  /\ ConnectionEnds
  /\ registry' = stored /\ removing' = FALSE
  /\ breaker' = "unheard" /\ soc' = Unknown /\ routed' = FALSE
  /\ order' = <<>> /\ backoff' = {} /\ owned' = NoCmd /\ awaits' = "nothing"
  /\ shaped' = Unknown /\ refused' = {} /\ listed' = <<>>
  /\ UNCHANGED <<created, outcome, attempts, stored, slipped>>

Kill == Up /\ ends < MaxEnds /\ ProcessEnds

\* The stop waits for the attempt under way as well.
ExitsIdle == client = "none" /\ owned = NoCmd

Disconnected == client = "none"

Exit == process = "disconnecting" /\ Disconnected /\ ProcessEnds

Aside == UNCHANGED <<process, gates, queue, ghosts, ends>>

Connection == (ConnectionSteps \/ EndAnswers) /\ Aside

Next ==
  \/ \E c \in Commands : Enqueue(c) \/ TimerFires(c)
  \/ Dispatched \/ SendAnswers \/ Settles \/ Retries
  \/ Telemetry \/ Trips \/ Subsides \/ RegistrySettles
  \/ \E s \in {"ENABLED", "DISABLED", "REMOVED"} : SetStatus(s)
  \/ Connection
  \/ Start \/ Started \/ Stop \/ Disconnects \/ Kill \/ Exit

Spec == Init /\ [][Next]_dvars

\* Timers fire, an ended client calls back once nothing is outstanding, and
\* start() and stop() go on after what they await: the API server, which drops
\* its connections, and the other adapters end.  No broker has to answer.
FairSpec ==
  /\ Spec
  /\ WF_dvars(GuardFires /\ Aside) /\ WF_dvars(EndAnswers /\ Aside)
  /\ WF_dvars(Started) /\ WF_dvars(Disconnects) /\ WF_dvars(Exit)

-----------------------------------------------------------------------------
(* Properties.                                                             *)

\* Every variable stays in its type; in particular what is handed to the client
\* is a value within the limit of the command's type.
TypeOK ==
  /\ MqttTypeOK
  /\ process \in {"off", "starting", "running", "stopping", "disconnecting"}
  /\ {registry, stored} \subseteq {"ENABLED", "DISABLED", "REMOVED"}
  /\ removing \in BOOLEAN /\ routed \in BOOLEAN
  /\ breaker \in {"unheard", "open", "closed"} /\ soc \in Socs \cup {Unknown}
  /\ created \in Seq(Commands) /\ outcome \in [Commands -> {"open", "ACKED", "FAILED"}]
  /\ attempts \in [Commands -> 0..MaxAttempts]
  /\ order \in Seq(Commands) /\ backoff \subseteq Commands
  /\ owned \in Commands \cup {NoCmd}
  /\ awaits \in {"nothing", "DISPATCHING", "sending", "ACKED", "FAILED", "RETRY"}
  /\ refused \subseteq Commands /\ slipped \in Nat /\ listed \in Seq(Commands)
  /\ IF owned = NoCmd THEN shaped = Unknown
     ELSE shaped \in {Unknown} \cup 0..Limit(Request[owned].type)
  /\ awaits \in {"DISPATCHING", "sending"} => shaped # Unknown
  /\ ends \in 0..MaxEnds

\* A command is handed to the client.
Sends == awaits' = "sending" /\ awaits # "sending"

\* The gates are asked before the DISPATCHING record is awaited and not again:
\* from the moment the device is disabled, removed or silent until it may
\* receive commands again, one command at most still goes out to it, with any
\* number of commands waiting, retries, and a restart in between.
AtMostOneSlips == slipped <= 1

\* A refusal by the validator is final ("a hard authorization failure"): in
\* this process the command is not sent any more, whatever telemetry follows.
RefusalIsFinal == [][Sends => owned \notin refused]_dvars

\* The storage listed c before d when this process started.
ListedAhead(c, d) == \E i, j \in 1..Len(listed) : i < j /\ listed[i] = c /\ listed[j] = d

\* A command is overtaken by a later one only after an attempt of its own
\* failed, over retries, stops, kills and recoveries, or because the storage
\* listed the later one first as this process recovered: the order in which a
\* device receives CURTAIL and STANDBY is theirs otherwise, and with a file log,
\* which lists in the order of creation, unless a send went wrong.
OvertakenOnlyAfterFailure ==
  [][Sends => \A k, n \in 1..Len(created) :
       k < n /\ created[n] = owned /\ outcome[created[k]] = "open"
         => attempts[created[k]] > 0 \/ ListedAhead(owned, created[k])]_dvars

\* start() gets past connect(), whatever the broker does: an error, a refused
\* subscription, a connection that comes and goes, or silence.
StartGoesOn == process = "starting" ~> process # "starting"

\* stop() ends although an attempt is under way, goes on to the client before
\* the disconnect or fails after it, the connection is lost or was given up:
\* unless a publish is unanswered once the client is told to end, which waits
\* for it, also for one that was begun after stop().  An answer lets it end.
StopEnds == Stopping ~> process = "off" \/ (process = "disconnecting" /\ publishing)
=============================================================================
