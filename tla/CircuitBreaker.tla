---------------------------- MODULE CircuitBreaker ----------------------------
(***************************************************************************)
(* CircuitBreaker: one gate per device, which opens when its telemetry has *)
(* gone stale, and one global gate, which trips on the rate of ingestion   *)
(* errors.                                                                 *)
(*                                                                         *)
(* Time is a count of ticks.  The time stamp of a point may come from the  *)
(* device (Normalizer prefers it to the time of reception), so it may lie  *)
(* ahead of the clock of the process or behind it, and points may be       *)
(* stamped out of order.                                                   *)
(***************************************************************************)
EXTENDS Integers, Sequences, FiniteSets

CONSTANTS
  Devices,
  Never,
  StaleAfter,    \* staleTelemetryMs
  MaxErrors,     \* maxErrorsPerWindow
  Window,        \* errorWindowMs
  MaxLead,       \* bound: how far a device clock is ahead
  MaxLag,        \* bound: how far it is behind, with the time in transit
  MaxTime,       \* bound on the clock
  MaxRecorded    \* bound: errors recorded

ASSUME BreakerAssumption ==
  /\ StaleAfter \in Nat /\ MaxErrors \in Nat /\ Window \in Nat
  /\ MaxLead \in Nat /\ MaxLag \in Nat /\ MaxTime \in Nat /\ MaxRecorded \in Nat
  /\ Never \notin Int

VARIABLES
  now,         \* Date.now()
  lastSeen,    \* _lastSeen, Never for a device without an entry
  errors,      \* _errorTimestamps
  tripped,     \* _globalTripped
  heard,       \* ghost: when a point of the device was last accepted
  recorded,    \* ghost: the times of all errors
  sinceReset   \* ghost: errors since the breaker was last reset

vars == <<now, lastSeen, errors, tripped, heard, recorded, sinceReset>>

Times == 0..MaxTime
Stamps == (0 - MaxLag)..(MaxTime + MaxLead)

Init ==
  /\ now = 0
  /\ lastSeen = [d \in Devices |-> Never] /\ heard = [d \in Devices |-> Never]
  /\ errors = <<>> /\ tripped = FALSE
  /\ recorded = <<>> /\ sinceReset = 0

Tick == /\ now < MaxTime
        /\ now' = now + 1
        /\ UNCHANGED <<lastSeen, errors, tripped, heard, recorded, sinceReset>>

\* The entry is overwritten, also by an older time stamp.
RecordTelemetry(d) ==
  /\ \E stamp \in (now - MaxLag)..(now + MaxLead) :
       lastSeen' = [lastSeen EXCEPT ![d] = stamp]
  /\ heard' = [heard EXCEPT ![d] = now]
  /\ UNCHANGED <<now, errors, tripped, recorded, sinceReset>>

\* Only one expired error is dropped per call.
PrunedOnce(times) ==
  IF times # <<>> /\ times[1] < now - Window THEN Tail(times) ELSE times

\* The errors left when those before the window are dropped from the front.
Pruned(times) ==
  LET current == {i \in 1..Len(times) :
                    \E j \in 1..i : times[j] >= now - Window}
  IN  SubSeq(times, Len(times) - Cardinality(current) + 1, Len(times))

\* Reset at the threshold that trips: no hysteresis.
SubsidedAtLimit(times) == Len(times) <= MaxErrors

Subsided(times) == 2 * Len(times) <= MaxErrors

Excessive(times) == Len(times) > MaxErrors

\* recordError: push, prune (which may reset), and trip.
RecordError ==
  /\ Len(recorded) < MaxRecorded
  /\ errors' = Pruned(Append(errors, now))
  /\ tripped' = \/ tripped /\ ~Subsided(errors')
                \/ Excessive(errors')
  /\ recorded' = Append(recorded, now)
  /\ sinceReset' = IF tripped /\ ~tripped' THEN 0 ELSE sinceReset + 1
  /\ UNCHANGED <<now, lastSeen, heard>>

Stale(d) == now - lastSeen[d] > StaleAfter

\* An unknown device is not blocked (its age is not a number).
OpenIfKnown(d) == tripped \/ (lastSeen[d] # Never /\ Stale(d))

\* isOpen: whether commands to d are blocked.
IsOpen(d) == tripped \/ lastSeen[d] = Never \/ Stale(d)

Next == Tick \/ RecordError \/ \E d \in Devices : RecordTelemetry(d)

Spec == Init /\ [][Next]_vars
-----------------------------------------------------------------------------
(* Properties.                                                             *)

\* Every variable stays in its type, and the list of errors, which only
\* another error prunes, holds none that had expired by the last one.
TypeOK ==
  /\ now \in Times /\ tripped \in BOOLEAN
  /\ lastSeen \in [Devices -> Stamps \cup {Never}]
  /\ heard \in [Devices -> Times \cup {Never}]
  /\ errors \in Seq(Times) /\ recorded \in Seq(Times)
  /\ Len(recorded) <= MaxRecorded
  /\ \A i \in 1..Len(errors) : errors[i] >= recorded[Len(recorded)] - Window
  /\ sinceReset \in 0..MaxRecorded

\* How many errors of the whole run fall into the window that ends at t.
RateAt(t) == Cardinality({i \in 1..Len(recorded) :
                            t - Window <= recorded[i] /\ recorded[i] <= t})

\* The list kept across pushes, prunes and resets measures the true rate: at
\* the time of the last error the breaker is tripped if the rate exceeds the
\* threshold, and reset if it is at most half of it.
RateDecides ==
  recorded # <<>> =>
    LET rate == RateAt(recorded[Len(recorded)])
    IN  /\ rate > MaxErrors => tripped
        /\ 2 * rate <= MaxErrors => ~tripped

\* The breaker does not flap: from a reset to the next trip it takes new
\* errors in more than half the number of the threshold.
Hysteresis == [][~tripped /\ tripped' => 2 * sinceReset' > MaxErrors]_vars

\* A command passes the gate only if the device was heard of recently by the
\* clock of the process: the trust put in its own time stamps costs at most
\* the lead of its clock.
ClosedMeansHeard ==
  \A d \in Devices :
    ~IsOpen(d) => heard[d] # Never /\ now - heard[d] <= StaleAfter + MaxLead

\* The global breaker resets once the error rate has subsided: certainly when
\* not a single error was recorded for two whole windows.
ResetWhenSubsided ==
  recorded # <<>> /\ now - recorded[Len(recorded)] > 2 * Window => ~tripped
=============================================================================
