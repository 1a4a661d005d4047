--------------------------- MODULE DispatchProofs ---------------------------
(***************************************************************************)
(* Proofs about Dispatch and its connection, for every number of commands, *)
(* of attempts and of events, and every limit of reconnections.            *)
(*                                                                         *)
(* Each property needs what the attempt, or the adapter, has looked at     *)
(* earlier: a DISPATCHING record is written for a command that passed the  *)
(* gate since nothing slipped (Slips); the count of errors is the number   *)
(* of failures since the client connected last (Counts); and the command   *)
(* in the loop with those of the order form one line, in which nothing is  *)
(* ahead of an older command that was not tried yet (Standing), unless the *)
(* storage listed the two so when the process started.                     *)
(***************************************************************************)
EXTENDS Dispatch, SequenceTheorems, FiniteSetTheorems, TLAPS

\* What is under way was allowed when nothing had slipped.
Slips ==
  /\ slipped \in {0, 1}
  /\ Gate => slipped = 0
  /\ awaits = "DISPATCHING" => slipped = 0

\* Only a client that lives is listened to, and the errors are counted.
Counts ==
  /\ failed \in Nat /\ errorCount = failed
  /\ listening => client = "live"
  /\ client = "live" => ~gaveUp
  /\ gaveUp => client = "none" /\ GivesUp(failed)
  /\ process = "off" => failed = 0 /\ client = "none"

IInv == Slips /\ Counts /\ GivesUpAtTheLimit

-----------------------------------------------------------------------------
(* The gate.                                                               *)

\* A turn of the loop begins an attempt only through the gate.
LEMMA TakeSlips ==
  ASSUME Slips, NEW q, TakeNext(q) \/ Ready(q), UNCHANGED slipped,
         UNCHANGED <<registry, breaker>> \/ ~Gate'
  PROVE  Slips'
<1>1. awaits' = "DISPATCHING" => awaits = "DISPATCHING" \/ Gate
  BY DEF TakeNext, Ready, Take, Passes, FailedAttempt, RefusalEnds
<1>2. Gate' => Gate
  BY DEF Gate
<1> QED
  BY <1>1, <1>2 DEF Slips

\* What changes the gates leaves the attempt alone.
LEMMA GatesSlip ==
  ASSUME Slips, GatesChange
  PROVE  Slips'
BY DEF Slips, GatesChange, queue

LEMMA DispatchedSlips ==
  ASSUME Slips, Dispatched
  PROVE  Slips'
<1>1. /\ awaits = "DISPATCHING" /\ slipped = 0
      /\ slipped' \in {0, 1} /\ (Gate => slipped' = 0)
      /\ UNCHANGED gates /\ awaits' # "DISPATCHING"
  BY DEF Slips, Dispatched, FailedAttempt
<1>2. Gate' = Gate
  BY <1>1 DEF Gate, gates
<1> QED
  BY <1>1, <1>2 DEF Slips

LEMMA SlipsInv ==
  ASSUME Slips, [Next]_dvars
  PROVE  Slips'
<1>1. CASE UNCHANGED dvars
  BY <1>1 DEF dvars, gates, queue, ghosts, Slips, Gate
<1>2. ASSUME NEW c \in Commands, Enqueue(c)
      PROVE  Slips'
  <2>1. Ready(Append(order, c)) /\ UNCHANGED <<slipped, registry, breaker>>
    BY <1>2 DEF Enqueue, gates
  <2> QED
    BY <2>1, TakeSlips
<1>3. ASSUME NEW c \in Commands, TimerFires(c)
      PROVE  Slips'
  <2>1. Ready(Append(order, c)) /\ UNCHANGED <<slipped, registry, breaker>>
    BY <1>3 DEF TimerFires, gates
  <2> QED
    BY <2>1, TakeSlips
<1>4. CASE Dispatched
  BY <1>4, DispatchedSlips
<1>5. CASE SendAnswers
  <2>1. awaits' # "DISPATCHING" /\ UNCHANGED <<slipped, registry, breaker>>
    BY <1>5 DEF SendAnswers, FailedAttempt, gates, ghosts
  <2> QED
    BY <2>1 DEF Slips, Gate
<1>6. CASE Settles \/ Retries
  <2>1. TakeNext(order) /\ UNCHANGED <<slipped, registry, breaker>>
    BY <1>6 DEF Settles, Retries, gates
  <2> QED
    BY <2>1, TakeSlips
<1>7. CASE Telemetry \/ Trips \/ Subsides \/ RegistrySettles
  BY <1>7, GatesSlip DEF Telemetry, Trips, Subsides, RegistrySettles
<1>8. ASSUME NEW s \in {"ENABLED", "DISABLED", "REMOVED"}, SetStatus(s)
      PROVE  Slips'
  BY <1>8, GatesSlip DEF SetStatus
<1>9. CASE Connection \/ Started
  <2>1. UNCHANGED <<slipped, registry, breaker, awaits>>
    BY <1>9 DEF Connection, Aside, Started, gates, queue, ghosts
  <2> QED
    BY <2>1 DEF Slips, Gate
<1>10. CASE Start
  <2>1. (\E q \in Listings : TakeNext(q)) /\ UNCHANGED <<slipped, registry, breaker>>
    BY <1>10 DEF Start, gates
  <2> QED
    BY <2>1, TakeSlips
<1>11. CASE Stop \/ Disconnects
  <2>1. UNCHANGED <<slipped, registry, breaker, awaits>>
    BY <1>11 DEF Stop, Disconnects, gates, queue, ghosts
  <2> QED
    BY <2>1 DEF Slips, Gate
<1>12. CASE Kill \/ Exit
  <2>1. /\ breaker' = "unheard" /\ awaits' = "nothing" /\ UNCHANGED slipped
    BY <1>12 DEF Kill, Exit, ProcessEnds
  <2> QED
    BY <2>1 DEF Slips, Gate
<1> QED
  BY <1>1, <1>2, <1>3, <1>4, <1>5, <1>6, <1>7, <1>8, <1>9, <1>10, <1>11, <1>12 DEF Next

-----------------------------------------------------------------------------
(* The connection.                                                         *)

LEMMA OnErrCounts ==
  ASSUME Counts, GivesUpAtTheLimit, OnErr, process' = process
  PROVE  Counts' /\ GivesUpAtTheLimit'
<1>1. /\ listening /\ client = "live" /\ ~gaveUp /\ process # "off"
      /\ failed \in Nat /\ errorCount = failed
  BY DEF Counts, OnErr
<1>2. failed' \in Nat /\ errorCount' = failed' /\ failed' = failed + 1
  BY <1>1 DEF OnErr
<1>3. CASE GivesUp(errorCount')
  <2>1. gaveUp' = TRUE /\ listening' = FALSE /\ client' = "none" /\ GivesUp(failed')
    BY <1>2, <1>3 DEF OnErr
  <2> QED
    BY <1>1, <1>2, <2>1 DEF Counts, GivesUpAtTheLimit, CanPublish, GivesUp
<1>4. CASE ~GivesUp(errorCount')
  <2>1. UNCHANGED <<gaveUp, listening, client>> /\ ~GivesUp(failed')
    BY <1>2, <1>4 DEF OnErr
  <2> QED
    BY <1>1, <1>2, <2>1 DEF Counts, GivesUpAtTheLimit, GivesUp
<1> QED
  BY <1>3, <1>4

\* Steps that change neither the client nor the counts.
LEMMA StillCounts ==
  ASSUME Counts, GivesUpAtTheLimit,
         UNCHANGED <<client, listening, gaveUp, errorCount, failed>>,
         process' = "off" => process = "off"
  PROVE  Counts' /\ GivesUpAtTheLimit'
<1>1. gaveUp => client = "none"
  BY DEF Counts
<1> QED
  BY <1>1 DEF Counts, GivesUpAtTheLimit, CanPublish, GivesUp

LEMMA ConnectionCounts ==
  ASSUME Counts, GivesUpAtTheLimit, Connection
  PROVE  Counts' /\ GivesUpAtTheLimit'
<1>1. process' = process
  BY DEF Connection, Aside
<1>2. CASE OnErr
  BY <1>1, <1>2, OnErrCounts
<1>3. CASE OnConnect
  <2>1. /\ client' = client /\ listening' = listening /\ gaveUp' = gaveUp
        /\ failed' = 0 /\ errorCount' = 0 /\ listening
    BY <1>3 DEF OnConnect
  <2>2. client = "live" /\ ~gaveUp /\ process # "off"
    BY <2>1 DEF Counts
  <2>3. ~GivesUp(0)
    BY ReconnectsAssumption DEF GivesUp
  <2> QED
    BY <1>1, <2>1, <2>2, <2>3 DEF Counts, GivesUpAtTheLimit, GivesUp
<1>4. CASE SubscribeAnswers \/ GuardFires
  BY <1>1, <1>4, StillCounts DEF SubscribeAnswers, GuardFires
<1>5. CASE OnClose
  <2>1. UNCHANGED <<client, listening, gaveUp, errorCount, failed>>
    BY <1>5 DEF OnClose, CountAfterClose
  <2> QED
    BY <1>1, <2>1, StillCounts
<1>6. CASE EndAnswers
  <2>1. /\ client' = "none" /\ client = "ending"
        /\ UNCHANGED <<listening, gaveUp, errorCount, failed>>
    BY <1>6 DEF EndAnswers
  <2>2. ~listening /\ ~gaveUp /\ process # "off"
    BY <2>1 DEF Counts
  <2> QED
    BY <1>1, <2>1, <2>2 DEF Counts, GivesUpAtTheLimit
<1> QED
  BY <1>2, <1>3, <1>4, <1>5, <1>6 DEF Connection, ConnectionSteps

LEMMA ProcessCounts ==
  ASSUME Counts, GivesUpAtTheLimit, Start \/ Stop \/ Disconnects \/ Kill \/ Exit
  PROVE  Counts' /\ GivesUpAtTheLimit'
<1>1. CASE Start
  <2>1. /\ failed' = 0 /\ errorCount' = 0 /\ client' = "live" /\ gaveUp' = FALSE
        /\ process' = "starting"
    BY <1>1 DEF Start, Connect, Counts
  <2>2. ~GivesUp(0)
    BY ReconnectsAssumption DEF GivesUp
  <2> QED
    BY <2>1, <2>2 DEF Counts, GivesUpAtTheLimit, GivesUp
<1>2. CASE Disconnects
  <2>1. /\ client' = (IF client = "none" THEN "none" ELSE "ending")
        /\ listening' = FALSE /\ process' = "disconnecting"
        /\ UNCHANGED <<errorCount, failed, gaveUp>>
    BY <1>2 DEF Disconnects, Disconnect
  <2> QED
    BY <2>1 DEF Counts, GivesUpAtTheLimit, CanPublish, GivesUp
<1>3. CASE Kill \/ Exit
  <2>1. /\ client' = "none" /\ listening' = FALSE /\ gaveUp' = FALSE
        /\ errorCount' = 0 /\ failed' = 0
    BY <1>3 DEF Kill, Exit, ProcessEnds, ConnectionEnds
  <2> QED
    BY <2>1 DEF Counts, GivesUpAtTheLimit
<1>4. CASE Stop
  BY <1>4, StillCounts DEF Stop, mqtt, connection
<1> QED
  BY <1>1, <1>2, <1>3, <1>4

LEMMA CountsInv ==
  ASSUME Counts, GivesUpAtTheLimit, [Next]_dvars
  PROVE  Counts' /\ GivesUpAtTheLimit'
<1>1. ASSUME UNCHANGED <<client, listening, gaveUp, errorCount, failed, process>>
      PROVE  Counts' /\ GivesUpAtTheLimit'
  BY <1>1, StillCounts
<1>2. CASE UNCHANGED dvars
  BY <1>1, <1>2 DEF dvars, mqtt, connection
<1>3. ASSUME NEW c \in Commands, Enqueue(c) \/ TimerFires(c)
      PROVE  Counts' /\ GivesUpAtTheLimit'
  BY <1>1, <1>3 DEF Enqueue, TimerFires, mqtt, connection
<1>4. CASE Settles \/ Retries \/ Started
  <2>1. process' = "off" => process = "off"
    BY <1>4 DEF Settles, Retries, Started
  <2>2. UNCHANGED mqtt
    BY <1>4 DEF Settles, Retries, Started
  <2> QED
    BY <2>1, <2>2, StillCounts DEF mqtt, connection
<1>5. CASE Dispatched
  BY <1>1, <1>5 DEF Dispatched, Publish, mqtt, connection
<1>6. CASE SendAnswers
  BY <1>1, <1>6 DEF SendAnswers, PublishAnswers
<1>7. ASSUME GatesChange
      PROVE  Counts' /\ GivesUpAtTheLimit'
  BY <1>1, <1>7 DEF GatesChange, connection
<1>8. CASE Telemetry \/ Trips \/ Subsides \/ RegistrySettles
  BY <1>7, <1>8 DEF Telemetry, Trips, Subsides, RegistrySettles
<1>9. ASSUME NEW s \in {"ENABLED", "DISABLED", "REMOVED"}, SetStatus(s)
      PROVE  Counts' /\ GivesUpAtTheLimit'
  BY <1>7, <1>9 DEF SetStatus
<1> QED
  BY <1>2, <1>3, <1>4, <1>5, <1>6, <1>8, <1>9, ConnectionCounts, ProcessCounts DEF Next

-----------------------------------------------------------------------------
(* The commands in line: the one in the loop, then those of the order.     *)

Line(own, ord) == IF own = NoCmd THEN ord ELSE <<own>> \o ord

\* A command of the line is open, and in it once; a command with a timer is open
\* as well, was tried, and is not in the line.
Lined(q, cr, out, att, bo) ==
  /\ q \in Seq(Commands)
  /\ \A i, j \in 1..Len(q) : q[i] = q[j] => i = j
  /\ \A i \in 1..Len(q) : /\ out[q[i]] = "open" /\ q[i] \notin bo
                          /\ \E k \in 1..Len(cr) : cr[k] = q[i]
  /\ \A c \in bo : /\ c \in Commands /\ out[c] = "open" /\ att[c] > 0
                   /\ \E k \in 1..Len(cr) : cr[k] = c

Once(cr) == \A k, n \in 1..Len(cr) : cr[k] = cr[n] => k = n

\* c comes before d in a listing.
Ahead(li, c, d) == \E i, j \in 1..Len(li) : i < j /\ li[i] = c /\ li[j] = d

\* Nothing in the line is ahead of an older command that was not tried yet,
\* unless it was so in the listing.
Aged(q, cr, out, att, li) ==
  \A i, j \in 1..Len(q), k, n \in 1..Len(cr) :
    i < j /\ q[j] = cr[k] /\ q[i] = cr[n] /\ out[cr[k]] = "open" /\ att[cr[k]] = 0
      => n < k \/ Ahead(li, cr[n], cr[k])

\* A command that was not tried yet is in the line.
Present(q, cr, out, att) ==
  \A k \in 1..Len(cr) :
    out[cr[k]] = "open" /\ att[cr[k]] = 0 => \E i \in 1..Len(q) : q[i] = cr[k]

\* A command that is created joins the end of the line.
LEMMA Joins ==
  ASSUME NEW q, NEW cr \in Seq(Commands), NEW out, NEW att, NEW bo, NEW c \in Commands, NEW li,
         Lined(q, cr, out, att, bo), Once(cr), Aged(q, cr, out, att, li),
         \A k \in 1..Len(cr) : cr[k] # c, out[c] = "open"
  PROVE  /\ Lined(Append(q, c), Append(cr, c), out, att, bo) /\ Once(Append(cr, c))
         /\ Aged(Append(q, c), Append(cr, c), out, att, li)
         /\ Present(q, cr, out, att) => Present(Append(q, c), Append(cr, c), out, att)
<1> DEFINE p == Append(q, c)
           r == Append(cr, c)
<1>1. /\ q \in Seq(Commands) /\ Len(q) \in Nat /\ p \in Seq(Commands) /\ Len(p) = Len(q) + 1
      /\ p[Len(q) + 1] = c /\ \A i \in 1..Len(q) : p[i] = q[i]
  BY AppendProperties, LenProperties DEF Lined
<1>2. /\ Len(cr) \in Nat /\ Len(r) = Len(cr) + 1
      /\ r[Len(cr) + 1] = c /\ \A k \in 1..Len(cr) : r[k] = cr[k]
  BY AppendProperties, LenProperties
<1> HIDE DEF p, r
<1>3. /\ \A i \in 1..Len(p) : i \in 1..Len(q) \/ i = Len(q) + 1
      /\ \A k \in 1..Len(r) : k \in 1..Len(cr) \/ k = Len(cr) + 1
      /\ \A k \in 1..Len(cr) : k \in 1..Len(r)
      /\ \A i \in 1..Len(q) : i \in 1..Len(p)
      /\ Len(cr) + 1 \in 1..Len(r) /\ Len(q) + 1 \in 1..Len(p)
  BY <1>1, <1>2
<1>4. \A i \in 1..Len(q) : q[i] # c
  <2> SUFFICES ASSUME NEW i \in 1..Len(q)
               PROVE  q[i] # c
    OBVIOUS
  <2>1. \E k \in 1..Len(cr) : cr[k] = q[i]
    BY DEF Lined
  <2> QED
    BY <2>1
<1>5. c \notin bo
  BY DEF Lined
<1>6. Once(r)
  BY <1>2, <1>3 DEF Once
<1>7. Lined(p, r, out, att, bo)
  <2>1. ASSUME NEW i \in 1..Len(p), NEW j \in 1..Len(p), p[i] = p[j]
        PROVE  i = j
    <3>1. CASE i \in 1..Len(q) /\ j \in 1..Len(q)
      <4>1. q[i] = q[j]
        BY <1>1, <2>1, <3>1
      <4> QED
        BY <3>1, <4>1 DEF Lined
    <3>2. CASE i = Len(q) + 1 /\ j = Len(q) + 1
      BY <3>2
    <3>3. CASE (i \in 1..Len(q) /\ j = Len(q) + 1) \/ (i = Len(q) + 1 /\ j \in 1..Len(q))
      BY <1>1, <1>2, <2>1, <3>3, <1>4
    <3> QED
      BY <1>3, <3>1, <3>2, <3>3
  <2>2. ASSUME NEW i \in 1..Len(p)
        PROVE  /\ out[p[i]] = "open" /\ p[i] \notin bo
               /\ \E k \in 1..Len(r) : r[k] = p[i]
    <3>1. CASE i \in 1..Len(q)
      <4>1. /\ out[q[i]] = "open" /\ q[i] \notin bo
            /\ \E k \in 1..Len(cr) : cr[k] = q[i]
        BY <3>1 DEF Lined
      <4> QED
        BY <1>1, <1>2, <1>3, <3>1, <4>1
    <3>2. CASE i = Len(q) + 1
      BY <1>1, <1>2, <1>3, <1>5, <3>2
    <3> QED
      BY <1>3, <3>1, <3>2
  <2>3. ASSUME NEW e \in bo
        PROVE  /\ e \in Commands /\ out[e] = "open" /\ att[e] > 0
               /\ \E k \in 1..Len(r) : r[k] = e
    <3>1. /\ e \in Commands /\ out[e] = "open" /\ att[e] > 0
          /\ \E k \in 1..Len(cr) : cr[k] = e
      BY DEF Lined
    <3> QED
      BY <1>2, <1>3, <3>1
  <2> QED
    BY <1>1, <2>1, <2>2, <2>3 DEF Lined
<1>8. Aged(p, r, out, att, li)
  <2> SUFFICES ASSUME NEW i \in 1..Len(p), NEW j \in 1..Len(p),
                      NEW k \in 1..Len(r), NEW n \in 1..Len(r),
                      i < j, p[j] = r[k], p[i] = r[n], out[r[k]] = "open", att[r[k]] = 0
               PROVE  n < k \/ Ahead(li, r[n], r[k])
    BY DEF Aged
  <2>1. i \in 1..Len(q) /\ p[i] # c
    <3>1. Len(q) \in Nat /\ Len(p) = Len(q) + 1
      BY <1>1
    <3>2. i \in 1..Len(q)
      BY <3>1
    <3> QED
      BY <1>1, <1>4, <3>2
  <2>2. n \in 1..Len(cr)
    BY <1>2, <1>3, <2>1
  <2>3. CASE j \in 1..Len(q)
    <3>1. k \in 1..Len(cr)
      BY <1>1, <1>2, <1>3, <1>4, <2>3
    <3> QED
      BY <1>1, <1>2, <2>1, <2>2, <2>3, <3>1 DEF Aged
  <2>4. CASE j = Len(q) + 1
    <3>1. k = Len(cr) + 1
      BY <1>1, <1>2, <1>3, <2>4
    <3> QED
      BY <1>2, <2>2, <3>1
  <2> QED
    BY <1>3, <2>3, <2>4
<1>9. ASSUME Present(q, cr, out, att)
      PROVE  Present(p, r, out, att)
  <2> SUFFICES ASSUME NEW k \in 1..Len(r), out[r[k]] = "open", att[r[k]] = 0
               PROVE  \E i \in 1..Len(p) : p[i] = r[k]
    BY DEF Present
  <2>1. CASE k \in 1..Len(cr)
    <3>1. r[k] = cr[k]
      BY <1>2, <2>1
    <3>2. PICK i \in 1..Len(q) : q[i] = cr[k]
      BY <1>9, <2>1, <3>1 DEF Present
    <3> QED
      BY <1>1, <1>3, <3>1, <3>2
  <2>2. CASE k = Len(cr) + 1
    BY <1>1, <1>2, <1>3, <2>2
  <2> QED
    BY <1>3, <2>1, <2>2
<1> QED
  BY <1>6, <1>7, <1>8, <1>9 DEF p, r

\* A command whose timer fired joins the end of the line again.
LEMMA Rejoins ==
  ASSUME NEW q, NEW cr \in Seq(Commands), NEW out, NEW att, NEW bo, NEW c \in bo, NEW li,
         Lined(q, cr, out, att, bo), Aged(q, cr, out, att, li)
  PROVE  /\ Lined(Append(q, c), cr, out, att, bo \ {c})
         /\ Aged(Append(q, c), cr, out, att, li)
         /\ Present(q, cr, out, att) => Present(Append(q, c), cr, out, att)
<1> DEFINE p == Append(q, c)
<1>1. /\ c \in Commands /\ out[c] = "open" /\ att[c] > 0
      /\ \E k \in 1..Len(cr) : cr[k] = c
      /\ \A i \in 1..Len(q) : q[i] # c
  BY DEF Lined
<1>2. /\ q \in Seq(Commands) /\ Len(q) \in Nat /\ p \in Seq(Commands) /\ Len(p) = Len(q) + 1
      /\ p[Len(q) + 1] = c /\ \A i \in 1..Len(q) : p[i] = q[i]
  BY <1>1, AppendProperties, LenProperties DEF Lined
<1> HIDE DEF p
<1>3. /\ \A i \in 1..Len(p) : i \in 1..Len(q) \/ i = Len(q) + 1
      /\ \A i \in 1..Len(q) : i \in 1..Len(p)
  BY <1>2
<1>4. Lined(p, cr, out, att, bo \ {c})
  <2>1. ASSUME NEW i \in 1..Len(p), NEW j \in 1..Len(p), p[i] = p[j]
        PROVE  i = j
    <3>1. CASE i \in 1..Len(q) /\ j \in 1..Len(q)
      <4>1. q[i] = q[j]
        BY <1>2, <2>1, <3>1
      <4> QED
        BY <3>1, <4>1 DEF Lined
    <3>2. CASE i = Len(q) + 1 /\ j = Len(q) + 1
      BY <3>2
    <3>3. CASE (i \in 1..Len(q) /\ j = Len(q) + 1) \/ (i = Len(q) + 1 /\ j \in 1..Len(q))
      BY <1>1, <1>2, <2>1, <3>3
    <3> QED
      BY <1>3, <3>1, <3>2, <3>3
  <2>2. ASSUME NEW i \in 1..Len(p)
        PROVE  /\ out[p[i]] = "open" /\ p[i] \notin bo \ {c}
               /\ \E k \in 1..Len(cr) : cr[k] = p[i]
    <3>1. CASE i \in 1..Len(q)
      <4>1. /\ out[q[i]] = "open" /\ q[i] \notin bo
            /\ \E k \in 1..Len(cr) : cr[k] = q[i]
        BY <3>1 DEF Lined
      <4> QED
        BY <1>2, <3>1, <4>1
    <3>2. CASE i = Len(q) + 1
      BY <1>1, <1>2, <3>2
    <3> QED
      BY <1>3, <3>1, <3>2
  <2>3. \A e \in bo \ {c} : /\ e \in Commands /\ out[e] = "open" /\ att[e] > 0
                            /\ \E k \in 1..Len(cr) : cr[k] = e
    BY DEF Lined
  <2> QED
    BY <1>2, <2>1, <2>2, <2>3 DEF Lined
<1>5. Aged(p, cr, out, att, li)
  <2> SUFFICES ASSUME NEW i \in 1..Len(p), NEW j \in 1..Len(p),
                      NEW k \in 1..Len(cr), NEW n \in 1..Len(cr),
                      i < j, p[j] = cr[k], p[i] = cr[n], out[cr[k]] = "open", att[cr[k]] = 0
               PROVE  n < k \/ Ahead(li, cr[n], cr[k])
    BY DEF Aged
  <2>1. j \in 1..Len(q)
    <3>1. p[j] # c
      BY <1>1
    <3> QED
      BY <1>2, <1>3, <3>1
  <2>2. i \in 1..Len(q)
    BY <1>2, <2>1
  <2> QED
    BY <1>2, <2>1, <2>2 DEF Aged
<1>6. ASSUME Present(q, cr, out, att)
      PROVE  Present(p, cr, out, att)
  <2> SUFFICES ASSUME NEW k \in 1..Len(cr), out[cr[k]] = "open", att[cr[k]] = 0
               PROVE  \E i \in 1..Len(p) : p[i] = cr[k]
    BY DEF Present
  <2>1. PICK i \in 1..Len(q) : q[i] = cr[k]
    BY <1>6 DEF Present
  <2> QED
    BY <1>2, <1>3, <2>1
<1> QED
  BY <1>4, <1>5, <1>6 DEF p

\* The first command leaves the line: it is settled, or its attempt is counted
\* and it may have a timer.
LEMMA Leaves ==
  ASSUME NEW q, NEW cr \in Seq(Commands), NEW out \in [Commands -> {"open", "ACKED", "FAILED"}],
         NEW att \in [Commands -> Nat],
         NEW out2, NEW att2, NEW bo, NEW bo2, NEW li, q # <<>>,
         Lined(q, cr, out, att, bo), Aged(q, cr, out, att, li),
         \/ /\ \E s \in {"ACKED", "FAILED"} : out2 = [out EXCEPT ![q[1]] = s]
            /\ att2 = att /\ bo2 = bo
         \/ /\ out2 = out /\ att2 = [att EXCEPT ![q[1]] = @ + 1]
            /\ bo2 \in {{}, bo \cup {q[1]}}
  PROVE  /\ Lined(Tail(q), cr, out2, att2, bo2)
         /\ Aged(Tail(q), cr, out2, att2, li)
         /\ Present(q, cr, out, att) => Present(Tail(q), cr, out2, att2)
<1> DEFINE c == q[1]
           p == Tail(q)
<1>1. q \in Seq(Commands) /\ Len(q) \in Nat \ {0}
  BY EmptySeq DEF Lined
<1>2. /\ p \in Seq(Commands) /\ Len(p) = Len(q) - 1
      /\ \A i \in 1..Len(p) : p[i] = q[i + 1]
  BY <1>1, HeadTailProperties
<1>3. 1 \in 1..Len(q) /\ c \in Commands
  BY <1>1, ElementOfSeq
<1> HIDE DEF p
<1>4. \A i \in 1..Len(p) : i + 1 \in 1..Len(q) /\ i + 1 # 1
  BY <1>1, <1>2
<1>5. \A i \in 1..Len(p) : p[i] # c
  BY <1>2, <1>3, <1>4 DEF Lined
<1> HIDE DEF c
<1>6. out[c] = "open" /\ c \notin bo /\ \E k \in 1..Len(cr) : cr[k] = c
  BY <1>3 DEF Lined, c
<1>7. /\ \A e \in Commands : e # c => out2[e] = out[e] /\ att2[e] = att[e]
      /\ out2[c] # "open" \/ att2[c] > 0
      /\ bo2 = bo \/ bo2 = {} \/ (bo2 = bo \cup {c} /\ out2[c] = "open" /\ att2[c] > 0)
  BY <1>3, <1>6 DEF c
<1>8. Lined(p, cr, out2, att2, bo2)
  <2>1. \A i, j \in 1..Len(p) : p[i] = p[j] => i = j
    <3> SUFFICES ASSUME NEW i \in 1..Len(p), NEW j \in 1..Len(p), p[i] = p[j]
                 PROVE  i = j
      OBVIOUS
    <3>1. \A a, b \in 1..Len(q) : q[a] = q[b] => a = b
      BY DEF Lined
    <3>2. q[i + 1] = q[j + 1] /\ i + 1 \in 1..Len(q) /\ j + 1 \in 1..Len(q)
      BY <1>2, <1>4
    <3>3. i + 1 = j + 1
      BY <3>1, <3>2
    <3> QED
      BY <3>3
  <2>2. ASSUME NEW i \in 1..Len(p)
        PROVE  /\ out2[p[i]] = "open" /\ p[i] \notin bo2
               /\ \E k \in 1..Len(cr) : cr[k] = p[i]
    <3>1. /\ out[q[i + 1]] = "open" /\ q[i + 1] \notin bo
          /\ \E k \in 1..Len(cr) : cr[k] = q[i + 1]
      BY <1>4 DEF Lined
    <3>2. p[i] = q[i + 1] /\ p[i] # c /\ p[i] \in Commands
      BY <1>2, <1>5, ElementOfSeq
    <3> QED
      BY <1>7, <3>1, <3>2
  <2>3. ASSUME NEW e \in bo2
        PROVE  /\ e \in Commands /\ out2[e] = "open" /\ att2[e] > 0
               /\ \E k \in 1..Len(cr) : cr[k] = e
    <3>1. CASE e \in bo
      <4>1. /\ e \in Commands /\ out[e] = "open" /\ att[e] > 0
            /\ \E k \in 1..Len(cr) : cr[k] = e
        BY <3>1 DEF Lined
      <4>2. e # c
        BY <1>6, <3>1
      <4> QED
        BY <1>7, <4>1, <4>2
    <3>2. CASE e \notin bo
      <4>1. e = c /\ out2[c] = "open" /\ att2[c] > 0
        BY <1>7, <3>2
      <4> QED
        BY <1>3, <1>6, <4>1 DEF c
    <3> QED
      BY <3>1, <3>2
  <2> QED
    BY <1>2, <2>1, <2>2, <2>3 DEF Lined
<1>9. Aged(p, cr, out2, att2, li)
  <2> SUFFICES ASSUME NEW i \in 1..Len(p), NEW j \in 1..Len(p),
                      NEW k \in 1..Len(cr), NEW n \in 1..Len(cr),
                      i < j, p[j] = cr[k], p[i] = cr[n], out2[cr[k]] = "open", att2[cr[k]] = 0
               PROVE  n < k \/ Ahead(li, cr[n], cr[k])
    BY DEF Aged
  <2>1. p[j] # c /\ p[j] \in Commands
    BY <1>2, <1>5, ElementOfSeq
  <2>2. out[cr[k]] = "open" /\ att[cr[k]] = 0
    BY <1>7, <2>1
  <2>3. q[j + 1] = cr[k] /\ q[i + 1] = cr[n] /\ i + 1 < j + 1
    <3>1. p[j] = q[j + 1] /\ p[i] = q[i + 1]
      BY <1>2
    <3> QED
      BY <3>1
  <2> QED
    BY <1>4, <2>2, <2>3 DEF Aged
<1>10. ASSUME Present(q, cr, out, att)
       PROVE  Present(p, cr, out2, att2)
  <2> SUFFICES ASSUME NEW k \in 1..Len(cr), out2[cr[k]] = "open", att2[cr[k]] = 0
               PROVE  \E i \in 1..Len(p) : p[i] = cr[k]
    BY DEF Present
  <2>1. cr[k] # c /\ cr[k] \in Commands
    <3>1. cr[k] \in Commands
      BY ElementOfSeq
    <3>2. att2[c] # 0 \/ out2[c] # "open"
      BY <1>7
    <3> QED
      BY <3>1, <3>2
  <2>2. PICK i \in 1..Len(q) : q[i] = cr[k]
    BY <1>7, <1>10, <2>1 DEF Present
  <2>3. i # 1
    BY <2>1, <2>2 DEF c
  <2>4. i - 1 \in 1..Len(p) /\ (i - 1) + 1 = i
    BY <1>1, <1>2, <2>3
  <2>5. p[i - 1] = q[(i - 1) + 1]
    BY <1>2, <2>4
  <2> QED
    BY <2>2, <2>4, <2>5
<1> QED
  BY <1>8, <1>9, <1>10 DEF p

\* After a start the line is what was recovered, in the order of the listing.
LEMMA Recovers ==
  ASSUME NEW cr \in Seq(Commands), NEW out, NEW att, NEW U, NEW q,
         U \subseteq Commands, IsFiniteSet(U),
         \A c \in U : out[c] = "open" /\ \E k \in 1..Len(cr) : cr[k] = c,
         \A k \in 1..Len(cr) : out[cr[k]] = "open" => cr[k] \in U,
         q \in [1..Cardinality(U) -> U],
         \A i, j \in 1..Cardinality(U) : q[i] = q[j] => i = j,
         \A c \in U : \E i \in 1..Cardinality(U) : q[i] = c
  PROVE  /\ Lined(q, cr, out, att, {})
         /\ Aged(q, cr, out, att, q)
         /\ Present(q, cr, out, att)
<1> DEFINE m == Cardinality(U)
<1>1. m \in Nat
  BY FS_CardinalityType
<1> HIDE DEF m
<1>2. q \in [1..m -> Commands]
  BY DEF m
<1>3. q \in Seq(Commands)
  BY <1>1, <1>2
<1>4. Len(q) = m
  BY <1>1, <1>2, <1>3, LenProperties
<1>5. /\ \A i \in 1..Len(q) : q[i] \in U
      /\ \A i, j \in 1..Len(q) : q[i] = q[j] => i = j
      /\ \A c \in U : \E i \in 1..Len(q) : q[i] = c
  BY <1>4 DEF m
<1>6. Lined(q, cr, out, att, {})
  BY <1>3, <1>5 DEF Lined
<1>7. Aged(q, cr, out, att, q)
  BY DEF Aged, Ahead
<1>8. Present(q, cr, out, att)
  BY <1>5 DEF Present
<1> QED
  BY <1>6, <1>7, <1>8

-----------------------------------------------------------------------------
(* The line and the loop.                                                  *)

\* The line with a command in the loop.
LEMMA LineOwned ==
  ASSUME NEW own \in Commands, NEW ord \in Seq(Commands)
  PROVE  /\ Line(own, ord) \in Seq(Commands) /\ Line(own, ord) # <<>>
         /\ Line(own, ord)[1] = own /\ Tail(Line(own, ord)) = ord
         /\ \A c \in Commands : Line(own, Append(ord, c)) = Append(Line(own, ord), c)
<1> DEFINE q == Line(own, ord)
<1>1. /\ <<own>> \in Seq(Commands) /\ Len(<<own>>) = 1 /\ <<own>>[1] = own
      /\ Len(ord) \in Nat
  BY LenProperties
<1>2. \A s \in Seq(Commands) :
        /\ Line(own, s) \in Seq(Commands) /\ Len(Line(own, s)) = Len(s) + 1
        /\ Line(own, s)[1] = own
        /\ \A i \in 1..Len(s) : Line(own, s)[i + 1] = s[i]
  <2> SUFFICES ASSUME NEW s \in Seq(Commands)
               PROVE  /\ Line(own, s) \in Seq(Commands) /\ Len(Line(own, s)) = Len(s) + 1
                      /\ Line(own, s)[1] = own
                      /\ \A i \in 1..Len(s) : Line(own, s)[i + 1] = s[i]
    OBVIOUS
  <2>1. Line(own, s) = <<own>> \o s /\ Len(s) \in Nat
    BY DispatchMarks, LenProperties DEF Line
  <2>2. /\ <<own>> \o s \in Seq(Commands) /\ Len(<<own>> \o s) = 1 + Len(s)
        /\ \A i \in 1..(1 + Len(s)) :
             (<<own>> \o s)[i] = IF i <= 1 THEN <<own>>[i] ELSE s[i - 1]
    BY <1>1, ConcatProperties
  <2>3. \A i \in 1..Len(s) : /\ i + 1 \in 1..(1 + Len(s)) /\ ~ (i + 1 <= 1)
                             /\ (i + 1) - 1 = i
    BY <2>1
  <2>4. 1 \in 1..(1 + Len(s))
    BY <2>1
  <2> QED
    BY <1>1, <2>1, <2>2, <2>3, <2>4
<1>3. /\ q \in Seq(Commands) /\ Len(q) = Len(ord) + 1 /\ q[1] = own
      /\ \A i \in 1..Len(ord) : q[i + 1] = ord[i]
  BY <1>2
<1> HIDE DEF q
<1>4. q # <<>>
  BY <1>1, <1>3, EmptySeq
<1>5. Tail(q) = ord
  <2>1. /\ Tail(q) \in Seq(Commands) /\ Len(Tail(q)) = Len(q) - 1
        /\ \A i \in 1..Len(Tail(q)) : Tail(q)[i] = q[i + 1]
    BY <1>3, <1>4, HeadTailProperties
  <2>2. Len(Tail(q)) = Len(ord)
    BY <1>1, <1>3, <2>1
  <2>3. \A i \in 1..Len(Tail(q)) : Tail(q)[i] = ord[i]
    BY <1>3, <2>1, <2>2
  <2> QED
    BY <2>1, <2>2, <2>3, SeqEqual
<1>6. ASSUME NEW c \in Commands
      PROVE  Line(own, Append(ord, c)) = Append(q, c)
  <2> DEFINE r == Append(ord, c)
             s == Line(own, r)
             t == Append(q, c)
  <2>1. /\ r \in Seq(Commands) /\ Len(r) = Len(ord) + 1 /\ r[Len(ord) + 1] = c
        /\ \A i \in 1..Len(ord) : r[i] = ord[i]
    BY AppendProperties
  <2> HIDE DEF r
  <2>2. /\ s \in Seq(Commands) /\ Len(s) = Len(r) + 1 /\ s[1] = own
        /\ \A i \in 1..Len(r) : s[i + 1] = r[i]
    BY <1>2, <2>1
  <2>3. /\ t \in Seq(Commands) /\ Len(t) = Len(q) + 1 /\ t[Len(q) + 1] = c
        /\ \A i \in 1..Len(q) : t[i] = q[i]
    BY <1>3, AppendProperties
  <2> HIDE DEF s, t
  <2>4. Len(s) = Len(t)
    BY <1>3, <2>1, <2>2, <2>3
  <2>5. ASSUME NEW i \in 1..Len(s)
        PROVE  s[i] = t[i]
    <3>1. CASE i = 1
      BY <1>1, <1>3, <2>2, <2>3, <3>1
    <3>2. CASE i # 1
      <4>1. PICK k \in 1..Len(r) : i = k + 1
        <5>1. i - 1 \in 1..Len(r) /\ i = (i - 1) + 1
          BY <1>1, <2>1, <2>2, <3>2
        <5> QED
          BY <5>1
      <4>2. s[i] = r[k]
        BY <2>2, <4>1
      <4>3. CASE k \in 1..Len(ord)
        <5>1. r[k] = ord[k] /\ q[k + 1] = ord[k] /\ k + 1 \in 1..Len(q)
          BY <1>1, <1>3, <2>1, <4>3
        <5> QED
          BY <2>3, <4>1, <4>2, <5>1
      <4>4. CASE k = Len(ord) + 1
        <5>1. k + 1 = Len(q) + 1
          BY <1>1, <1>3, <4>4
        <5> QED
          BY <2>1, <2>3, <4>1, <4>2, <4>4, <5>1
      <4>5. k \in 1..Len(ord) \/ k = Len(ord) + 1
        BY <1>1, <2>1
      <4> QED
        BY <4>3, <4>4, <4>5
    <3> QED
      BY <3>1, <3>2
  <2>6. s = t
    BY <2>2, <2>3, <2>4, <2>5, SeqEqual
  <2> QED
    BY <2>6 DEF r, s, t
<1> QED
  BY <1>3, <1>4, <1>5, <1>6 DEF q

\* Taking the first command of the order into the loop leaves the line as it is.
LEMMA LineTaken ==
  ASSUME NEW ord \in Seq(Commands), ord # <<>>
  PROVE  /\ Head(ord) \in Commands /\ Tail(ord) \in Seq(Commands)
         /\ Line(Head(ord), Tail(ord)) = ord
<1> DEFINE h == Head(ord)
           t == Tail(ord)
           q == Line(h, t)
<1>1. Len(ord) \in Nat \ {0}
  BY EmptySeq
<1>2. /\ h = ord[1] /\ h \in Commands /\ t \in Seq(Commands) /\ Len(t) = Len(ord) - 1
      /\ \A i \in 1..Len(t) : t[i] = ord[i + 1]
  BY <1>1, HeadTailProperties
<1> HIDE DEF h, t
<1>3. q \in Seq(Commands) /\ q # <<>> /\ q[1] = h /\ Tail(q) = t
  BY <1>2, LineOwned
<1> HIDE DEF q
<1>4. Len(q) \in Nat \ {0}
  BY <1>3, EmptySeq
<1>5. /\ Len(t) = Len(q) - 1 /\ \A i \in 1..Len(t) : t[i] = q[i + 1]
  BY <1>3, HeadTailProperties
<1>6. Len(q) = Len(ord)
  BY <1>1, <1>2, <1>4, <1>5
<1>7. ASSUME NEW i \in 1..Len(q)
      PROVE  q[i] = ord[i]
  <2>1. CASE i = 1
    BY <1>2, <1>3, <2>1
  <2>2. CASE i # 1
    <3>1. PICK k \in 1..Len(t) : i = k + 1
      <4>1. i - 1 \in 1..Len(t) /\ i = (i - 1) + 1
        BY <1>1, <1>2, <1>6, <2>2
      <4> QED
        BY <4>1
    <3>2. t[k] = ord[i] /\ t[k] = q[i]
      BY <1>2, <1>5, <3>1
    <3> QED
      BY <3>2
  <2> QED
    BY <2>1, <2>2
<1>8. q = ord
  BY <1>3, <1>6, <1>7, SeqEqual
<1> QED
  BY <1>2, <1>8 DEF h, t, q

\* What a command in the loop sends.
Shapes(own, aw, sh) ==
  /\ IF own = NoCmd THEN sh = Unknown
     ELSE sh \in {Unknown} \cup 0..Limit(Request[own].type)
  /\ aw \in {"DISPATCHING", "sending"} => sh # Unknown

LEMMA ShapeType ==
  ASSUME NEW c \in Commands
  PROVE  /\ Shape(Request[c]) \in 0..Limit(Request[c].type)
         /\ Shape(Request[c]) # Unknown
<1> DEFINE hi == Limit(Request[c].type)
           v == Request[c].value
<1>1. hi \in Nat
  BY DispatchLimits DEF Limit
<1>2. v \in Int \cup {NotANumber}
  BY RequestsAssumption
<1> HIDE DEF hi, v
<1>3. Clamp(v, hi) \in 0..hi
  <2>1. CASE v = NotANumber
    BY <1>1, <2>1 DEF Clamp
  <2>2. CASE v \in Int /\ v # NotANumber
    BY <1>1, <2>2 DEF Clamp
  <2> QED
    BY <1>2, <2>1, <2>2
<1>4. Clamp(v, hi) # Unknown
  BY <1>1, <1>3, DispatchMarks
<1> QED
  BY <1>3, <1>4 DEF Shape, hi, v

\* What a turn of the loop comes to, given the line it looks at.
Turned(line) ==
  /\ order' \in Seq(Commands) /\ owned' \in Commands \cup {NoCmd}
  /\ Line(owned', order') = line
  /\ awaits' \in {"nothing", "DISPATCHING", "FAILED", "RETRY"}
  /\ (owned' = NoCmd <=> awaits' = "nothing") /\ Shapes(owned', awaits', shaped')
  /\ awaits' = "RETRY" => attempts[owned'] + 1 < MaxAttempts
  /\ owned' # NoCmd => line # <<>> /\ owned' = line[1]
  /\ refused' \subseteq Commands
  /\ \A c \in refused' : c \in refused \/ (c = owned' /\ awaits' = "FAILED")

LEMMA TakeTurns ==
  ASSUME NEW line \in Seq(Commands), TakeNext(line), refused \subseteq Commands,
         attempts \in [Commands -> 0..MaxAttempts]
  PROVE  Turned(line)
<1>1. CASE line = <<>> \/ Stopping
  <2>1. order' = line /\ owned' = NoCmd /\ awaits' = "nothing" /\ shaped' = Unknown
        /\ refused' = refused
    BY <1>1 DEF TakeNext
  <2>2. Line(owned', order') = line /\ Shapes(owned', awaits', shaped')
    BY <2>1 DEF Line, Shapes
  <2> QED
    BY <2>1, <2>2 DEF Turned
<1>2. CASE ~ (line = <<>> \/ Stopping)
  <2>1. /\ Head(line) \in Commands /\ Tail(line) \in Seq(Commands)
        /\ Line(Head(line), Tail(line)) = line
    BY <1>2, LineTaken
  <2>2. Head(line) = line[1] /\ line # <<>>
    BY <1>2, HeadTailProperties
  <2>3. PICK c \in Commands : c = Head(line)
    BY <2>1
  <2>4. Take(c, Tail(line))
    BY <1>2, <2>3 DEF TakeNext
  <2>5. /\ order' = Tail(line) /\ owned' = c /\ c # NoCmd
    BY <2>4, DispatchMarks DEF Take
  <2>6. /\ awaits' \in {"DISPATCHING", "FAILED", "RETRY"}
        /\ awaits' = "RETRY" => attempts[c] + 1 < MaxAttempts
        /\ refused' \subseteq Commands
        /\ \A e \in refused' : e \in refused \/ (e = c /\ awaits' = "FAILED")
    <3>1. attempts[c] \in Nat /\ MaxAttempts \in Nat
      BY DispatchLimits
    <3> QED
      BY <2>4, <3>1 DEF Take, FailedAttempt, RefusalEnds
  <2>7. Shapes(c, awaits', shaped')
    <3>1. /\ shaped' \in {Unknown, Shape(Request[c])}
          /\ awaits' = "DISPATCHING" => shaped' = Shape(Request[c])
          /\ awaits' # "sending"
      BY <2>4 DEF Take, FailedAttempt, RefusalEnds
    <3> QED
      BY <2>5, <3>1, ShapeType DEF Shapes
  <2> QED
    BY <2>1, <2>2, <2>3, <2>5, <2>6, <2>7 DEF Turned
<1> QED
  BY <1>1, <1>2
-----------------------------------------------------------------------------
(* Types.                                                                  *)

Connected == MqttTypeOK /\ failed <= events

\* What the loop works on.
Working ==
  /\ created \in Seq(Commands) /\ outcome \in [Commands -> {"open", "ACKED", "FAILED"}]
  /\ attempts \in [Commands -> 0..MaxAttempts]
  /\ order \in Seq(Commands) /\ backoff \subseteq Commands
  /\ owned \in Commands \cup {NoCmd} /\ refused \subseteq Commands
  /\ awaits \in {"nothing", "DISPATCHING", "sending", "ACKED", "FAILED", "RETRY"}
  /\ (owned = NoCmd <=> awaits = "nothing") /\ Shapes(owned, awaits, shaped)
  /\ awaits = "RETRY" => attempts[owned] + 1 < MaxAttempts

\* What stands around it.
Around ==
  /\ process \in {"off", "starting", "running", "stopping", "disconnecting"}
  /\ {registry, stored} \subseteq {"ENABLED", "DISABLED", "REMOVED"}
  /\ removing \in BOOLEAN /\ routed \in BOOLEAN
  /\ breaker \in {"unheard", "open", "closed"} /\ soc \in Socs \cup {Unknown}
  /\ slipped \in Nat /\ listed \in Seq(Commands) /\ ends \in 0..MaxEnds
  /\ Stopping => ends < MaxEnds

Typed == Connected /\ Working /\ Around

\* The commands of one process: each is created once, the line and the timers
\* hold those that are open, a process that is down holds none, and what the
\* validator refused is failed or is about to be.
Standing ==
  /\ Once(created)
  /\ Lined(Line(owned, order), created, outcome, attempts, backoff)
  /\ Aged(Line(owned, order), created, outcome, attempts, listed)
  /\ process # "off" => Present(Line(owned, order), created, outcome, attempts)
  /\ process = "off" => /\ order = <<>> /\ owned = NoCmd /\ awaits = "nothing"
                        /\ backoff = {} /\ refused = {}
  /\ \A c \in refused : outcome[c] = "FAILED" \/ (c = owned /\ awaits = "FAILED")
  /\ \A c \in Commands : (\A k \in 1..Len(created) : created[k] # c) => outcome[c] = "open"

LEMMA TypedIsTypeOK == Typed => TypeOK
BY DispatchLimits DEF Typed, Connected, Working, Around, TypeOK, Shapes

\* Every listing is one of what is unsettled.
LEMMA ListingsRecover ==
  ASSUME Working, NEW q \in Listings
  PROVE  /\ q \in Seq(Commands) /\ Lined(q, created, outcome, attempts, {})
         /\ Aged(q, created, outcome, attempts, q) /\ Present(q, created, outcome, attempts)
<1>1. created \in Seq(Commands)
  BY DEF Working
<1>2. \A k \in 1..Len(created) : created[k] \in Commands
  BY <1>1, ElementOfSeq
<1>3. Unsettled \subseteq Commands
  BY <1>2 DEF Unsettled, Elements
<1>4. IsFiniteSet(Unsettled)
  BY <1>3, DispatchMarks, FS_Subset
<1>5. /\ \A c \in Unsettled : outcome[c] = "open" /\ \E k \in 1..Len(created) : created[k] = c
      /\ \A k \in 1..Len(created) : outcome[created[k]] = "open" => created[k] \in Unsettled
  BY DEF Unsettled, Elements
<1>6. /\ q \in [1..Cardinality(Unsettled) -> Unsettled]
      /\ \A i, j \in 1..Cardinality(Unsettled) : q[i] = q[j] => i = j
      /\ \A c \in Unsettled : \E i \in 1..Cardinality(Unsettled) : q[i] = c
  BY DEF Listings
<1>7. /\ Lined(q, created, outcome, attempts, {})
      /\ Aged(q, created, outcome, attempts, q) /\ Present(q, created, outcome, attempts)
  BY <1>1, <1>3, <1>4, <1>5, <1>6, Recovers
<1> QED
  BY <1>7 DEF Lined
\* The connection keeps its types, whatever the rest does.
LEMMA ConnectedNext ==
  ASSUME Connected, errorCount = failed,
         ConnectionSteps \/ EndAnswers \/ Connect \/ Disconnect \/ ConnectionEnds \/ Publish
           \/ PublishAnswers \/ UNCHANGED mqtt \/ (UNCHANGED connection /\ events' = events)
           \/ (UNCHANGED connection /\ Happens)
  PROVE  Connected'
<1>1. MaxEvents \in Nat /\ events \in Nat /\ failed \in Nat /\ events <= MaxEvents
  BY ReconnectsAssumption DEF Connected, MqttTypeOK
<1>2. CASE UNCHANGED mqtt \/ (UNCHANGED connection /\ events' = events)
  BY <1>2 DEF Connected, MqttTypeOK, mqtt, connection
<1>3. CASE UNCHANGED connection /\ Happens
  BY <1>1, <1>3 DEF Connected, MqttTypeOK, connection, Happens
<1>4. CASE OnConnect
  <2>1. /\ errorCount' \in 0..MaxEvents /\ failed' \in 0..MaxEvents
        /\ events' \in 0..MaxEvents /\ failed' <= events'
    BY <1>1, <1>4 DEF OnConnect, Connected, MqttTypeOK
  <2>2. /\ client' \in {"none", "live", "ending"} /\ link' \in Links
        /\ listening' \in BOOLEAN /\ connected' \in BOOLEAN /\ gaveUp' \in BOOLEAN
        /\ connecting' \in BOOLEAN /\ publishing' \in BOOLEAN
    BY <1>4, Zenon DEF OnConnect, Connected, MqttTypeOK, Links
  <2> QED
    BY <2>1, <2>2 DEF Connected, MqttTypeOK
<1>5. CASE SubscribeAnswers
  <2>1. /\ errorCount' \in 0..MaxEvents /\ failed' \in 0..MaxEvents
        /\ events' \in 0..MaxEvents /\ failed' <= events'
    BY <1>1, <1>5 DEF SubscribeAnswers, Connected, MqttTypeOK, Happens
  <2>2. /\ client' \in {"none", "live", "ending"} /\ link' \in Links
        /\ listening' \in BOOLEAN /\ connected' \in BOOLEAN /\ gaveUp' \in BOOLEAN
        /\ connecting' \in BOOLEAN /\ publishing' \in BOOLEAN
    BY <1>5, Zenon DEF SubscribeAnswers, Connected, MqttTypeOK, Links
  <2> QED
    BY <2>1, <2>2 DEF Connected, MqttTypeOK
<1>6. CASE OnClose
  <2>1. /\ errorCount' \in 0..MaxEvents /\ failed' \in 0..MaxEvents
        /\ events' \in 0..MaxEvents /\ failed' <= events'
    BY <1>1, <1>6 DEF OnClose, Connected, MqttTypeOK, Happens, CountAfterClose
  <2>2. /\ client' \in {"none", "live", "ending"} /\ link' \in Links
        /\ listening' \in BOOLEAN /\ connected' \in BOOLEAN /\ gaveUp' \in BOOLEAN
        /\ connecting' \in BOOLEAN /\ publishing' \in BOOLEAN
    BY <1>6, Zenon DEF OnClose, Connected, MqttTypeOK, Links
  <2> QED
    BY <2>1, <2>2 DEF Connected, MqttTypeOK
<1>7. CASE OnErr
  <2>1. /\ events' = events + 1 /\ events + 1 <= MaxEvents
        /\ errorCount' = errorCount + 1 /\ failed' = failed + 1
        /\ connecting' = FALSE /\ publishing' = publishing
    BY <1>1, <1>7 DEF OnErr, Happens
  <2>2. /\ gaveUp' \in {TRUE, gaveUp} /\ listening' \in {FALSE, listening}
        /\ connected' \in {FALSE, connected} /\ client' \in {"none", client}
        /\ link' \in {"down", link}
    BY <1>7 DEF OnErr
  <2>3. /\ client' \in {"none", "live", "ending"} /\ link' \in Links
        /\ listening' \in BOOLEAN /\ connected' \in BOOLEAN /\ gaveUp' \in BOOLEAN
        /\ connecting' \in BOOLEAN /\ publishing' \in BOOLEAN
    BY <2>1, <2>2, Zenon DEF Connected, MqttTypeOK, Links
  <2>4. /\ errorCount' \in 0..MaxEvents /\ failed' \in 0..MaxEvents
        /\ events' \in 0..MaxEvents /\ failed' <= events'
    BY <1>1, <2>1 DEF Connected
  <2> QED
    BY <2>3, <2>4 DEF Connected, MqttTypeOK
<1>8. CASE GuardFires
  BY <1>1, <1>8 DEF GuardFires, Connected, MqttTypeOK
<1>9. CASE EndAnswers
  BY <1>1, <1>9 DEF EndAnswers, Connected, MqttTypeOK, Links
<1>10. CASE Connect \/ Disconnect
  <2>1. UNCHANGED <<errorCount, failed, events>>
    BY <1>10 DEF Connect, Disconnect
  <2>2. /\ client' \in {"none", "live", "ending"} /\ link' \in Links
        /\ listening' \in BOOLEAN /\ connected' \in BOOLEAN /\ gaveUp' \in BOOLEAN
        /\ connecting' \in BOOLEAN /\ publishing' \in BOOLEAN
    BY <1>10, Zenon DEF Connect, Disconnect, Connected, MqttTypeOK
  <2> QED
    BY <1>1, <2>1, <2>2 DEF Connected, MqttTypeOK
<1>11. CASE ConnectionEnds
  <2>1. errorCount' = 0 /\ failed' = 0 /\ events' = events
    BY <1>11 DEF ConnectionEnds
  <2>2. /\ client' \in {"none", "live", "ending"} /\ link' \in Links
        /\ listening' \in BOOLEAN /\ connected' \in BOOLEAN /\ gaveUp' \in BOOLEAN
        /\ connecting' \in BOOLEAN /\ publishing' \in BOOLEAN
    BY <1>11, Zenon DEF ConnectionEnds, Links
  <2> QED
    BY <1>1, <2>1, <2>2 DEF Connected, MqttTypeOK
<1>12. CASE Publish \/ PublishAnswers
  BY <1>1, <1>12 DEF Publish, PublishAnswers, Connected, MqttTypeOK
<1> QED
  BY <1>2, <1>3, <1>4, <1>5, <1>6, <1>7, <1>8, <1>9, <1>10, <1>11, <1>12 DEF ConnectionSteps

LEMMA TypedConnected ==
  ASSUME Typed, Counts, [Next]_dvars
  PROVE  Connected'
<1>1. Connected /\ errorCount = failed
  BY DEF Typed, Counts
<1>2. CASE UNCHANGED dvars
  BY <1>1, <1>2, ConnectedNext DEF dvars
<1>3. ASSUME NEW c \in Commands, Enqueue(c) \/ TimerFires(c)
      PROVE  Connected'
  BY <1>1, <1>3, ConnectedNext DEF Enqueue, TimerFires
<1>4. CASE Dispatched
  BY <1>1, <1>4, ConnectedNext DEF Dispatched
<1>5. CASE SendAnswers
  BY <1>1, <1>5, ConnectedNext DEF SendAnswers
<1>6. CASE Settles \/ Retries \/ Started
  BY <1>1, <1>6, ConnectedNext DEF Settles, Retries, Started
<1>7. CASE Telemetry \/ Subsides \/ RegistrySettles
  <2>1. UNCHANGED connection /\ events' = events
    BY <1>7 DEF Telemetry, Subsides, RegistrySettles, GatesChange
  <2> QED
    BY <1>1, <2>1, ConnectedNext
<1>8. CASE Trips \/ \E s \in {"ENABLED", "DISABLED", "REMOVED"} : SetStatus(s)
  <2>1. UNCHANGED connection /\ Happens
    BY <1>8 DEF Trips, SetStatus, GatesChange
  <2> QED
    BY <1>1, <2>1, ConnectedNext
<1>9. CASE Connection
  BY <1>1, <1>9, ConnectedNext DEF Connection
<1>10. CASE Start \/ Stop \/ Disconnects \/ Kill \/ Exit
  BY <1>1, <1>10, ConnectedNext DEF Start, Stop, Disconnects, Kill, Exit, ProcessEnds
<1> QED
  BY <1>2, <1>3, <1>4, <1>5, <1>6, <1>7, <1>8, <1>9, <1>10 DEF Next

LEMMA TypedAround ==
  ASSUME Typed, [Next]_dvars, slipped' \in Nat
  PROVE  Around'
<1>1. Around /\ MaxEnds \in Nat
  BY DispatchLimits DEF Typed
<1>2. ASSUME UNCHANGED <<process, gates, listed, ends>>
      PROVE  Around'
  BY <1>1, <1>2 DEF Around, Stopping, gates
<1>3. CASE UNCHANGED dvars
  BY <1>2, <1>3 DEF dvars, ghosts
<1>4. ASSUME NEW c \in Commands, Enqueue(c) \/ TimerFires(c)
      PROVE  Around'
  BY <1>2, <1>4 DEF Enqueue, TimerFires
<1>5. CASE Dispatched \/ SendAnswers \/ Settles \/ Retries \/ Connection
  BY <1>2, <1>5 DEF Dispatched, SendAnswers, Settles, Retries, Connection, Aside,
     ghosts
<1>6. CASE Telemetry \/ Trips \/ Subsides \/ RegistrySettles
  BY <1>1, <1>6 DEF Telemetry, Trips, Subsides, RegistrySettles, GatesChange,
     Around, Stopping
<1>7. ASSUME NEW s \in {"ENABLED", "DISABLED", "REMOVED"}, SetStatus(s)
      PROVE  Around'
  BY <1>1, <1>7 DEF SetStatus, GatesChange, Around, Stopping
<1>8. CASE Start
  <2>1. Working /\ \E q \in Listings : listed' = q
    BY <1>8 DEF Start, Typed
  <2>2. listed' \in Seq(Commands)
    BY <2>1, ListingsRecover
  <2> QED
    BY <1>1, <1>8, <2>2 DEF Start, gates, Around, Stopping
<1>9. CASE Started \/ Stop \/ Disconnects
  BY <1>1, <1>9 DEF Started, Stop, Disconnects, gates, ghosts, Around, Stopping
<1>10. CASE Kill \/ Exit
  <2>1. ends < MaxEnds
    BY <1>1, <1>10 DEF Kill, Exit, Around, Stopping
  <2>2. ends + 1 \in 0..MaxEnds
    BY <1>1, <2>1 DEF Around
  <2>3. listed' \in Seq(Commands)
    BY <1>10, EmptySeq DEF Kill, Exit, ProcessEnds
  <2> QED
    BY <1>1, <1>10, <2>2, <2>3 DEF Kill, Exit, ProcessEnds, Around, Stopping
<1> QED
  BY <1>3, <1>4, <1>5, <1>6, <1>7, <1>8, <1>9, <1>10 DEF Next
-----------------------------------------------------------------------------
(* Every step keeps the types of the loop and what stands.                 *)

\* The parts of Standing that a step of the loop leaves to show.
LEMMA StandingAgain ==
  ASSUME Typed, Standing, process # "off", process' = process,
         Once(created'),
         Lined(Line(owned', order'), created', outcome', attempts', backoff'),
         listed' = listed, Aged(Line(owned', order'), created', outcome', attempts', listed),
         Present(Line(owned, order), created, outcome, attempts) =>
           Present(Line(owned', order'), created', outcome', attempts'),
         \A c \in refused' : outcome'[c] = "FAILED" \/ (c = owned' /\ awaits' = "FAILED"),
         \A c \in Commands : (\A k \in 1..Len(created') : created'[k] # c) => outcome'[c] = "open"
  PROVE  Standing'
<1>1. process # "off" /\ process' # "off"
  OBVIOUS
<1> QED
  BY <1>1 DEF Standing

\* A command joins the line: either the loop is busy, or it takes the first.
LEMMA ReadyJoins ==
  ASSUME Working, NEW c \in Commands, Ready(Append(order, c))
  PROVE  /\ order' \in Seq(Commands) /\ owned' \in Commands \cup {NoCmd} /\ refused' \subseteq Commands
         /\ awaits' \in {"nothing", "DISPATCHING", "sending", "ACKED", "FAILED", "RETRY"}
         /\ (owned' = NoCmd <=> awaits' = "nothing") /\ Shapes(owned', awaits', shaped')
         /\ awaits' = "RETRY" => attempts[owned'] + 1 < MaxAttempts
         /\ Line(owned', order') = Append(Line(owned, order), c)
         /\ \/ UNCHANGED <<owned, awaits, refused>>
            \/ /\ owned = NoCmd
               /\ \A e \in refused' : e \in refused \/ (e = owned' /\ awaits' = "FAILED")
<1>1. /\ Append(order, c) \in Seq(Commands) /\ order \in Seq(Commands)
  BY AppendProperties DEF Working
<1>2. CASE owned # NoCmd
  <2>1. order' = Append(order, c) /\ UNCHANGED <<owned, awaits, shaped, refused>>
    BY <1>2 DEF Ready
  <2>2. owned \in Commands
    BY <1>2 DEF Working
  <2>3. Line(owned', order') = Append(Line(owned, order), c)
    BY <1>1, <2>1, <2>2, LineOwned
  <2> QED
    BY <1>1, <2>1, <2>3 DEF Working
<1>3. CASE owned = NoCmd /\ Stopping
  <2>1. order' = Append(order, c) /\ UNCHANGED <<owned, awaits, shaped, refused>>
    BY <1>3 DEF Ready
  <2>2. Line(owned', order') = Append(Line(owned, order), c)
    BY <1>3, <2>1 DEF Line
  <2> QED
    BY <1>1, <2>1, <2>2 DEF Working
<1>4. CASE owned = NoCmd /\ ~Stopping
  <2>1. TakeNext(Append(order, c))
    BY <1>4 DEF Ready
  <2>2. refused \subseteq Commands /\ attempts \in [Commands -> 0..MaxAttempts]
    BY DEF Working
  <2>3. Turned(Append(order, c))
    BY <1>1, <2>1, <2>2, TakeTurns
  <2>4. Line(owned, order) = order
    BY <1>4 DEF Line
  <2> QED
    BY <1>4, <2>3, <2>4 DEF Turned
<1> QED
  BY <1>2, <1>3, <1>4

LEMMA KeepsEnqueue ==
  ASSUME Typed, Standing, NEW c \in Commands, Enqueue(c)
  PROVE  Working' /\ Standing'
<1>1. /\ Working /\ process # "off" /\ process' = process
      /\ created' = Append(created, c) /\ UNCHANGED <<outcome, attempts, backoff, listed>>
      /\ Ready(Append(order, c)) /\ c \notin Elements(created)
  BY DEF Typed, Around, Enqueue, Up
<1>2. \A k \in 1..Len(created) : created[k] # c
  BY <1>1 DEF Elements
<1>3. outcome[c] = "open" /\ created \in Seq(Commands) /\ Len(created) \in Nat
  BY <1>1, <1>2, LenProperties DEF Standing, Working
<1>4. /\ created' \in Seq(Commands) /\ Len(created') = Len(created) + 1
      /\ created'[Len(created) + 1] = c
      /\ \A k \in 1..Len(created) : created'[k] = created[k]
  BY <1>1, <1>3, AppendProperties
<1>5. Working'
  BY <1>1, <1>4, ReadyJoins DEF Working
<1>6. Line(owned', order') = Append(Line(owned, order), c)
  BY <1>1, ReadyJoins
<1>7. /\ Lined(Line(owned', order'), created', outcome, attempts, backoff) /\ Once(created')
      /\ Aged(Line(owned', order'), created', outcome, attempts, listed)
      /\ Present(Line(owned, order), created, outcome, attempts) =>
           Present(Line(owned', order'), created', outcome, attempts)
  <2>1. /\ Lined(Line(owned, order), created, outcome, attempts, backoff) /\ Once(created)
        /\ Aged(Line(owned, order), created, outcome, attempts, listed)
    BY DEF Standing
  <2> QED
    BY <1>1, <1>2, <1>3, <1>6, <2>1, Joins
<1>8. \A e \in refused' : outcome'[e] = "FAILED" \/ (e = owned' /\ awaits' = "FAILED")
  <2>1. \/ UNCHANGED <<owned, awaits, refused>>
        \/ /\ owned = NoCmd
           /\ \A e \in refused' : e \in refused \/ (e = owned' /\ awaits' = "FAILED")
    BY <1>1, ReadyJoins
  <2>2. owned = NoCmd => awaits = "nothing"
    BY <1>1 DEF Working
  <2> QED
    BY <1>1, <2>1, <2>2 DEF Standing
<1>9. ASSUME NEW e \in Commands, \A k \in 1..Len(created') : created'[k] # e
      PROVE  outcome'[e] = "open"
  <2>1. \A k \in 1..Len(created) : k \in 1..Len(created')
    BY <1>3, <1>4
  <2>2. \A k \in 1..Len(created) : created[k] # e
    BY <1>4, <1>9, <2>1
  <2> QED
    BY <1>1, <2>2 DEF Standing
<1>10. Standing'
  BY <1>1, <1>7, <1>8, <1>9, StandingAgain
<1> QED
  BY <1>5, <1>10

LEMMA KeepsTimer ==
  ASSUME Typed, Standing, NEW c \in Commands, TimerFires(c)
  PROVE  Working' /\ Standing'
<1>1. /\ Working /\ c \in backoff /\ process' = process
      /\ process # "off"
      /\ backoff' = backoff \ {c} /\ UNCHANGED <<created, outcome, attempts, listed>>
      /\ Ready(Append(order, c))
  BY DEF Typed, Around, TimerFires, Standing
<1>2. Working'
  BY <1>1, ReadyJoins DEF Working
<1>3. Line(owned', order') = Append(Line(owned, order), c)
  BY <1>1, ReadyJoins
<1> DEFINE q == Line(owned, order)
<1>4. /\ Lined(Append(q, c), created, outcome, attempts, backoff \ {c})
      /\ Aged(Append(q, c), created, outcome, attempts, listed)
      /\ Present(q, created, outcome, attempts) =>
           Present(Append(q, c), created, outcome, attempts)
  <2>1. /\ Lined(q, created, outcome, attempts, backoff)
        /\ Aged(q, created, outcome, attempts, listed)
        /\ created \in Seq(Commands)
    BY <1>1 DEF Standing, Working
  <2> HIDE DEF q
  <2> QED
    BY <1>1, <2>1, Rejoins
<1>5. \A e \in refused' : outcome'[e] = "FAILED" \/ (e = owned' /\ awaits' = "FAILED")
  <2>1. \/ UNCHANGED <<owned, awaits, refused>>
        \/ /\ owned = NoCmd
           /\ \A e \in refused' : e \in refused \/ (e = owned' /\ awaits' = "FAILED")
    BY <1>1, ReadyJoins
  <2>2. owned = NoCmd => awaits = "nothing"
    BY <1>1 DEF Working
  <2> QED
    BY <1>1, <2>1, <2>2 DEF Standing
<1>6. Standing'
  BY <1>1, <1>3, <1>4, <1>5, StandingAgain DEF Standing
<1> QED
  BY <1>2, <1>6
\* The command in the loop is the first of the line.
LEMMA OwnedLeads ==
  ASSUME Working, Standing, owned # NoCmd
  PROVE  /\ owned \in Commands /\ Line(owned, order) # <<>> /\ Line(owned, order)[1] = owned
         /\ Tail(Line(owned, order)) = order /\ outcome[owned] = "open"
         /\ order # <<>> => order[1] # owned
<1>1. owned \in Commands /\ order \in Seq(Commands)
  BY DEF Working
<1>2. /\ Line(owned, order) \in Seq(Commands) /\ Line(owned, order) # <<>>
      /\ Line(owned, order)[1] = owned /\ Tail(Line(owned, order)) = order
  BY <1>1, LineOwned
<1> DEFINE q == Line(owned, order)
<1>3. Lined(q, created, outcome, attempts, backoff)
  BY DEF Standing
<1> HIDE DEF q
<1>4. q \in Seq(Commands) /\ q # <<>> /\ q[1] = owned /\ Tail(q) = order
  BY <1>2 DEF q
<1>5. Len(q) \in Nat \ {0} /\ Len(order) = Len(q) - 1
      /\ \A i \in 1..Len(order) : order[i] = q[i + 1]
  BY <1>4, EmptySeq, HeadTailProperties
<1>6. outcome[owned] = "open"
  <2>1. 1 \in 1..Len(q)
    BY <1>5
  <2> QED
    BY <1>3, <1>4, <2>1 DEF Lined
<1>7. ASSUME order # <<>>
      PROVE  order[1] # owned
  <2>1. Len(order) \in Nat \ {0}
    BY <1>1, <1>7, EmptySeq
  <2>2. order[1] = q[2] /\ 1 \in 1..Len(q) /\ 2 \in 1..Len(q)
    BY <1>5, <2>1
  <2>3. q[1] = q[2] => 1 = 2
    BY <1>3, <2>2 DEF Lined
  <2> QED
    BY <1>4, <2>2, <2>3
<1> QED
  BY <1>1, <1>2, <1>6, <1>7

LEMMA KeepsSettles ==
  ASSUME Typed, Standing, Settles
  PROVE  Working' /\ Standing'
<1>1. /\ Working /\ process # "off" /\ process' = process
      /\ awaits \in {"ACKED", "FAILED"} /\ outcome' = [outcome EXCEPT ![owned] = awaits]
      /\ TakeNext(order) /\ UNCHANGED <<created, attempts, backoff, listed>>
  BY DEF Typed, Around, Settles, Up
<1>2. owned # NoCmd
  BY <1>1 DEF Working
<1> DEFINE q == Line(owned, order)
<1>3. /\ owned \in Commands /\ q # <<>> /\ q[1] = owned /\ Tail(q) = order
      /\ outcome[owned] = "open"
  BY <1>1, <1>2, OwnedLeads
<1>4. Turned(order)
  BY <1>1, TakeTurns DEF Working
<1>5. /\ Lined(q, created, outcome, attempts, backoff) /\ Aged(q, created, outcome, attempts, listed)
      /\ Once(created)
  BY DEF Standing
<1> HIDE DEF q
<1>6. outcome \in [Commands -> {"open", "ACKED", "FAILED"}] /\ created \in Seq(Commands)
      /\ attempts \in [Commands -> Nat] /\ attempts \in [Commands -> 0..MaxAttempts]
  BY <1>1, DispatchLimits DEF Working
<1>7. /\ Lined(order, created, outcome', attempts, backoff)
      /\ Aged(order, created, outcome', attempts, listed)
      /\ Present(q, created, outcome, attempts) => Present(order, created, outcome', attempts)
  <2>1. \E s \in {"ACKED", "FAILED"} : outcome' = [outcome EXCEPT ![q[1]] = s]
    BY <1>1, <1>3
  <2> QED
    BY <1>3, <1>5, <1>6, <2>1, Leaves
<1>8. Working'
  <2>1. outcome' \in [Commands -> {"open", "ACKED", "FAILED"}]
    BY <1>1, <1>6
  <2> QED
    BY <1>1, <1>4, <2>1 DEF Working, Turned
<1>9. \A e \in refused' : outcome'[e] = "FAILED" \/ (e = owned' /\ awaits' = "FAILED")
  <2> SUFFICES ASSUME NEW e \in refused', e \in refused
               PROVE  outcome'[e] = "FAILED"
    BY <1>4 DEF Turned
  <2>1. e \in Commands
    BY <1>1 DEF Working
  <2>2. outcome[e] = "FAILED" \/ (e = owned /\ awaits = "FAILED")
    BY DEF Standing
  <2> QED
    BY <1>1, <1>3, <1>6, <2>1, <2>2
<1>10. ASSUME NEW e \in Commands, \A k \in 1..Len(created') : created'[k] # e
       PROVE  outcome'[e] = "open"
  <2>1. outcome[e] = "open" /\ \A k \in 1..Len(created) : created[k] # e
    BY <1>1, <1>10 DEF Standing
  <2>2. \E k \in 1..Len(created) : created[k] = owned
    <3>1. Len(q) \in Nat \ {0}
      BY <1>3, <1>5, EmptySeq DEF Lined
    <3>2. 1 \in 1..Len(q)
      BY <3>1
    <3> QED
      BY <1>3, <1>5, <3>2 DEF Lined
  <2> QED
    BY <1>1, <1>6, <2>1, <2>2
<1>11. Line(owned', order') = order
  BY <1>4 DEF Turned
<1>12. Standing'
  BY <1>1, <1>5, <1>7, <1>9, <1>10, <1>11, StandingAgain DEF q
<1> QED
  BY <1>8, <1>12

LEMMA KeepsRetries ==
  ASSUME Typed, Standing, Retries
  PROVE  Working' /\ Standing'
<1>1. /\ Working /\ process # "off" /\ process' = process
      /\ awaits = "RETRY" /\ attempts' = [attempts EXCEPT ![owned] = @ + 1]
      /\ backoff' \in {{}, backoff \cup {owned}}
      /\ TakeNext(order) /\ UNCHANGED <<created, outcome, listed>>
  BY DEF Typed, Around, Retries, Counted, Up
<1>2. owned # NoCmd
  BY <1>1 DEF Working
<1> DEFINE q == Line(owned, order)
<1>3. /\ owned \in Commands /\ q # <<>> /\ q[1] = owned /\ Tail(q) = order
      /\ order # <<>> => order[1] # owned
  BY <1>1, <1>2, OwnedLeads
<1>4. Turned(order)
  BY <1>1, TakeTurns DEF Working
<1>5. /\ Lined(q, created, outcome, attempts, backoff) /\ Aged(q, created, outcome, attempts, listed)
      /\ Once(created)
  BY DEF Standing
<1> HIDE DEF q
<1>6. /\ outcome \in [Commands -> {"open", "ACKED", "FAILED"}] /\ created \in Seq(Commands)
      /\ attempts \in [Commands -> Nat] /\ attempts \in [Commands -> 0..MaxAttempts]
      /\ attempts[owned] + 1 < MaxAttempts /\ MaxAttempts \in Nat
  BY <1>1, DispatchLimits DEF Working
<1>7. /\ Lined(order, created, outcome, attempts', backoff')
      /\ Aged(order, created, outcome, attempts', listed)
      /\ Present(q, created, outcome, attempts) => Present(order, created, outcome, attempts')
  <2>1. /\ attempts' = [attempts EXCEPT ![q[1]] = @ + 1]
        /\ backoff' \in {{}, backoff \cup {q[1]}}
    BY <1>1, <1>3
  <2> QED
    BY <1>3, <1>5, <1>6, <2>1, Leaves
<1>8. Working'
  <2>1. attempts' \in [Commands -> 0..MaxAttempts]
    <3>1. attempts[owned] + 1 \in 0..MaxAttempts
      BY <1>3, <1>6
    <3> QED
      BY <1>1, <1>6, <3>1
  <2>2. backoff' \subseteq Commands
    BY <1>1, <1>3 DEF Working
  <2>3. awaits' = "RETRY" => attempts'[owned'] + 1 < MaxAttempts
    <3> SUFFICES ASSUME awaits' = "RETRY"
                 PROVE  attempts'[owned'] + 1 < MaxAttempts
      OBVIOUS
    <3>1. /\ attempts[owned'] + 1 < MaxAttempts /\ owned' \in Commands
          /\ order # <<>> /\ owned' = order[1]
      BY <1>4 DEF Turned
    <3>2. owned' # owned
      BY <1>3, <3>1
    <3> QED
      BY <1>1, <1>6, <3>1, <3>2
  <2> QED
    BY <1>1, <1>4, <2>1, <2>2, <2>3 DEF Working, Turned
<1>9. \A e \in refused' : outcome'[e] = "FAILED" \/ (e = owned' /\ awaits' = "FAILED")
  BY <1>1, <1>4 DEF Turned, Standing
<1>10. Line(owned', order') = order
  BY <1>4 DEF Turned
<1>11. \A e \in Commands : (\A k \in 1..Len(created') : created'[k] # e) => outcome'[e] = "open"
  BY <1>1 DEF Standing
<1>12. Standing'
  BY <1>1, <1>5, <1>7, <1>9, <1>10, <1>11, StandingAgain DEF q
<1> QED
  BY <1>8, <1>12

\* The attempt goes on to the client and comes back from it.
LEMMA KeepsSending ==
  ASSUME Typed, Standing, Dispatched \/ SendAnswers
  PROVE  Working' /\ Standing'
<1>1. /\ Working /\ process' = process
      /\ awaits \in {"DISPATCHING", "sending"}
      /\ awaits' \in {"sending", "ACKED", FailedAttempt(owned)}
      /\ UNCHANGED <<created, outcome, attempts, order, backoff, owned, shaped, refused, listed>>
  BY DEF Typed, Dispatched, SendAnswers, ghosts
<1>2. /\ FailedAttempt(owned) \in {"FAILED", "RETRY"}
      /\ FailedAttempt(owned) = "RETRY" => attempts[owned] + 1 < MaxAttempts
  <2>1. owned \in Commands
    BY <1>1 DEF Working
  <2>2. attempts[owned] \in Nat /\ MaxAttempts \in Nat
    BY <1>1, <2>1, DispatchLimits DEF Working
  <2> QED
    BY <2>2 DEF FailedAttempt
<1>3. awaits' \in {"sending", "ACKED", "FAILED", "RETRY"}
      /\ (awaits' = "RETRY" => attempts[owned] + 1 < MaxAttempts)
  BY <1>1, <1>2
<1>4. Shapes(owned, awaits', shaped)
  BY <1>1, <1>3 DEF Working, Shapes
<1>5. Working'
  BY <1>1, <1>3, <1>4 DEF Working
<1>6. \A e \in refused : outcome[e] = "FAILED"
  BY <1>1 DEF Standing
<1>7. owned # NoCmd
  BY <1>1 DEF Working
<1>8. process # "off"
  BY <1>7 DEF Standing
<1>9. Standing'
  BY <1>1, <1>6, <1>8 DEF Standing
<1> QED
  BY <1>5, <1>9

\* The start recovers what is open; an end loses the memory.
LEMMA KeepsStart ==
  ASSUME Typed, Standing, Start
  PROVE  Working' /\ Standing'
<1>1. /\ Working /\ process' = "starting" /\ backoff = {} /\ refused = {}
      /\ UNCHANGED <<created, outcome, attempts, backoff>>
  BY DEF Typed, Standing, Start
<1>2. PICK u \in Listings : TakeNext(u) /\ listed' = u
  BY DEF Start
<1>3. Once(created)
  BY DEF Standing
<1>4. /\ Lined(u, created, outcome, attempts, {}) /\ Aged(u, created, outcome, attempts, u)
      /\ Present(u, created, outcome, attempts) /\ u \in Seq(Commands)
  BY <1>1, ListingsRecover
<1>6. Turned(u)
  BY <1>1, <1>2, <1>4, TakeTurns DEF Working
<1>7. Working'
  BY <1>1, <1>6 DEF Working, Turned
<1>8. Line(owned', order') = u
  BY <1>6 DEF Turned
<1>9. \A e \in refused' : outcome'[e] = "FAILED" \/ (e = owned' /\ awaits' = "FAILED")
  BY <1>1, <1>6 DEF Turned
<1>10. Standing'
  BY <1>1, <1>2, <1>3, <1>4, <1>8, <1>9 DEF Standing
<1> QED
  BY <1>7, <1>10

LEMMA KeepsEnd ==
  ASSUME Typed, Standing, ProcessEnds
  PROVE  Working' /\ Standing'
<1>1. /\ Working /\ process' = "off" /\ order' = <<>> /\ owned' = NoCmd /\ awaits' = "nothing"
      /\ shaped' = Unknown /\ backoff' = {} /\ refused' = {} /\ listed' = <<>>
      /\ UNCHANGED <<created, outcome, attempts>>
  BY DEF Typed, ProcessEnds
<1>2. <<>> \in Seq(Commands) /\ Len(<<>>) = 0 /\ Line(NoCmd, <<>>) = <<>>
  BY EmptySeq DEF Line
<1>3. Shapes(NoCmd, "nothing", Unknown)
  BY DEF Shapes
<1>4. Working'
  BY <1>1, <1>2, <1>3 DEF Working
<1>5. /\ Lined(<<>>, created, outcome, attempts, {}) /\ Aged(<<>>, created, outcome, attempts, <<>>)
  BY <1>2 DEF Lined, Aged
<1>6. Standing'
  BY <1>1, <1>2, <1>5 DEF Standing
<1> QED
  BY <1>4, <1>6

LEMMA KeepsStop ==
  ASSUME Typed, Standing, Stop
  PROVE  Working' /\ Standing'
<1>1. /\ Working /\ process = "running" /\ process' = "stopping" /\ backoff' = {}
      /\ UNCHANGED <<created, outcome, attempts, order, owned, awaits, shaped, refused, listed>>
  BY DEF Typed, Stop, ghosts
<1>2. Working'
  BY <1>1 DEF Working
<1>3. Lined(Line(owned, order), created, outcome, attempts, {})
  BY DEF Standing, Lined
<1>4. Standing'
  BY <1>1, <1>3 DEF Standing
<1> QED
  BY <1>2, <1>4

\* The steps of the gates and of the connection leave the loop alone.
LEMMA KeepsAside ==
  ASSUME Typed, Standing, UNCHANGED <<queue, refused, listed>>, process' = "off" <=> process = "off"
  PROVE  Working' /\ Standing'
<1>1. UNCHANGED <<created, outcome, attempts, order, backoff, owned, awaits, shaped, refused, listed>>
  BY DEF queue
<1> QED
  BY <1>1 DEF Typed, Working, Standing

LEMMA KeepsNext ==
  ASSUME Typed, Standing, [Next]_dvars
  PROVE  Working' /\ Standing'
<1>1. CASE UNCHANGED dvars
  BY <1>1, KeepsAside DEF dvars, ghosts
<1>2. CASE Telemetry \/ Trips \/ Subsides \/ RegistrySettles
             \/ \E s \in {"ENABLED", "DISABLED", "REMOVED"} : SetStatus(s)
  <2>1. UNCHANGED <<queue, refused, listed, process>>
    BY <1>2 DEF Telemetry, Trips, Subsides, RegistrySettles, SetStatus, GatesChange
  <2> QED
    BY <2>1, KeepsAside
<1>3. CASE Connection
  BY <1>3, KeepsAside DEF Connection, Aside, ghosts
<1>4. CASE Started \/ Disconnects
  BY <1>4, KeepsAside DEF Started, Disconnects, ghosts
<1> QED
  BY <1>1, <1>2, <1>3, <1>4, KeepsEnqueue, KeepsTimer, KeepsSending, KeepsSettles, KeepsRetries,
     KeepsStart, KeepsStop, KeepsEnd DEF Next, Kill, Exit
-----------------------------------------------------------------------------
(* What is sent.                                                           *)

LEMMA StandsInit ==
  ASSUME Init
  PROVE  Typed /\ Standing
<1>1. Connected
  <2>1. 0 \in 0..MaxEvents /\ 0 <= 0
    BY ReconnectsAssumption
  <2>2. Unconnected
    BY DEF Init
  <2>3. errorCount \in 0..MaxEvents /\ failed \in 0..MaxEvents /\ events \in 0..MaxEvents
        /\ failed <= events
    BY <2>1, <2>2 DEF Unconnected
  <2>4. /\ client \in {"none", "live", "ending"} /\ link \in Links
        /\ listening \in BOOLEAN /\ connected \in BOOLEAN /\ gaveUp \in BOOLEAN
        /\ connecting \in BOOLEAN /\ publishing \in BOOLEAN
    BY <2>2, Zenon DEF Unconnected, Links
  <2> QED
    BY <2>3, <2>4 DEF Connected, MqttTypeOK
<1>2. <<>> \in Seq(Commands) /\ Len(<<>>) = 0 /\ Line(NoCmd, <<>>) = <<>>
  BY EmptySeq DEF Line
<1>3. Working
  <2>1. 0 \in 0..MaxAttempts
    BY DispatchLimits
  <2>2. Shapes(NoCmd, "nothing", Unknown)
    BY DEF Shapes
  <2>3. /\ outcome \in [Commands -> {"open", "ACKED", "FAILED"}]
        /\ attempts \in [Commands -> 0..MaxAttempts]
    BY <2>1 DEF Init
  <2>4. /\ created \in Seq(Commands) /\ order \in Seq(Commands) /\ backoff \subseteq Commands
        /\ owned = NoCmd /\ refused \subseteq Commands /\ awaits = "nothing" /\ shaped = Unknown
    BY <1>2 DEF Init
  <2> QED
    BY <2>2, <2>3, <2>4 DEF Working
<1>4. Around
  <2>1. slipped \in Nat /\ ends \in 0..MaxEnds /\ listed \in Seq(Commands)
    BY <1>2, DispatchLimits DEF Init
  <2>2. /\ process \in {"off", "starting", "running", "stopping", "disconnecting"}
        /\ ~Stopping
        /\ {registry, stored} \subseteq {"ENABLED", "DISABLED", "REMOVED"}
        /\ breaker \in {"unheard", "open", "closed"} /\ soc \in Socs \cup {Unknown}
    BY DEF Init, Stopping
  <2>3. removing \in BOOLEAN /\ routed \in BOOLEAN
    BY Zenon DEF Init
  <2> QED
    BY <2>1, <2>2, <2>3 DEF Around
<1>5. /\ Lined(<<>>, created, outcome, attempts, {}) /\ Aged(<<>>, created, outcome, attempts, <<>>)
      /\ Once(created)
  BY <1>2 DEF Init, Lined, Aged, Once
<1>6. Standing
  BY <1>2, <1>5 DEF Init, Standing
<1> QED
  BY <1>1, <1>3, <1>4, <1>6 DEF Typed

LEMMA StandsNext ==
  ASSUME Typed, Standing, IInv, [Next]_dvars
  PROVE  Typed' /\ Standing'
<1>1. slipped' \in Nat
  BY SlipsInv DEF IInv, Slips
<1> QED
  BY <1>1, KeepsNext, TypedConnected, TypedAround DEF IInv, Typed

\* A turn of the loop hands nothing to the client.
LEMMA TurnsSendNothing ==
  ASSUME NEW ord, Ready(ord) \/ TakeNext(ord)
  PROVE  ~Sends
BY DEF Ready, TakeNext, Take, FailedAttempt, RefusalEnds, Sends

LEMMA OnlyDispatchedSends ==
  ASSUME [Next]_dvars, Sends
  PROVE  Dispatched
<1>1. awaits' = "sending" /\ awaits # "sending"
  BY DEF Sends
<1>2. ASSUME UNCHANGED awaits
      PROVE  FALSE
  BY <1>1, <1>2
<1>3. CASE UNCHANGED dvars
  BY <1>2, <1>3 DEF dvars, queue
<1>4. ASSUME NEW c \in Commands, Enqueue(c) \/ TimerFires(c)
      PROVE  FALSE
  BY <1>4, TurnsSendNothing DEF Enqueue, TimerFires
<1>5. CASE SendAnswers
  BY <1>1, <1>5 DEF SendAnswers
<1>6. CASE Settles \/ Retries \/ Start
  BY <1>6, TurnsSendNothing DEF Settles, Retries, Start
<1>7. CASE Telemetry \/ Trips \/ Subsides \/ RegistrySettles
             \/ \E s \in {"ENABLED", "DISABLED", "REMOVED"} : SetStatus(s)
  BY <1>2, <1>7 DEF Telemetry, Trips, Subsides, RegistrySettles, SetStatus, GatesChange, queue
<1>8. CASE Connection \/ Started \/ Stop \/ Disconnects
  BY <1>2, <1>8 DEF Connection, Aside, Started, Stop, Disconnects, queue
<1>9. CASE Kill \/ Exit
  BY <1>1, <1>9 DEF Kill, Exit, ProcessEnds
<1> QED
  BY <1>3, <1>4, <1>5, <1>6, <1>7, <1>8, <1>9 DEF Next

\* The command that is sent leads the line of a process that is up, and is open.
LEMMA SentLeads ==
  ASSUME Typed, Standing, [Next]_dvars, Sends
  PROVE  /\ owned \in Commands /\ outcome[owned] = "open" /\ awaits = "DISPATCHING"
         /\ process # "off"
         /\ Line(owned, order) \in Seq(Commands) \ {<<>>} /\ Line(owned, order)[1] = owned
<1>1. awaits = "DISPATCHING"
  BY OnlyDispatchedSends DEF Dispatched
<1>2. Working /\ owned # NoCmd
  BY <1>1 DEF Typed, Working
<1>3. process # "off"
  BY <1>1 DEF Standing
<1>4. Line(owned, order) \in Seq(Commands)
  BY DEF Standing, Lined
<1> QED
  BY <1>1, <1>2, <1>3, <1>4, OwnedLeads

LEMMA RefusedNotSent ==
  ASSUME Typed, Standing, [Next]_dvars, Sends
  PROVE  owned \notin refused
<1>1. outcome[owned] = "open" /\ awaits = "DISPATCHING"
  BY SentLeads
<1>2. \A c \in refused : outcome[c] = "FAILED" \/ awaits = "FAILED"
  BY DEF Standing
<1> QED
  BY <1>1, <1>2

LEMMA UntriedNotOvertaken ==
  ASSUME Typed, Standing, [Next]_dvars, Sends,
         NEW k \in 1..Len(created), NEW n \in 1..Len(created),
         k < n, created[n] = owned, outcome[created[k]] = "open"
  PROVE  attempts[created[k]] > 0 \/ ListedAhead(owned, created[k])
<1> DEFINE q == Line(owned, order)
<1>1. q \in Seq(Commands) /\ q # <<>> /\ q[1] = owned /\ process # "off"
  BY SentLeads
<1>2. Once(created) /\ Aged(q, created, outcome, attempts, listed) /\ Present(q, created, outcome, attempts)
  BY <1>1 DEF Standing
<1> HIDE DEF q
<1>3. Len(created) \in Nat /\ Len(q) \in Nat /\ 1 \in 1..Len(q)
  BY <1>1, LenProperties, EmptySeq DEF Typed, Working
<1>4. attempts[created[k]] \in Nat
  <2>1. created[k] \in Commands
    BY ElementOfSeq DEF Typed, Working
  <2> QED
    BY <2>1, DispatchLimits DEF Typed, Working
<1>5. ASSUME attempts[created[k]] = 0
      PROVE  ListedAhead(owned, created[k])
  <2>1. PICK i \in 1..Len(q) : q[i] = created[k]
    BY <1>2, <1>5 DEF Present
  <2>2. i # 1
    <3>1. created[k] # created[n]
      BY <1>2, <1>3 DEF Once
    <3> QED
      BY <1>1, <2>1, <3>1
  <2>3. 1 < i
    BY <1>3, <2>2
  <2>4. n < k \/ Ahead(listed, created[n], created[k])
    BY <1>1, <1>2, <1>3, <1>5, <2>1, <2>3 DEF Aged
  <2> QED
    BY <1>3, <2>4 DEF Ahead, ListedAhead
<1> QED
  BY <1>4, <1>5

-----------------------------------------------------------------------------
(* Theorems.                                                               *)

\* The inductive invariant holds in every reachable state.
THEOREM Invariance == Spec => []IInv
<1>1. Init => IInv
  BY DEF Init, Unconnected, IInv, Slips, Gate, Counts, GivesUpAtTheLimit, GivesUp
<1>2. IInv /\ [Next]_dvars => IInv'
  BY SlipsInv, CountsInv DEF IInv
<1> QED
  BY <1>1, <1>2, PTL DEF Spec

\* Since the moment the device may not receive commands, at most one was handed
\* to the client, for any number of its commands, of attempts and of restarts.
THEOREM AtMostOne == Spec => []AtMostOneSlips
<1>1. IInv => AtMostOneSlips
  BY DEF IInv, Slips, AtMostOneSlips
<1> QED
  BY <1>1, Invariance, PTL

\* The adapter gives up exactly at its limit, whatever the order of the
\* callbacks of the client, and takes no command afterwards.
THEOREM GivingUp == Spec => []GivesUpAtTheLimit
<1>1. IInv => GivesUpAtTheLimit
  BY DEF IInv
<1> QED
  BY <1>1, Invariance, PTL

\* What stands of the line holds in every reachable state.
LEMMA Stands == Spec => [](Typed /\ Standing)
<1>1. Init => Typed /\ Standing
  BY StandsInit
<1>2. (Typed /\ Standing) /\ IInv /\ [Next]_dvars => (Typed /\ Standing)'
  BY StandsNext
<1> QED
  BY <1>1, <1>2, Invariance, PTL DEF Spec

\* Every variable of the dispatch stays in its type; in particular no value
\* handed to the client exceeds the limit of the type of its command, for every
\* request, state of charge and configuration of the limits.
THEOREM TypeCorrect == Spec => []TypeOK
BY Stands, TypedIsTypeOK, PTL

\* What the validator refused is not sent any more by this process, whatever
\* telemetry, retries and recoveries follow.
THEOREM RefusalFinal == Spec => RefusalIsFinal
<1>1. Typed /\ Standing /\ [Next]_dvars => [Sends => owned \notin refused]_dvars
  BY RefusedNotSent
<1> QED
  BY <1>1, Stands, PTL DEF Spec, RefusalIsFinal

\* A command is sent before an older open one only after an attempt of the older
\* one failed, or because the storage listed the two so when the process started:
\* whatever retries, stops, kills and recoveries came between.
THEOREM Overtaking == Spec => OvertakenOnlyAfterFailure
<1>1. ASSUME Typed, Standing, [Next]_dvars
      PROVE  [Sends => \A k, n \in 1..Len(created) :
                k < n /\ created[n] = owned /\ outcome[created[k]] = "open"
                  => attempts[created[k]] > 0 \/ ListedAhead(owned, created[k])]_dvars
  BY <1>1, UntriedNotOvertaken
<1> QED
  BY <1>1, Stands, PTL DEF Spec, OvertakenOnlyAfterFailure
=============================================================================
