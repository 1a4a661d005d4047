----------------------- MODULE CommandDeliveryProofs -----------------------
(***************************************************************************)
(* Proofs about CommandDelivery, for every set of commands and every bound.*)
(*                                                                         *)
(* The inductive invariant is written over explicit arguments, because the *)
(* drain loop starts from intermediate values of the records, the pending  *)
(* order and the write chain that no state of the specification holds.     *)
(***************************************************************************)
EXTENDS CommandDelivery, TLAPS, SequenceTheorems, FiniteSetTheorems

\* The status a record has while the loop awaits aw for it.
AwaitedStatus(aw) ==
  IF aw \in {"SENDING", "ARRIVED"} THEN "DISPATCHING" ELSE StatusOf(aw)

MemoryTypes(st, att, ord, own, aw, tm) ==
  /\ st \in [Commands -> {"ABSENT"} \cup Unsettled \cup Terminal]
  /\ att \in [Commands -> 0..MaxAttempts]
  /\ ord \in Seq(Commands)
  /\ own \in Commands \cup {NoCmd}
  /\ aw \in {"NOTHING", "SENDING", "ARRIVED"} \cup WriteEvents
  /\ tm \in [Commands -> Nat]

DiskTypes(q, ld, ws, wa, cl, dv, slack) ==
  /\ q \in Seq(Writes) /\ ld \in BOOLEAN
  /\ ws \in [Commands -> {"NONE"} \cup Unsettled \cup Terminal]
  /\ wa \in [Commands -> 0..MaxAttempts]
  /\ cl \in [Commands -> {"unborn", "creating", "accepted", "refused", "unknown"}]
  /\ dv \in [Commands -> Nat]
  /\ slack \in Nat

\* Who holds each record: order, timer and loop exclude one another.
Held(st, att, ord, own, aw, tm) ==
  /\ \A i, j \in 1..Len(ord) : ord[i] = ord[j] => i = j
  /\ \A i \in 1..Len(ord) :
       st[ord[i]] = "PENDING" /\ tm[ord[i]] = 0 /\ ord[i] # own
  /\ \A c \in Commands :
       /\ tm[c] = 0 \/ (tm[c] = 1 /\ st[c] = "PENDING" /\ c # own)
       /\ c # own => st[c] \in {"ABSENT", "PENDING"}
       /\ st[c] = "ABSENT" => att[c] = 0
       /\ st[c] # "FAILED" => att[c] < MaxAttempts
  /\ own \in Commands => aw # "NOTHING" /\ st[own] = AwaitedStatus(aw)
  /\ own = NoCmd => aw = "NOTHING"

\* Nobody is forgotten, and a waiting command has a running loop.
Expected(st, ord, own, tm) ==
  \A c \in Commands : st[c] = "PENDING" /\ c # own
                        => tm[c] = 1 \/ \E i \in 1..Len(ord) : ord[i] = c

Attended(st, ord, own, tm, stp) ==
  stp \/ (Expected(st, ord, own, tm) /\ (own = NoCmd => ord = <<>>))

Creates(w, cl) == w.event = "CREATED" /\ cl[w.cmd] = "creating" /\ w.attempts = 0
Marks(w, att, own, aw) ==
  w.event # "CREATED" /\ w.cmd = own /\ w.event = aw /\ w.attempts = att[own]

\* The chain holds the CREATED writes of waiting callers and at most the one
\* write the loop awaits, no two of one command.
Chained(q, att, own, aw, cl) ==
  /\ \A i \in 1..Len(q) : Creates(q[i], cl) \/ Marks(q[i], att, own, aw)
  /\ \A i, j \in 1..Len(q) : q[i].cmd = q[j].cmd => i = j

LandedWrite(q, ld, c) == ld /\ q # <<>> /\ Head(q).cmd = c

\* The disk lags behind memory by at most the landed write at the head.
LoggedAt(c, st, att, q, ld, ws, wa, cl, dv) ==
  /\ cl[c] \in {"unborn", "refused"} => ws[c] = "NONE"
  /\ cl[c] = "creating" =>
       st[c] = "ABSENT" /\ dv[c] = 0 /\ (ws[c] = "NONE" \/ LandedWrite(q, ld, c))
  /\ cl[c] = "accepted" => ws[c] # "NONE"
  /\ ws[c] = "NONE" => st[c] = "ABSENT" /\ dv[c] = 0
  /\ st[c] \in Unsettled => ws[c] \in Unsettled
  /\ st[c] \in Terminal => ws[c] \in Unsettled \/ LandedWrite(q, ld, c)
  /\ ws[c] \in Unsettled => wa[c] < MaxAttempts
  /\ ws[c] \in Unsettled /\ st[c] # "ABSENT" => wa[c] <= att[c]
  /\ ws[c] = "ACKED" \/ st[c] = "ACKED" => dv[c] > 0

HeadOnDisk(q, ld, ws, wa) ==
  ld => /\ q # <<>>
        /\ ws[Head(q).cmd] = StatusOf(Head(q).event)
        /\ wa[Head(q).cmd] = Head(q).attempts

Logged(st, att, q, ld, ws, wa, cl, dv) ==
  /\ HeadOnDisk(q, ld, ws, wa)
  /\ \A c \in Commands : LoggedAt(c, st, att, q, ld, ws, wa, cl, dv)

\* Deliveries are paid for: by a counted attempt, by a process end or failed
\* write (slack), or by the attempt in flight.
PaidAt(c, st, att, own, aw, q, ld, ws, wa, dv, slack) ==
  /\ ws[c] \in Terminal => dv[c] <= MaxAttempts + slack
  /\ ws[c] \in Unsettled =>
       \/ dv[c] <= wa[c] + slack
       \/ /\ dv[c] <= wa[c] + slack + 1
          /\ own = c /\ aw \in {"ARRIVED", "ACKED", "FAILED", "RETRY_SCHEDULED"}
          /\ ~LandedWrite(q, ld, c)
  /\ st[c] # "ABSENT" =>
       \/ dv[c] <= att[c] + slack
       \/ dv[c] <= att[c] + slack + 1 /\ own = c /\ aw \in {"ARRIVED", "ACKED"}
  /\ own = c /\ aw = "ARRIVED" => dv[c] > 0

Paid(st, att, own, aw, q, ld, ws, wa, dv, slack) ==
  \A c \in Commands : PaidAt(c, st, att, own, aw, q, ld, ws, wa, dv, slack)

Core(st, att, ord, own, aw, tm, q, ld, ws, wa, cl, dv, slack) ==
  /\ MemoryTypes(st, att, ord, own, aw, tm)
  /\ DiskTypes(q, ld, ws, wa, cl, dv, slack)
  /\ Held(st, att, ord, own, aw, tm)
  /\ Chained(q, att, own, aw, cl)
  /\ Logged(st, att, q, ld, ws, wa, cl, dv)
  /\ Paid(st, att, own, aw, q, ld, ws, wa, dv, slack)

\* While the process is down there is no memory, and no caller waits.
Down ==
  /\ stopped = FALSE /\ order = <<>> /\ owned = NoCmd /\ awaits = "NOTHING"
  /\ chain = <<>> /\ landed = FALSE
  /\ status = [c \in Commands |-> "ABSENT"]
  /\ attempts = [c \in Commands |-> 0]
  /\ timers = [c \in Commands |-> 0]
  /\ \A c \in Commands : caller[c] # "creating"

\* The inductive invariant.
IInv ==
  /\ up \in BOOLEAN /\ stopped \in BOOLEAN /\ blind \in BOOLEAN
  /\ crashes \in 0..MaxCrashes /\ lostWrites \in 0..MaxLostWrites
  /\ Core(status, attempts, order, owned, awaits, timers, chain, landed,
          walStatus, walAttempts, caller, deliveries, crashes + lostWrites)
  /\ Attended(status, order, owned, timers, stopped)
  /\ up \/ Down
-----------------------------------------------------------------------------
(* Sequences.                                                              *)

\* The first element and the rest of a non-empty sequence, the rest shifted
\* by one: what shift() and a settled write leave.
LEMMA TailFacts ==
  ASSUME NEW S, NEW s \in Seq(S), s # <<>>
  PROVE  /\ Len(s) \in Nat \ {0}
         /\ Head(s) = s[1] /\ Head(s) \in S
         /\ Tail(s) \in Seq(S) /\ Len(Tail(s)) = Len(s) - 1
         /\ \A i \in 1..Len(Tail(s)) : i + 1 \in 1..Len(s) /\ Tail(s)[i] = s[i + 1]
         /\ \A i \in 1..Len(s) : i = 1 \/ (i - 1 \in 1..Len(Tail(s)) /\ Tail(s)[i - 1] = s[i])
<1>1. Len(s) \in Nat \ {0}
  BY EmptySeq, SMT
<1>2. Head(s) = s[1] /\ Head(s) \in S
  BY <1>1, HeadTailProperties, SMT
<1>3. Tail(s) \in Seq(S) /\ Len(Tail(s)) = Len(s) - 1
  BY HeadTailProperties
<1>4. \A i \in 1..Len(Tail(s)) : i + 1 \in 1..Len(s) /\ Tail(s)[i] = s[i + 1]
  BY <1>1, <1>3, HeadTailProperties, SMT
<1> QED
  BY <1>1, <1>2, <1>3, <1>4, SMT

\* What the drain loop does with an order in which every record is PENDING:
\* it ends if the order is empty and works on its first command otherwise.
LEMMA DrainCases ==
  ASSUME NEW st, NEW att, NEW q, NEW ord \in Seq(Commands),
         \A i \in 1..Len(ord) : st[ord[i]] = "PENDING",
         Drain(st, att, ord, q)
  PROVE  \/ ord = <<>> /\ Idle(st, att, <<>>, q)
         \/ ord # <<>> /\ HandleOne(Head(ord), st, att, Tail(ord), q)
<1> DEFINE eligible == {i \in 1..Len(ord) : st[ord[i]] = "PENDING"}
<1>1. eligible = 1..Len(ord)
  OBVIOUS
<1>2. CASE eligible = {} /\ Idle(st, att, <<>>, q)
  <2>1. Len(ord) \in Nat /\ 1..Len(ord) = {}
    BY <1>1, <1>2, LenProperties
  <2>2. Len(ord) = 0
    BY <2>1, SMT
  <2> QED
    BY <1>2, <2>2, EmptySeq
<1>3. ASSUME NEW i \in eligible, \A j \in eligible : i <= j,
             HandleOne(ord[i], st, att, SubSeq(ord, i + 1, Len(ord)), q)
      PROVE  ord # <<>> /\ HandleOne(Head(ord), st, att, Tail(ord), q)
  <2>1. Len(ord) \in Nat /\ i \in 1..Len(ord)
    BY LenProperties
  <2>2. i = 1 /\ ord # <<>>
    BY <1>1, <1>3, <2>1, SMT
  <2>3. Head(ord) = ord[1] /\ Tail(ord) = SubSeq(ord, 2, Len(ord))
    BY <2>2, TailFacts, TailIsSubSeq
  <2>4. i + 1 = 2
    BY <2>2, SMT
  <2>5. Head(ord) = ord[i] /\ Tail(ord) = SubSeq(ord, i + 1, Len(ord))
    BY <2>2, <2>3, <2>4, Zenon
  <2> QED
    BY <1>3, <2>2, <2>5, Zenon
<1> QED
  BY <1>2, <1>3 DEF Drain

-----------------------------------------------------------------------------
(* The invariant and the pieces the actions are made of.                   *)

\* Appending a write to the chain.
LEMMA AppendFacts ==
  ASSUME NEW S, NEW q \in Seq(S), NEW w \in S
  PROVE  /\ Len(q) \in Nat /\ Len(Append(q, w)) = Len(q) + 1
         /\ Append(q, w) \in Seq(S) /\ Append(q, w) # <<>>
         /\ \A i \in 1..Len(q) : Append(q, w)[i] = q[i]
         /\ Append(q, w)[Len(q) + 1] = w
         /\ q # <<>> => Head(Append(q, w)) = Head(q)
BY AppendProperties, HeadTailAppend, LenProperties

\* Taking the first command out of the order of an idle loop: what remains
\* is an idle loop's memory, and the command is PENDING and held by nobody.
LEMMA TakeFirst ==
  ASSUME NEW st, NEW att, NEW ord, NEW tm, NEW q, NEW ld, NEW ws, NEW wa,
         NEW cl, NEW dv, NEW slack,
         Core(st, att, ord, NoCmd, "NOTHING", tm, q, ld, ws, wa, cl, dv, slack),
         ord # <<>>
  PROVE  /\ Core(st, att, Tail(ord), NoCmd, "NOTHING", tm, q, ld, ws, wa, cl, dv, slack)
         /\ Head(ord) \in Commands /\ st[Head(ord)] = "PENDING" /\ tm[Head(ord)] = 0
         /\ \A i \in 1..Len(Tail(ord)) : Tail(ord)[i] # Head(ord)
         /\ \A c \in Commands : (\E i \in 1..Len(ord) : ord[i] = c)
              => c = Head(ord) \/ \E i \in 1..Len(Tail(ord)) : Tail(ord)[i] = c
<1>1. MemoryTypes(st, att, ord, NoCmd, "NOTHING", tm) /\ Held(st, att, ord, NoCmd, "NOTHING", tm)
  BY DEF Core
<1>2. ord \in Seq(Commands)
  BY <1>1 DEF MemoryTypes
<1>3. /\ Len(ord) \in Nat \ {0}
      /\ Head(ord) = ord[1] /\ Head(ord) \in Commands
      /\ Tail(ord) \in Seq(Commands) /\ Len(Tail(ord)) = Len(ord) - 1
      /\ \A i \in 1..Len(Tail(ord)) : i + 1 \in 1..Len(ord) /\ Tail(ord)[i] = ord[i + 1]
      /\ \A i \in 1..Len(ord) :
           i = 1 \/ (i - 1 \in 1..Len(Tail(ord)) /\ Tail(ord)[i - 1] = ord[i])
  BY <1>2, TailFacts
<1>4. Held(st, att, Tail(ord), NoCmd, "NOTHING", tm)
  BY <1>1, <1>3, SMT DEF Held
<1>5. MemoryTypes(st, att, Tail(ord), NoCmd, "NOTHING", tm)
  BY <1>1, <1>3 DEF MemoryTypes
<1>6. Core(st, att, Tail(ord), NoCmd, "NOTHING", tm, q, ld, ws, wa, cl, dv, slack)
  BY <1>4, <1>5 DEF Core
<1>7. st[Head(ord)] = "PENDING" /\ tm[Head(ord)] = 0
  BY <1>1, <1>3, SMT DEF Held
<1>8. \A i \in 1..Len(Tail(ord)) : Tail(ord)[i] # Head(ord)
  BY <1>1, <1>3, SMT DEF Held
<1>9. \A c \in Commands : (\E i \in 1..Len(ord) : ord[i] = c)
         => c = Head(ord) \/ \E i \in 1..Len(Tail(ord)) : Tail(ord)[i] = c
  BY <1>3, SMT
<1> QED
  BY <1>3, <1>6, <1>7, <1>8, <1>9

\* An event the loop may write next for c, with the attempts it carries.
NextWrite(c, event, n, att, aw, dv) ==
  /\ event \in WriteEvents /\ n \in Nat
  /\ event = "DISPATCHING" => n = att[c] /\ aw = "NOTHING"
  /\ event = "ACKED" => n = att[c] /\ aw = "ARRIVED" /\ dv[c] > 0
  /\ event \in {"FAILED", "RETRY_SCHEDULED"} => n = att[c] + 1
  /\ event = "RETRY_SCHEDULED" => n < MaxAttempts

\* The loop starts to await a status write of c: c was just taken from the
\* order, or its send has ended.
LEMMA AwaitInv ==
  ASSUME NEW st, NEW att, NEW ord, NEW own, NEW aw, NEW tm, NEW q, NEW ld,
         NEW ws, NEW wa, NEW cl, NEW dv, NEW slack,
         Core(st, att, ord, own, aw, tm, q, ld, ws, wa, cl, dv, slack),
         NEW c \in Commands, NEW event, NEW n,
         \/ own = NoCmd /\ aw = "NOTHING" /\ st[c] = "PENDING" /\ tm[c] = 0
            /\ \A i \in 1..Len(ord) : ord[i] # c
         \/ own = c /\ aw \in {"SENDING", "ARRIVED"},
         NextWrite(c, event, n, att, aw, dv)
  PROVE  Core([st EXCEPT ![c] = StatusOf(event)], [att EXCEPT ![c] = n], ord, c,
              event, tm, Append(q, Write(c, event, n)), ld, ws, wa, cl, dv, slack)
<1> DEFINE st2 == [st EXCEPT ![c] = StatusOf(event)]
           att2 == [att EXCEPT ![c] = n]
           w == Write(c, event, n)
           q2 == Append(q, w)
<1>1. /\ MemoryTypes(st, att, ord, own, aw, tm)
      /\ DiskTypes(q, ld, ws, wa, cl, dv, slack)
      /\ Held(st, att, ord, own, aw, tm)
      /\ Chained(q, att, own, aw, cl)
      /\ Logged(st, att, q, ld, ws, wa, cl, dv)
      /\ Paid(st, att, own, aw, q, ld, ws, wa, dv, slack)
  BY DEF Core
<1>2. st[c] \in Unsettled /\ tm[c] = 0 /\ \A i \in 1..Len(ord) : ord[i] # c
  BY <1>1, CommandsAssumption DEF Held, MemoryTypes, AwaitedStatus, Unsettled, StatusOf
<1>3. att[c] < MaxAttempts /\ att[c] \in Nat /\ n \in 0..MaxAttempts
  BY <1>1, <1>2, AttemptsAssumption
     DEF Held, MemoryTypes, Unsettled, NextWrite, WriteEvents
<1>4. event \in WriteEvents /\ w \in Writes /\ w.cmd = c /\ w.event = event /\ w.attempts = n
  BY <1>3 DEF NextWrite, Write, Writes
<1>5. /\ Len(q) \in Nat /\ Len(q2) = Len(q) + 1 /\ q2 \in Seq(Writes) /\ q2 # <<>>
      /\ \A i \in 1..Len(q) : q2[i] = q[i] /\ q[i] \in Writes
      /\ q2[Len(q) + 1] = w
      /\ q # <<>> => Head(q2) = Head(q)
  <2>1. q \in Seq(Writes)
    BY <1>1 DEF DiskTypes
  <2> QED
    BY <1>4, <2>1, AppendFacts, ElementOfSeq
<1>6. MemoryTypes(st2, att2, ord, c, event, tm)
  BY <1>1, <1>3, <1>4 DEF MemoryTypes, WriteEvents, StatusOf, Unsettled, Terminal
<1>7. DiskTypes(q2, ld, ws, wa, cl, dv, slack)
  BY <1>1, <1>5 DEF DiskTypes
<1>8. n = att[c] \/ n = att[c] + 1
  BY DEF NextWrite, WriteEvents
<1>9. /\ st2[c] = AwaitedStatus(event) /\ st2[c] # "ABSENT" /\ att2[c] = n
      /\ \A d \in Commands \ {c} : st2[d] = st[d] /\ att2[d] = att[d]
      /\ st2[c] # "FAILED" => n < MaxAttempts
  BY <1>1, <1>3, <1>4 DEF MemoryTypes, AwaitedStatus, StatusOf, WriteEvents, NextWrite
<1>10. \A d \in Commands \ {c} : d # own
  BY CommandsAssumption
<1>11. Held(st2, att2, ord, c, event, tm)
  <2>1. \A i \in 1..Len(ord) : ord[i] \in Commands
    BY <1>1, ElementOfSeq DEF MemoryTypes
  <2>2. \A i \in 1..Len(ord) : st2[ord[i]] = "PENDING" /\ tm[ord[i]] = 0 /\ ord[i] # c
    BY <1>1, <1>2, <1>9, <2>1 DEF Held
  <2>3. ASSUME NEW d \in Commands
        PROVE  /\ tm[d] = 0 \/ (tm[d] = 1 /\ st2[d] = "PENDING" /\ d # c)
               /\ d # c => st2[d] \in {"ABSENT", "PENDING"}
               /\ st2[d] = "ABSENT" => att2[d] = 0
               /\ st2[d] # "FAILED" => att2[d] < MaxAttempts
    BY <1>1, <1>2, <1>9, <1>10 DEF Held
  <2> QED
    BY <1>1, <1>4, <1>9, <2>2, <2>3, CommandsAssumption DEF Held, WriteEvents
<1>12. \A i \in 1..Len(q) : Creates(q[i], cl) /\ q[i].cmd # c
  <2> SUFFICES ASSUME NEW i \in 1..Len(q)
               PROVE  Creates(q[i], cl) /\ q[i].cmd # c
    OBVIOUS
  <2>1. q[i].cmd \in Commands /\ q[i].event \in WriteEvents \cup {"CREATED"}
    BY <1>5 DEF Writes
  <2>2. Creates(q[i], cl)
    BY <1>1, <1>10, <2>1, CommandsAssumption DEF Chained, Marks, WriteEvents
  <2> QED
    BY <1>1, <1>2, <2>1, <2>2 DEF Creates, Logged, LoggedAt, HeadOnDisk, Unsettled
<1>13. Chained(q2, att2, c, event, cl)
  <2>1. Marks(w, att2, c, event)
    BY <1>4, <1>9 DEF Marks, WriteEvents
  <2>2. \A i \in 1..Len(q2) : i \in 1..Len(q) \/ i = Len(q) + 1
    BY <1>5, SMT
  <2>3. \A i, j \in 1..Len(q2) : q2[i].cmd = q2[j].cmd => i = j
    BY <1>1, <1>4, <1>5, <1>12, <2>2 DEF Chained
  <2> QED
    BY <1>5, <1>12, <2>1, <2>2, <2>3 DEF Chained
<1>14. /\ ld => q # <<>> /\ Head(q).cmd # c
       /\ \A d \in Commands : LandedWrite(q2, ld, d) <=> LandedWrite(q, ld, d)
  <2>1. ld => q # <<>>
    BY <1>1 DEF Logged, LoggedAt, HeadOnDisk
  <2>2. q # <<>> => Head(q) = q[1] /\ 1 \in 1..Len(q)
    BY <1>1, <1>5, TailFacts, SMT DEF DiskTypes
  <2> QED
    BY <1>5, <1>12, <2>1, <2>2 DEF LandedWrite
<1>15. Logged(st2, att2, q2, ld, ws, wa, cl, dv)
  <2>1. ld => /\ q2 # <<>> /\ ws[Head(q2).cmd] = StatusOf(Head(q2).event)
              /\ wa[Head(q2).cmd] = Head(q2).attempts
    BY <1>1, <1>5, <1>14 DEF Logged, LoggedAt, HeadOnDisk
  <2>2. ws[c] \in Unsettled /\ cl[c] # "creating" /\ wa[c] < MaxAttempts /\ wa[c] <= n
    <3>1. ws[c] \in Unsettled /\ cl[c] # "creating" /\ st[c] # "ABSENT"
      BY <1>1, <1>2 DEF Logged, LoggedAt, HeadOnDisk, Unsettled
    <3>2. wa[c] < MaxAttempts /\ wa[c] <= att[c] /\ wa[c] \in Nat
      BY <1>1, <3>1 DEF Logged, LoggedAt, HeadOnDisk, DiskTypes
    <3> QED
      BY <1>3, <1>8, <3>1, <3>2
  <2>3. st2[c] = "ACKED" => dv[c] > 0
    BY <1>4, <1>9 DEF NextWrite, AwaitedStatus, StatusOf, WriteEvents
  <2>4. ASSUME NEW d \in Commands
        PROVE  LoggedAt(d, st2, att2, q2, ld, ws, wa, cl, dv)
    <3>1. CASE d = c
      BY <1>1, <1>9, <2>2, <2>3, <3>1 DEF Logged, LoggedAt, HeadOnDisk, Unsettled
    <3>2. CASE d # c
      BY <1>1, <1>9, <1>14, <3>2 DEF Logged, LoggedAt, HeadOnDisk
    <3> QED
      BY <3>1, <3>2
  <2> QED
    BY <2>1, <2>4 DEF Logged, LoggedAt, HeadOnDisk
<1>16. Paid(st2, att2, c, event, q2, ld, ws, wa, dv, slack)
  <2>1. ASSUME NEW d \in Commands \ {c}
        PROVE  PaidAt(d, st2, att2, c, event, q2, ld, ws, wa, dv, slack)
    BY <1>1, <1>9, <1>10 DEF Paid, PaidAt
  <2>2. ws[c] \in Unsettled /\ ~LandedWrite(q2, ld, c)
    BY <1>1, <1>2, <1>14 DEF Logged, LoggedAt, HeadOnDisk, LandedWrite
  <2>3. /\ dv[c] \in Nat /\ wa[c] \in Nat /\ slack \in Nat
        /\ aw = "ARRIVED" =>
             event \in {"ACKED", "FAILED", "RETRY_SCHEDULED"} /\ own = c
    BY <1>1, <1>4, CommandsAssumption DEF DiskTypes, NextWrite, WriteEvents
  <2>4. \/ dv[c] <= wa[c] + slack
        \/ dv[c] <= wa[c] + slack + 1 /\ event \in {"ACKED", "FAILED", "RETRY_SCHEDULED"}
    BY <1>1, <1>10, <2>2, <2>3 , CommandsAssumption DEF Paid, PaidAt
  <2>5. \/ dv[c] <= n + slack
        \/ dv[c] <= n + slack + 1 /\ event = "ACKED"
    <3>1. \/ dv[c] <= att[c] + slack
          \/ dv[c] <= att[c] + slack + 1 /\ aw = "ARRIVED"
      BY <1>1, <1>2 DEF Paid, PaidAt, Unsettled
    <3>2. aw = "ARRIVED" => event = "ACKED" \/ n = att[c] + 1
      BY DEF NextWrite, WriteEvents
    <3> QED
      BY <1>3, <1>8, <2>3, <3>1, <3>2
  <2>6. PaidAt(c, st2, att2, c, event, q2, ld, ws, wa, dv, slack)
    BY <1>4, <1>9, <2>2, <2>4, <2>5 DEF PaidAt, Unsettled, Terminal, WriteEvents
  <2> QED
    BY <2>1, <2>6 DEF Paid
<1> QED
  BY <1>6, <1>7, <1>11, <1>13, <1>15, <1>16 DEF Core

\* markFailedAttempt under either budget ends in a permitted write.
LEMMA FailWrites ==
  ASSUME NEW st, NEW att, NEW ord, NEW q, NEW aw, NEW dv,
         NEW c, att[c] \in Nat, NEW max \in {1, MaxAttempts},
         FailAttempt(c, max, st, att, ord, q)
  PROVE  \E event, n : /\ AwaitWrite(c, event, n, st, att, ord, q)
                       /\ NextWrite(c, event, n, att, aw, dv)
<1> DEFINE n == att[c] + 1
           event == IF Exhausted(n, max) THEN "FAILED" ELSE "RETRY_SCHEDULED"
<1>1. AwaitWrite(c, event, n, st, att, ord, q)
  BY DEF FailAttempt
<1>2. n \in Nat /\ event \in {"FAILED", "RETRY_SCHEDULED"}
  OBVIOUS
<1>3. event = "RETRY_SCHEDULED" => n < MaxAttempts
  <2>1. ~Exhausted(n, 1) => FALSE
    BY DEF Exhausted
  <2>2. ~Exhausted(n, MaxAttempts) => n < MaxAttempts
    BY AttemptsAssumption DEF Exhausted
  <2> QED
    BY <2>1, <2>2
<1>4. NextWrite(c, event, n, att, aw, dv)
  BY <1>2, <1>3 DEF NextWrite, WriteEvents
<1> QED
  BY <1>1, <1>4

\* The drain loop, started with nothing in hand.
LEMMA DrainInv ==
  ASSUME NEW st, NEW att, NEW ord, NEW tm, NEW q, NEW ld, NEW ws, NEW wa,
         NEW cl, NEW dv, NEW slack,
         Core(st, att, ord, NoCmd, "NOTHING", tm, q, ld, ws, wa, cl, dv, slack),
         Expected(st, ord, NoCmd, tm),
         Drain(st, att, ord, q)
  PROVE  /\ Core(status', attempts', order', owned', awaits', tm, chain', ld,
                 ws, wa, cl, dv, slack)
         /\ Attended(status', order', owned', tm, FALSE)
<1>1. ord \in Seq(Commands) /\ st \in [Commands -> {"ABSENT"} \cup Unsettled \cup Terminal]
      /\ att \in [Commands -> 0..MaxAttempts]
  BY DEF Core, MemoryTypes
<1>2. \A i \in 1..Len(ord) : st[ord[i]] = "PENDING"
  BY DEF Core, Held
<1>3. CASE ord = <<>> /\ Idle(st, att, <<>>, q)
  BY <1>3 DEF Idle, Attended, Expected
<1>4. CASE ord # <<>> /\ HandleOne(Head(ord), st, att, Tail(ord), q)
  <2> DEFINE c == Head(ord)
  <2>0. ord # <<>>
    BY <1>4
  <2>1. /\ Core(st, att, Tail(ord), NoCmd, "NOTHING", tm, q, ld, ws, wa, cl, dv, slack)
        /\ c \in Commands /\ st[c] = "PENDING" /\ tm[c] = 0
        /\ \A i \in 1..Len(Tail(ord)) : Tail(ord)[i] # c
        /\ \A d \in Commands : (\E i \in 1..Len(ord) : ord[i] = d)
             => d = c \/ \E i \in 1..Len(Tail(ord)) : Tail(ord)[i] = d
    <3>1. /\ Core(st, att, Tail(ord), NoCmd, "NOTHING", tm, q, ld, ws, wa, cl, dv, slack)
          /\ c \in Commands /\ st[c] = "PENDING" /\ tm[c] = 0
      BY <2>0, TakeFirst
    <3>2. \A i \in 1..Len(Tail(ord)) : Tail(ord)[i] # c
      BY <2>0, TakeFirst
    <3>3. \A d \in Commands : (\E i \in 1..Len(ord) : ord[i] = d)
             => d = c \/ \E i \in 1..Len(Tail(ord)) : Tail(ord)[i] = d
      BY <2>0, TakeFirst
    <3> QED
      BY <3>1, <3>2, <3>3
  <2>2. att[c] \in Nat
    BY <1>1, <2>1, AttemptsAssumption
  <2>3. PICK event, n : /\ AwaitWrite(c, event, n, st, att, Tail(ord), q)
                        /\ NextWrite(c, event, n, att, "NOTHING", dv)
    <3>1. CASE FailAttempt(c, MaxAttempts, st, att, Tail(ord), q)
      BY <2>2, <3>1, FailWrites
    <3>2. CASE FailAttempt(c, 1, st, att, Tail(ord), q)
      BY <2>2, <3>2, FailWrites
    <3>3. CASE AwaitWrite(c, "DISPATCHING", att[c], st, att, Tail(ord), q)
      <4>1. NextWrite(c, "DISPATCHING", att[c], att, "NOTHING", dv)
        BY <2>2 DEF NextWrite, WriteEvents
      <4> QED
        BY <3>3, <4>1
    <3> QED
      BY <1>4, <3>1, <3>2, <3>3 DEF HandleOne
  <2>4. Core([st EXCEPT ![c] = StatusOf(event)], [att EXCEPT ![c] = n], Tail(ord), c,
             event, tm, Append(q, Write(c, event, n)), ld, ws, wa, cl, dv, slack)
    BY <2>1, <2>3, AwaitInv
  <2>5. Core(status', attempts', order', owned', awaits', tm, chain', ld,
             ws, wa, cl, dv, slack)
    BY <2>3, <2>4 DEF AwaitWrite
  <2>6. Expected(status', order', owned', tm) /\ owned' # NoCmd
    BY <1>1, <2>1, <2>3, CommandsAssumption DEF AwaitWrite, Expected
  <2> QED
    BY <2>5, <2>6 DEF Attended
<1> QED
  BY <1>1, <1>2, <1>3, <1>4, DrainCases

\* 'ready' is emitted while the loop runs or sleeps.
LEMMA ReadyInv ==
  ASSUME NEW st, NEW att, NEW ord, NEW tm, NEW q, NEW ld, NEW ws, NEW wa,
         NEW cl, NEW dv, NEW slack,
         Core(st, att, ord, owned, awaits, tm, q, ld, ws, wa, cl, dv, slack),
         stopped \/ Expected(st, ord, owned, tm),
         Ready(st, att, ord, q)
  PROVE  /\ Core(status', attempts', order', owned', awaits', tm, chain', ld,
                 ws, wa, cl, dv, slack)
         /\ Attended(status', order', owned', tm, stopped)
<1>1. CASE owned # NoCmd \/ stopped
  BY <1>1 DEF Ready, Attended, Expected
<1>2. CASE owned = NoCmd /\ ~stopped
  <2>1. awaits = "NOTHING"
    BY <1>2 DEF Core, Held
  <2>2. Core(st, att, ord, NoCmd, "NOTHING", tm, q, ld, ws, wa, cl, dv, slack)
    BY <1>2, <2>1
  <2>3. Expected(st, ord, NoCmd, tm) /\ Drain(st, att, ord, q)
    BY <1>2 DEF Ready
  <2> QED
    BY <2>2, <2>3, DrainInv DEF Attended
<1> QED
  BY <1>1, <1>2

\* The loop is done with a command and takes its next turn.
LEMMA NextTurnInv ==
  ASSUME NEW st, NEW att, NEW ord, NEW tm, NEW q, NEW ld, NEW ws, NEW wa,
         NEW cl, NEW dv, NEW slack,
         Core(st, att, ord, NoCmd, "NOTHING", tm, q, ld, ws, wa, cl, dv, slack),
         stopped \/ Expected(st, ord, NoCmd, tm),
         NextTurn(st, att, ord, q)
  PROVE  /\ Core(status', attempts', order', owned', awaits', tm, chain', ld,
                 ws, wa, cl, dv, slack)
         /\ Attended(status', order', owned', tm, stopped)
<1>1. CASE stopped
  BY <1>1 DEF NextTurn, Idle, Attended
<1>2. CASE ~stopped
  BY <1>2, DrainInv DEF NextTurn, Attended
<1> QED
  BY <1>1, <1>2

-----------------------------------------------------------------------------
(* Every action preserves the invariant.                                   *)

\* The initial state: nothing is queued, recorded or under way.
LEMMA InitInv == Init => IInv
<1> SUFFICES ASSUME Init PROVE IInv
  OBVIOUS
<1>1. MemoryTypes(status, attempts, order, owned, awaits, timers)
  BY AttemptsAssumption, EmptySeq DEF Init, MemoryTypes
<1>2. DiskTypes(chain, landed, walStatus, walAttempts, caller, deliveries, crashes + lostWrites)
  <2>1. crashes + lostWrites \in Nat
    BY DEF Init
  <2>2. <<>> \in Seq(Writes)
    BY EmptySeq
  <2>3. landed \in BOOLEAN
    BY DEF Init
  <2> QED
    BY <2>1, <2>2, <2>3, AttemptsAssumption DEF Init, DiskTypes
<1>3. Len(order) = 0 /\ Len(chain) = 0
  BY EmptySeq DEF Init
<1>4. Held(status, attempts, order, owned, awaits, timers)
  BY <1>3, CommandsAssumption, AttemptsAssumption DEF Init, Held
<1>5. Chained(chain, attempts, owned, awaits, caller)
  BY <1>3 DEF Init, Chained
<1>6. Logged(status, attempts, chain, landed, walStatus, walAttempts, caller, deliveries)
  BY DEF Init, Logged, LoggedAt, HeadOnDisk, Unsettled, Terminal
<1>7. Paid(status, attempts, owned, awaits, chain, landed, walStatus, walAttempts,
           deliveries, crashes + lostWrites)
  BY CommandsAssumption DEF Init, Paid, PaidAt, Unsettled, Terminal
<1> QED
  <2>1. crashes \in 0..MaxCrashes /\ lostWrites \in 0..MaxLostWrites
    BY BoundsAssumption DEF Init
  <2> QED
    BY <1>1, <1>2, <1>4, <1>5, <1>6, <1>7, <2>1 DEF IInv, Core, Attended, Expected, Init

\* The oldest write reaches the disk.
LEMMA WriteLandsInv == IInv /\ WriteLands => IInv'
<1> SUFFICES ASSUME IInv, WriteLands PROVE IInv'
  OBVIOUS
<1> DEFINE h == Head(chain)
           slack == crashes + lostWrites
<1>1. /\ MemoryTypes(status, attempts, order, owned, awaits, timers)
      /\ DiskTypes(chain, landed, walStatus, walAttempts, caller, deliveries, slack)
      /\ Held(status, attempts, order, owned, awaits, timers)
      /\ Chained(chain, attempts, owned, awaits, caller)
      /\ Logged(status, attempts, chain, landed, walStatus, walAttempts, caller, deliveries)
      /\ Paid(status, attempts, owned, awaits, chain, landed, walStatus, walAttempts,
              deliveries, slack)
  BY DEF IInv, Core
<1> HIDE DEF slack
<1>2. /\ h = chain[1] /\ h \in Writes /\ 1 \in 1..Len(chain)
      /\ h.cmd \in Commands /\ h.attempts \in 0..MaxAttempts
      /\ h.event \in WriteEvents \cup {"CREATED"}
  <2>1. chain \in Seq(Writes) /\ chain # <<>>
    BY <1>1 DEF WriteLands, DiskTypes
  <2>2. h = chain[1] /\ h \in Writes /\ Len(chain) \in Nat \ {0}
    BY <2>1, TailFacts
  <2> QED
    BY <2>2 DEF Writes
<1>3. /\ walStatus' = [walStatus EXCEPT ![h.cmd] = StatusOf(h.event)]
      /\ walAttempts' = [walAttempts EXCEPT ![h.cmd] = h.attempts]
      /\ landed' /\ landed' \in BOOLEAN /\ ~landed /\ chain # <<>>
      /\ UNCHANGED <<up, stopped, blind, status, attempts, order, owned, awaits,
                     timers, chain, caller, ghosts>>
  BY DEF WriteLands
<1>4. /\ walStatus'[h.cmd] = StatusOf(h.event) /\ walAttempts'[h.cmd] = h.attempts
      /\ \A c \in Commands \ {h.cmd} :
           walStatus'[c] = walStatus[c] /\ walAttempts'[c] = walAttempts[c]
      /\ \A c \in Commands : LandedWrite(chain, landed', c) <=> c = h.cmd
      /\ \A c \in Commands : ~LandedWrite(chain, landed, c)
  BY <1>1, <1>2, <1>3 DEF DiskTypes, LandedWrite
<1>5. Creates(h, caller) \/ Marks(h, attempts, owned, awaits)
  BY <1>1, <1>2 DEF Chained
<1>6. DiskTypes(chain, landed', walStatus', walAttempts', caller, deliveries, slack)
  <2>1. StatusOf(h.event) \in Unsettled \cup Terminal
    BY <1>2 DEF StatusOf, WriteEvents, Unsettled, Terminal
  <2> QED
    BY <1>1, <1>2, <1>3, <2>1 DEF DiskTypes
<1>9. ASSUME Logged(status, attempts, chain, landed', walStatus', walAttempts', caller, deliveries),
             Paid(status, attempts, owned, awaits, chain, landed', walStatus', walAttempts',
                  deliveries, slack)
      PROVE  IInv'
  <2>1. Core(status, attempts, order, owned, awaits, timers, chain, landed', walStatus',
             walAttempts', caller, deliveries, slack)
    BY <1>1, <1>6, <1>9 DEF Core
  <2>2. /\ up' /\ up' = up /\ stopped' = stopped /\ blind' = blind /\ status' = status
        /\ attempts' = attempts /\ order' = order /\ owned' = owned /\ awaits' = awaits
        /\ timers' = timers /\ chain' = chain /\ caller' = caller
        /\ deliveries' = deliveries /\ crashes' = crashes /\ lostWrites' = lostWrites
    BY DEF WriteLands, ghosts
  <2> QED
    BY <1>3, <2>1, <2>2 DEF IInv, slack
<1>7. CASE Creates(h, caller)
  <2>1. /\ caller[h.cmd] = "creating" /\ status[h.cmd] = "ABSENT"
        /\ deliveries[h.cmd] = 0 /\ walStatus'[h.cmd] = "PENDING" /\ walAttempts'[h.cmd] = 0
    BY <1>1, <1>2, <1>4, <1>7 DEF Creates, Logged, LoggedAt, HeadOnDisk, StatusOf
  <2>2. Logged(status, attempts, chain, landed', walStatus', walAttempts', caller, deliveries)
    <3>1. ASSUME NEW c \in Commands, c # h.cmd
          PROVE  LoggedAt(c, status, attempts, chain, landed', walStatus', walAttempts', caller, deliveries)
      BY <1>1, <1>4, <3>1 DEF Logged, LoggedAt
    <3>2. LoggedAt(h.cmd, status, attempts, chain, landed', walStatus', walAttempts', caller, deliveries)
      BY <1>2, <1>4, <2>1, AttemptsAssumption DEF LoggedAt, Unsettled, Terminal
    <3> QED
      BY <1>2, <1>3, <1>4, <3>1, <3>2 DEF Logged, HeadOnDisk
  <2>3. Paid(status, attempts, owned, awaits, chain, landed', walStatus', walAttempts',
             deliveries, slack)
    <3>1. ASSUME NEW c \in Commands, c # h.cmd
          PROVE  PaidAt(c, status, attempts, owned, awaits, chain, landed', walStatus', walAttempts', deliveries, slack)
      BY <1>1, <1>4, <3>1 DEF Paid, PaidAt
    <3>2. owned # h.cmd
      BY <1>1, <1>2, <2>1 DEF Held, AwaitedStatus, StatusOf, MemoryTypes, WriteEvents
    <3>3. PaidAt(h.cmd, status, attempts, owned, awaits, chain, landed', walStatus', walAttempts', deliveries, slack)
      <4>1. slack \in Nat
        BY <1>1 DEF DiskTypes
      <4> QED
        BY <2>1, <3>2, <4>1 DEF PaidAt, Unsettled, Terminal
    <3> QED
      BY <1>2, <3>1, <3>3 DEF Paid
  <2> QED
    BY <1>9, <2>2, <2>3
<1>8. CASE Marks(h, attempts, owned, awaits)
  <2>1. /\ owned = h.cmd /\ awaits = h.event /\ h.event \in WriteEvents
        /\ walAttempts'[owned] = attempts[owned]
        /\ status[owned] = StatusOf(awaits) /\ walStatus'[owned] = status[owned]
    BY <1>1, <1>2, <1>4, <1>8 DEF Marks, Held, AwaitedStatus, WriteEvents
  <2>2. /\ status[owned] \in Unsettled \cup Terminal
        /\ status[owned] = "PENDING" => awaits = "RETRY_SCHEDULED"
        /\ awaits # "FAILED" => status[owned] # "FAILED"
        /\ awaits = "FAILED" => status[owned] = "FAILED"
        /\ awaits = "ACKED" <=> status[owned] = "ACKED"
        /\ awaits # "ARRIVED"
    BY <2>1 DEF StatusOf, WriteEvents, Unsettled, Terminal
  <2>3. /\ walStatus[owned] \in Unsettled
        /\ attempts[owned] \in 0..MaxAttempts
        /\ status[owned] # "FAILED" => attempts[owned] < MaxAttempts
    BY <1>1, <1>2, <1>4, <2>1, <2>2 DEF Logged, LoggedAt, HeadOnDisk, Held, MemoryTypes
  <2>4. Logged(status, attempts, chain, landed', walStatus', walAttempts', caller, deliveries)
    <3>1. ASSUME NEW c \in Commands, c # owned
          PROVE  LoggedAt(c, status, attempts, chain, landed', walStatus', walAttempts', caller, deliveries)
      BY <1>1, <1>4, <2>1, <3>1 DEF Logged, LoggedAt
    <3>2. LoggedAt(owned, status, attempts, chain, landed', walStatus', walAttempts', caller, deliveries)
      <4>1. LoggedAt(owned, status, attempts, chain, landed, walStatus, walAttempts, caller, deliveries)
        BY <1>1, <1>2, <2>1 DEF Logged
      <4>2. LandedWrite(chain, landed', owned) /\ ~LandedWrite(chain, landed, owned)
        BY <1>2, <1>4, <2>1
      <4> QED
        BY <2>1, <2>2, <2>3, <4>1, <4>2 DEF LoggedAt, Unsettled, Terminal
    <3> QED
      BY <1>2, <1>3, <1>4, <2>1, <3>1, <3>2 DEF Logged, HeadOnDisk
  <2>5. Paid(status, attempts, owned, awaits, chain, landed', walStatus', walAttempts',
             deliveries, slack)
    <3>1. ASSUME NEW c \in Commands, c # owned
          PROVE  PaidAt(c, status, attempts, owned, awaits, chain, landed', walStatus', walAttempts', deliveries, slack)
      BY <1>1, <1>4, <2>1, <3>1 DEF Paid, PaidAt
    <3>2. PaidAt(owned, status, attempts, owned, awaits, chain, landed', walStatus', walAttempts', deliveries, slack)
      <4>1. PaidAt(owned, status, attempts, owned, awaits, chain, landed, walStatus, walAttempts,
                   deliveries, slack)
        BY <1>1, <1>2, <2>1 DEF Paid
      <4>2. slack \in Nat /\ deliveries[owned] \in Nat
        BY <1>1, <1>2, <2>1 DEF DiskTypes
      <4> QED
        BY <2>1, <2>2, <2>3, <4>1, <4>2, AttemptsAssumption DEF PaidAt, Unsettled, Terminal
    <3> QED
      BY <1>2, <2>1, <3>1, <3>2 DEF Paid
  <2> QED
    BY <1>9, <2>4, <2>5
<1> QED
  BY <1>5, <1>7, <1>8

\* The parts of the invariant in a state of the specification.
LEMMA CoreParts ==
  ASSUME IInv
  PROVE  /\ MemoryTypes(status, attempts, order, owned, awaits, timers)
         /\ DiskTypes(chain, landed, walStatus, walAttempts, caller, deliveries,
                      crashes + lostWrites)
         /\ Held(status, attempts, order, owned, awaits, timers)
         /\ Chained(chain, attempts, owned, awaits, caller)
         /\ Logged(status, attempts, chain, landed, walStatus, walAttempts, caller, deliveries)
         /\ Paid(status, attempts, owned, awaits, chain, landed, walStatus, walAttempts,
                 deliveries, crashes + lostWrites)
         /\ Attended(status, order, owned, timers, stopped)
BY DEF IInv, Core

\* A caller hands a new command to enqueue().
LEMMA EnqueueInv == ASSUME IInv, NEW c \in Commands, Enqueue(c) PROVE IInv'
<1> DEFINE slack == crashes + lostWrites
           w == Write(c, "CREATED", 0)
           q2 == Append(chain, w)
<1>1. /\ MemoryTypes(status, attempts, order, owned, awaits, timers)
      /\ DiskTypes(chain, landed, walStatus, walAttempts, caller, deliveries, slack)
      /\ Held(status, attempts, order, owned, awaits, timers)
      /\ Chained(chain, attempts, owned, awaits, caller)
      /\ Logged(status, attempts, chain, landed, walStatus, walAttempts, caller, deliveries)
      /\ Paid(status, attempts, owned, awaits, chain, landed, walStatus, walAttempts,
              deliveries, slack)
  BY CoreParts
<1>2. slack' = slack
  BY DEF Enqueue, ghosts
<1> HIDE DEF slack
<1>3. /\ caller[c] = "unborn" /\ caller' = [caller EXCEPT ![c] = "creating"]
      /\ chain' = q2
  BY DEF Enqueue
<1>4. /\ caller' \in [Commands -> {"unborn", "creating", "accepted", "refused", "unknown"}]
      /\ caller'[c] = "creating"
      /\ \A d \in Commands \ {c} : caller'[d] = caller[d]
  BY <1>1, <1>3 DEF DiskTypes
<1>5. walStatus[c] = "NONE" /\ status[c] = "ABSENT" /\ deliveries[c] = 0
  BY <1>1, <1>3 DEF Logged, LoggedAt
<1>6. w \in Writes /\ w.cmd = c /\ w.event = "CREATED" /\ w.attempts = 0
  BY AttemptsAssumption DEF Write, Writes
<1>7. /\ Len(chain) \in Nat /\ Len(q2) = Len(chain) + 1 /\ q2 \in Seq(Writes) /\ q2 # <<>>
      /\ \A i \in 1..Len(chain) : q2[i] = chain[i] /\ chain[i] \in Writes
      /\ q2[Len(chain) + 1] = w
      /\ chain # <<>> => Head(q2) = Head(chain)
  <2>1. chain \in Seq(Writes)
    BY <1>1 DEF DiskTypes
  <2> QED
    BY <1>6, <2>1, AppendFacts, ElementOfSeq
<1>8. DiskTypes(q2, landed, walStatus, walAttempts, caller', deliveries, slack)
  BY <1>1, <1>4, <1>7 DEF DiskTypes
<1>9. \A i \in 1..Len(chain) : chain[i].cmd # c
  <2> SUFFICES ASSUME NEW i \in 1..Len(chain), chain[i].cmd = c PROVE FALSE
    OBVIOUS
  <2>1. owned = c
    BY <1>1, <1>3 DEF Chained, Creates, Marks
  <2> QED
    BY <1>1, <1>5, <2>1 DEF Held, AwaitedStatus, StatusOf, MemoryTypes, WriteEvents
<1>10. Chained(q2, attempts, owned, awaits, caller')
  <2>1. \A i \in 1..Len(q2) : i \in 1..Len(chain) \/ i = Len(chain) + 1
    BY <1>7, SMT
  <2>2. \A i \in 1..Len(chain) :
          Creates(q2[i], caller') \/ Marks(q2[i], attempts, owned, awaits)
    BY <1>1, <1>4, <1>7, <1>9 DEF Chained, Creates, Writes
  <2>3. Creates(w, caller')
    BY <1>4, <1>6 DEF Creates
  <2>4. \A i, j \in 1..Len(q2) : q2[i].cmd = q2[j].cmd => i = j
    BY <1>1, <1>6, <1>7, <1>9, <2>1 DEF Chained
  <2> QED
    BY <1>7, <2>1, <2>2, <2>3, <2>4 DEF Chained
<1>11. /\ landed => chain # <<>>
       /\ \A d \in Commands : LandedWrite(q2, landed, d) <=> LandedWrite(chain, landed, d)
  <2>1. landed => chain # <<>>
    BY <1>1 DEF Logged, HeadOnDisk
  <2> QED
    BY <1>7, <2>1 DEF LandedWrite
<1>12. Logged(status, attempts, q2, landed, walStatus, walAttempts, caller', deliveries)
  <2>1. HeadOnDisk(q2, landed, walStatus, walAttempts)
    BY <1>1, <1>7, <1>11 DEF Logged, HeadOnDisk
  <2>2. ASSUME NEW d \in Commands, d # c
        PROVE  LoggedAt(d, status, attempts, q2, landed, walStatus, walAttempts, caller',
                        deliveries)
    BY <1>1, <1>4, <1>11, <2>2 DEF Logged, LoggedAt
  <2>3. LoggedAt(c, status, attempts, q2, landed, walStatus, walAttempts, caller', deliveries)
    BY <1>4, <1>5 DEF LoggedAt, Unsettled, Terminal
  <2> QED
    BY <2>1, <2>2, <2>3 DEF Logged
<1>13. Paid(status, attempts, owned, awaits, q2, landed, walStatus, walAttempts,
            deliveries, slack)
  BY <1>1, <1>11 DEF Paid, PaidAt
<1>14. Core(status, attempts, order, owned, awaits, timers, q2, landed, walStatus,
            walAttempts, caller', deliveries, slack)
  BY <1>1, <1>8, <1>10, <1>12, <1>13 DEF Core
<1>15. /\ up' /\ up' = up /\ stopped' = stopped /\ blind' = blind /\ status' = status
       /\ attempts' = attempts /\ order' = order /\ owned' = owned /\ awaits' = awaits
       /\ timers' = timers /\ landed' = landed
       /\ walStatus' = walStatus /\ walAttempts' = walAttempts
       /\ deliveries' = deliveries /\ crashes' = crashes /\ lostWrites' = lostWrites
  BY DEF Enqueue, ghosts, disk
<1> QED
  BY <1>2, <1>3, <1>14, <1>15 DEF IInv, slack

\* Taking the head off the write chain.
LEMMA PopChain ==
  ASSUME IInv, chain # <<>>
  PROVE  /\ Head(chain) = chain[1] /\ Head(chain) \in Writes /\ Head(chain).cmd \in Commands
         /\ Tail(chain) \in Seq(Writes)
         /\ Creates(Head(chain), caller) \/ Marks(Head(chain), attempts, owned, awaits)
         /\ \A i \in 1..Len(Tail(chain)) :
              /\ Tail(chain)[i] \in Writes /\ Tail(chain)[i].cmd # Head(chain).cmd
              /\ Creates(Tail(chain)[i], caller) \/ Marks(Tail(chain)[i], attempts, owned, awaits)
         /\ \A i, j \in 1..Len(Tail(chain)) : Tail(chain)[i].cmd = Tail(chain)[j].cmd => i = j
         /\ \A c \in Commands : LandedWrite(chain, landed, c) => c = Head(chain).cmd
<1>1. chain \in Seq(Writes) /\ Chained(chain, attempts, owned, awaits, caller)
  BY CoreParts DEF DiskTypes
<1>2. /\ Len(chain) \in Nat \ {0}
      /\ Head(chain) = chain[1] /\ Head(chain) \in Writes
      /\ Tail(chain) \in Seq(Writes) /\ Len(Tail(chain)) = Len(chain) - 1
      /\ \A i \in 1..Len(Tail(chain)) : i + 1 \in 1..Len(chain) /\ Tail(chain)[i] = chain[i + 1]
  BY <1>1, TailFacts
<1>3. Head(chain).cmd \in Commands /\ 1 \in 1..Len(chain)
  BY <1>2 DEF Writes
<1>4. \A i \in 1..Len(Tail(chain)) : i + 1 # 1 /\ Tail(chain)[i] \in Writes
  BY <1>1, <1>2, ElementOfSeq, SMT
<1>5. \A i \in 1..Len(Tail(chain)) : Tail(chain)[i].cmd # Head(chain).cmd
  BY <1>1, <1>2, <1>3, <1>4 DEF Chained
<1>6. \A i, j \in 1..Len(Tail(chain)) : Tail(chain)[i].cmd = Tail(chain)[j].cmd => i = j
  BY <1>1, <1>2, SMT DEF Chained
<1> QED
  BY <1>1, <1>2, <1>3, <1>4, <1>5, <1>6 DEF Chained, LandedWrite

\* The CREATED write at the head of the chain settles and enqueue() goes on.
LEMMA CreatedSettlesInv == ASSUME IInv, CreatedSettles PROVE IInv'
<1> DEFINE slack == crashes + lostWrites
           c == Head(chain).cmd
           rest == Tail(chain)
<1>1. /\ MemoryTypes(status, attempts, order, owned, awaits, timers)
      /\ DiskTypes(chain, landed, walStatus, walAttempts, caller, deliveries, slack)
      /\ Held(status, attempts, order, owned, awaits, timers)
      /\ Logged(status, attempts, chain, landed, walStatus, walAttempts, caller, deliveries)
      /\ Paid(status, attempts, owned, awaits, chain, landed, walStatus, walAttempts,
              deliveries, slack)
      /\ Attended(status, order, owned, timers, stopped)
  BY CoreParts
<1>2. /\ slack' = slack /\ up /\ up' = up /\ stopped' = stopped /\ blind' = blind
      /\ timers' = timers /\ walStatus' = walStatus /\ walAttempts' = walAttempts
      /\ deliveries' = deliveries /\ crashes' = crashes /\ lostWrites' = lostWrites
      /\ ~landed' /\ landed' \in BOOLEAN
      /\ Head(chain).event = "CREATED" /\ chain # <<>>
      /\ landed \/ ~landed
  BY DEF CreatedSettles, ghosts, disk
<1> HIDE DEF slack
<1>3. /\ c \in Commands /\ rest \in Seq(Writes) /\ Creates(Head(chain), caller)
      /\ \A i \in 1..Len(rest) :
           /\ rest[i] \in Writes /\ rest[i].cmd # c
           /\ Creates(rest[i], caller) \/ Marks(rest[i], attempts, owned, awaits)
      /\ \A i, j \in 1..Len(rest) : rest[i].cmd = rest[j].cmd => i = j
      /\ \A d \in Commands : LandedWrite(chain, landed, d) => d = c
  BY <1>2, PopChain DEF Marks
<1>4. caller[c] = "creating" /\ status[c] = "ABSENT" /\ deliveries[c] = 0 /\ c # owned
  BY <1>1, <1>3 DEF Creates, Logged, LoggedAt, Held, AwaitedStatus, StatusOf, MemoryTypes, WriteEvents
<1>5. \A d \in Commands : ~LandedWrite(rest, landed', d)
  BY <1>2 DEF LandedWrite
<1>6. HeadOnDisk(rest, landed', walStatus, walAttempts)
  BY <1>2 DEF HeadOnDisk
<1>7. CASE landed
  <2> DEFINE st == [status EXCEPT ![c] = "PENDING"]
             att == [attempts EXCEPT ![c] = 0]
             ord == Append(order, c)
  <2>1. /\ caller' = [caller EXCEPT ![c] = "accepted"]
        /\ Ready(st, att, ord, rest)
    BY <1>7 DEF CreatedSettles, Accept
  <2>2. /\ caller' \in [Commands -> {"unborn", "creating", "accepted", "refused", "unknown"}]
        /\ caller'[c] = "accepted" /\ \A d \in Commands \ {c} : caller'[d] = caller[d]
    BY <1>1, <1>3, <2>1 DEF DiskTypes
  <2>3. /\ st[c] = "PENDING" /\ att[c] = 0
        /\ \A d \in Commands \ {c} : st[d] = status[d] /\ att[d] = attempts[d]
    BY <1>1, <1>3 DEF MemoryTypes
  <2>4. /\ Len(order) \in Nat /\ Len(ord) = Len(order) + 1 /\ ord \in Seq(Commands)
        /\ \A i \in 1..Len(order) : ord[i] = order[i] /\ order[i] \in Commands
        /\ ord[Len(order) + 1] = c
    BY <1>1, <1>3, AppendFacts, ElementOfSeq DEF MemoryTypes
  <2>5. MemoryTypes(st, att, ord, owned, awaits, timers)
    BY <1>1, <1>3, <2>4, AttemptsAssumption DEF MemoryTypes, Unsettled, Terminal
  <2>6. DiskTypes(rest, landed', walStatus, walAttempts, caller', deliveries, slack)
    BY <1>1, <1>2, <1>3, <2>2 DEF DiskTypes
  <2>7. \A i \in 1..Len(order) : order[i] # c
    BY <1>1, <1>4 DEF Held
  <2>8. timers[c] = 0
    BY <1>1, <1>3, <1>4 DEF Held
  <2>9. \A i \in 1..Len(ord) : i \in 1..Len(order) \/ i = Len(order) + 1
    BY <2>4, SMT
  <2>10. Held(st, att, ord, owned, awaits, timers)
    <3>1. \A i, j \in 1..Len(ord) : ord[i] = ord[j] => i = j
      BY <1>1, <2>4, <2>7, <2>9 DEF Held
    <3>2. \A i \in 1..Len(ord) :
            st[ord[i]] = "PENDING" /\ timers[ord[i]] = 0 /\ ord[i] # owned
      BY <1>1, <1>4, <2>3, <2>4, <2>7, <2>8, <2>9 DEF Held
    <3>3. ASSUME NEW d \in Commands
          PROVE  /\ timers[d] = 0 \/ (timers[d] = 1 /\ st[d] = "PENDING" /\ d # owned)
                 /\ d # owned => st[d] \in {"ABSENT", "PENDING"}
                 /\ st[d] = "ABSENT" => att[d] = 0
                 /\ st[d] # "FAILED" => att[d] < MaxAttempts
      BY <1>1, <2>3, <2>8, AttemptsAssumption DEF Held
    <3> QED
      BY <1>1, <1>4, <2>3, <3>1, <3>2, <3>3 DEF Held
  <2>11. Chained(rest, att, owned, awaits, caller')
    <3>1. owned \in Commands => att[owned] = attempts[owned]
      BY <1>4, <2>3
    <3>2. \A i \in 1..Len(rest) : rest[i].cmd \in Commands
      BY <1>3 DEF Writes
    <3> QED
      BY <1>3, <2>2, <3>1, <3>2 DEF Chained, Creates, Marks
  <2>12. walStatus[c] = "PENDING" /\ walAttempts[c] = 0
    BY <1>1, <1>2, <1>3, <1>7 DEF Logged, HeadOnDisk, StatusOf, Creates
  <2>13. Logged(st, att, rest, landed', walStatus, walAttempts, caller', deliveries)
    <3>1. ASSUME NEW d \in Commands, d # c
          PROVE  LoggedAt(d, st, att, rest, landed', walStatus, walAttempts, caller', deliveries)
      BY <1>1, <1>3, <1>5, <2>2, <2>3, <3>1 DEF Logged, LoggedAt
    <3>2. LoggedAt(c, st, att, rest, landed', walStatus, walAttempts, caller', deliveries)
      BY <1>4, <2>2, <2>3, <2>12, AttemptsAssumption DEF LoggedAt, Unsettled, Terminal
    <3> QED
      BY <1>6, <3>1, <3>2 DEF Logged
  <2>14. Paid(st, att, owned, awaits, rest, landed', walStatus, walAttempts, deliveries, slack)
    <3>1. ASSUME NEW d \in Commands, d # c
          PROVE  PaidAt(d, st, att, owned, awaits, rest, landed', walStatus, walAttempts,
                        deliveries, slack)
      BY <1>1, <1>3, <1>5, <2>3, <3>1 DEF Paid, PaidAt
    <3>2. slack \in Nat
      BY <1>1 DEF DiskTypes
    <3>3. PaidAt(c, st, att, owned, awaits, rest, landed', walStatus, walAttempts,
                 deliveries, slack)
      BY <1>4, <2>3, <2>12, <3>2 DEF PaidAt, Unsettled, Terminal
    <3> QED
      BY <3>1, <3>3 DEF Paid
  <2>15. Core(st, att, ord, owned, awaits, timers, rest, landed', walStatus, walAttempts,
              caller', deliveries, slack)
    BY <2>5, <2>6, <2>10, <2>11, <2>13, <2>14 DEF Core
  <2>16. stopped \/ Expected(st, ord, owned, timers)
    BY <1>1, <2>3, <2>4 DEF Attended, Expected
  <2> HIDE DEF c, rest, st, att, ord
  <2>17. /\ Core(status', attempts', order', owned', awaits', timers, chain', landed',
                 walStatus, walAttempts, caller', deliveries, slack)
         /\ Attended(status', order', owned', timers, stopped)
    BY <2>1, <2>15, <2>16, ReadyInv
  <2> QED
    BY <1>2, <2>17 DEF IInv, slack
<1>8. CASE ~landed
  <2>1. /\ caller' = [caller EXCEPT ![c] = "refused"]
        /\ chain' = rest
        /\ UNCHANGED <<status, attempts, order, owned, awaits>>
    BY <1>8 DEF CreatedSettles, Refuse
  <2>2. /\ caller' \in [Commands -> {"unborn", "creating", "accepted", "refused", "unknown"}]
        /\ caller'[c] = "refused" /\ \A d \in Commands \ {c} : caller'[d] = caller[d]
    BY <1>1, <1>3, <2>1 DEF DiskTypes
  <2>3. walStatus[c] = "NONE"
    BY <1>1, <1>3, <1>4, <1>8 DEF Logged, LoggedAt, LandedWrite
  <2>4. DiskTypes(rest, landed', walStatus, walAttempts, caller', deliveries, slack)
    BY <1>1, <1>2, <1>3, <2>2 DEF DiskTypes
  <2>5. Chained(rest, attempts, owned, awaits, caller')
    <3>1. \A i \in 1..Len(rest) : rest[i].cmd \in Commands
      BY <1>3 DEF Writes
    <3> QED
      BY <1>3, <2>2, <3>1 DEF Chained, Creates
  <2>6. Logged(status, attempts, rest, landed', walStatus, walAttempts, caller', deliveries)
    <3>1. ASSUME NEW d \in Commands, d # c
          PROVE  LoggedAt(d, status, attempts, rest, landed', walStatus, walAttempts, caller',
                          deliveries)
      BY <1>1, <1>3, <1>5, <2>2, <3>1 DEF Logged, LoggedAt
    <3>2. LoggedAt(c, status, attempts, rest, landed', walStatus, walAttempts, caller', deliveries)
      BY <1>4, <2>2, <2>3 DEF LoggedAt, Unsettled, Terminal
    <3> QED
      BY <1>6, <3>1, <3>2 DEF Logged
  <2>7. Paid(status, attempts, owned, awaits, rest, landed', walStatus, walAttempts,
             deliveries, slack)
    BY <1>1, <1>5, <1>8 DEF Paid, PaidAt, LandedWrite
  <2>8. Core(status, attempts, order, owned, awaits, timers, rest, landed', walStatus,
             walAttempts, caller', deliveries, slack)
    BY <1>1, <2>4, <2>5, <2>6, <2>7 DEF Core
  <2> QED
    BY <1>1, <1>2, <2>1, <2>8 DEF IInv, slack
<1> QED
  BY <1>2, <1>7, <1>8

\* A status write settles: the rest of the chain holds CREATED writes of other
\* commands only, and every delivery is paid for by what the disk now counts
\* or by the failure just counted.
LEMMA SettledWrite ==
  ASSUME IInv, NEW event \in WriteEvents, StatusWriteSettles(event)
  PROVE  /\ owned \in Commands /\ awaits = event
         /\ crashes + lostWrites' \in Nat /\ lostWrites' \in 0..MaxLostWrites
         /\ ~landed' /\ landed' \in BOOLEAN /\ up
         /\ DiskTypes(Tail(chain), landed', walStatus, walAttempts, caller, deliveries,
                      crashes + lostWrites')
         /\ \A i \in 1..Len(Tail(chain)) :
              Creates(Tail(chain)[i], caller) /\ Tail(chain)[i].cmd # owned
         /\ \A i, j \in 1..Len(Tail(chain)) : Tail(chain)[i].cmd = Tail(chain)[j].cmd => i = j
         /\ \A c \in Commands : caller[c] = "creating" => walStatus[c] = "NONE"
         /\ \A c \in Commands : ~LandedWrite(Tail(chain), landed', c)
         /\ HeadOnDisk(Tail(chain), landed', walStatus, walAttempts)
         /\ \A c \in Commands :
              /\ walStatus[c] \in Terminal => deliveries[c] <= MaxAttempts + crashes + lostWrites'
              /\ walStatus[c] \in Unsettled => deliveries[c] <= walAttempts[c] + (crashes + lostWrites')
              /\ status[c] # "ABSENT" =>
                   \/ deliveries[c] <= attempts[c] + (crashes + lostWrites')
                   \/ deliveries[c] <= attempts[c] + (crashes + lostWrites') + 1 /\ owned = c /\ awaits = "ACKED"
<1> DEFINE slack == crashes + lostWrites
           slack2 == crashes + lostWrites'
           rest == Tail(chain)
<1>1. /\ MemoryTypes(status, attempts, order, owned, awaits, timers)
      /\ DiskTypes(chain, landed, walStatus, walAttempts, caller, deliveries, slack)
      /\ Held(status, attempts, order, owned, awaits, timers)
      /\ Logged(status, attempts, chain, landed, walStatus, walAttempts, caller, deliveries)
      /\ Paid(status, attempts, owned, awaits, chain, landed, walStatus, walAttempts,
              deliveries, slack)
  BY CoreParts
<1>2. /\ up /\ chain # <<>> /\ awaits = event /\ Head(chain).event = event
      /\ ~landed' /\ landed' \in BOOLEAN /\ event # "CREATED"
      /\ \/ landed /\ lostWrites' = lostWrites
         \/ ~landed /\ lostWrites < MaxLostWrites /\ lostWrites' = lostWrites + 1
  BY DEF StatusWriteSettles, WriteEvents
<1>3. crashes \in Nat /\ lostWrites \in Nat /\ lostWrites <= MaxLostWrites
  BY BoundsAssumption DEF IInv
<1>4. /\ lostWrites' \in 0..MaxLostWrites /\ slack \in Nat /\ slack2 \in Nat
      /\ landed => slack2 = slack
      /\ ~landed => slack2 = slack + 1
      /\ MaxAttempts + slack2 = MaxAttempts + crashes + lostWrites'
  BY <1>2, <1>3, AttemptsAssumption, BoundsAssumption
<1> HIDE DEF slack, slack2
<1>5. /\ Head(chain).cmd \in Commands /\ rest \in Seq(Writes)
      /\ Creates(Head(chain), caller) \/ Marks(Head(chain), attempts, owned, awaits)
      /\ \A i \in 1..Len(rest) :
           /\ rest[i].cmd # Head(chain).cmd
           /\ Creates(rest[i], caller) \/ Marks(rest[i], attempts, owned, awaits)
      /\ \A i, j \in 1..Len(rest) : rest[i].cmd = rest[j].cmd => i = j
      /\ \A d \in Commands : LandedWrite(chain, landed, d) => d = Head(chain).cmd
  BY <1>2, PopChain
<1>6. Head(chain).cmd = owned /\ owned \in Commands
  BY <1>2, <1>5 DEF Creates, Marks
<1>7. \A i \in 1..Len(rest) : Creates(rest[i], caller) /\ rest[i].cmd # owned
  BY <1>5, <1>6 DEF Marks
<1>8. \A c \in Commands : caller[c] = "creating" => walStatus[c] = "NONE"
  <2>1. status[owned] # "ABSENT"
    BY <1>1, <1>2, <1>6 DEF Held, AwaitedStatus, StatusOf, WriteEvents
  <2> QED
    BY <1>1, <1>5, <1>6, <2>1 DEF Logged, LoggedAt
<1>9. DiskTypes(rest, landed', walStatus, walAttempts, caller, deliveries, slack2)
  BY <1>1, <1>2, <1>4, <1>5 DEF DiskTypes
<1>10. \A c \in Commands : ~LandedWrite(rest, landed', c)
  BY <1>2 DEF LandedWrite
<1>11. HeadOnDisk(rest, landed', walStatus, walAttempts)
  BY <1>2 DEF HeadOnDisk
<1>12. ASSUME NEW c \in Commands
       PROVE  /\ walStatus[c] \in Terminal => deliveries[c] <= MaxAttempts + slack2
              /\ walStatus[c] \in Unsettled => deliveries[c] <= walAttempts[c] + slack2
              /\ status[c] # "ABSENT" =>
                   \/ deliveries[c] <= attempts[c] + slack2
                   \/ deliveries[c] <= attempts[c] + slack2 + 1 /\ owned = c /\ awaits = "ACKED"
  <2>1. /\ deliveries[c] \in Nat /\ walAttempts[c] \in Nat /\ attempts[c] \in Nat
        /\ MaxAttempts \in Nat
    BY <1>1, AttemptsAssumption DEF DiskTypes, MemoryTypes
  <2>2. PaidAt(c, status, attempts, owned, awaits, chain, landed, walStatus, walAttempts,
               deliveries, slack)
    BY <1>1 DEF Paid
  <2>3. awaits # "ARRIVED"
    BY <1>2 DEF WriteEvents
  <2>4. CASE landed
    <3>1. owned = c => LandedWrite(chain, landed, c)
      BY <1>2, <1>6, <2>4 DEF LandedWrite
    <3> QED
      BY <1>4, <2>1, <2>2, <2>3, <2>4, <3>1 DEF PaidAt
  <2>5. CASE ~landed
    BY <1>4, <2>1, <2>2, <2>3, <2>5 DEF PaidAt
  <2> QED
    BY <2>4, <2>5
<1> QED
  BY <1>2, <1>4, <1>5, <1>6, <1>7, <1>8, <1>9, <1>10, <1>11, <1>12 DEF slack2

\* The write of DISPATCHING settled: the command is about to be sent.
LEMMA DispatchedCore ==
  ASSUME IInv, StatusWriteSettles("DISPATCHING")
  PROVE  Core(status, attempts, order, owned, "SENDING", timers, Tail(chain), landed',
              walStatus, walAttempts, caller, deliveries, crashes + lostWrites')
<1> DEFINE slack2 == crashes + lostWrites'
           rest == Tail(chain)
<1>1. /\ MemoryTypes(status, attempts, order, owned, awaits, timers)
      /\ Held(status, attempts, order, owned, awaits, timers)
      /\ Logged(status, attempts, chain, landed, walStatus, walAttempts, caller, deliveries)
  BY CoreParts
<1>2. /\ owned \in Commands /\ awaits = "DISPATCHING"
      /\ DiskTypes(rest, landed', walStatus, walAttempts, caller, deliveries, slack2)
      /\ \A i \in 1..Len(rest) : Creates(rest[i], caller) /\ rest[i].cmd # owned
      /\ \A i, j \in 1..Len(rest) : rest[i].cmd = rest[j].cmd => i = j
      /\ \A c \in Commands : caller[c] = "creating" => walStatus[c] = "NONE"
      /\ \A c \in Commands : ~LandedWrite(rest, landed', c)
      /\ HeadOnDisk(rest, landed', walStatus, walAttempts)
      /\ slack2 \in Nat
      /\ \A c \in Commands :
           /\ walStatus[c] \in Terminal => deliveries[c] <= MaxAttempts + crashes + lostWrites'
           /\ walStatus[c] \in Unsettled => deliveries[c] <= walAttempts[c] + slack2
           /\ status[c] # "ABSENT" =>
                \/ deliveries[c] <= attempts[c] + slack2
                \/ deliveries[c] <= attempts[c] + slack2 + 1 /\ owned = c /\ awaits = "ACKED"
  BY SettledWrite DEF WriteEvents
<1>3. MaxAttempts + slack2 = MaxAttempts + crashes + lostWrites'
  <2>1. crashes \in Nat /\ lostWrites' \in Nat
    BY SettledWrite, BoundsAssumption DEF IInv, WriteEvents
  <2> QED
    BY <2>1, AttemptsAssumption
<1> HIDE DEF slack2, rest
<1>4. \A c \in Commands : status[c] \notin Terminal
  BY <1>1, <1>2 DEF Held, AwaitedStatus, StatusOf, Terminal
<1>5. MemoryTypes(status, attempts, order, owned, "SENDING", timers)
  BY <1>1 DEF MemoryTypes
<1>6. Held(status, attempts, order, owned, "SENDING", timers)
  BY <1>1, <1>2, CommandsAssumption DEF Held, AwaitedStatus, StatusOf
<1>7. Chained(rest, attempts, owned, "SENDING", caller)
  BY <1>2 DEF Chained
<1>8. Logged(status, attempts, rest, landed', walStatus, walAttempts, caller, deliveries)
  BY <1>1, <1>2, <1>4 DEF Logged, LoggedAt
<1>9. Paid(status, attempts, owned, "SENDING", rest, landed', walStatus, walAttempts,
           deliveries, slack2)
  BY <1>2, <1>3 DEF Paid, PaidAt
<1> QED
  BY <1>2, <1>5, <1>6, <1>7, <1>8, <1>9 DEF Core, slack2, rest

\* A send begins: the record on disk is the one the loop now sends.
LEMMA BeginSendInv == ASSUME IInv, BeginSend PROVE IInv'
<1>1. StatusWriteSettles("DISPATCHING")
  BY DEF BeginSend
<1>2. Core(status, attempts, order, owned, "SENDING", timers, Tail(chain), landed',
           walStatus, walAttempts, caller, deliveries, crashes + lostWrites')
  BY <1>1, DispatchedCore
<1>3. /\ up /\ up' = up /\ stopped' = stopped /\ blind' = blind /\ walStatus' = walStatus
      /\ walAttempts' = walAttempts /\ caller' = caller /\ deliveries' = deliveries
      /\ crashes' = crashes /\ lostWrites' \in 0..MaxLostWrites
  BY <1>1, SettledWrite DEF StatusWriteSettles, disk, WriteEvents
<1>4. /\ awaits' = "SENDING" /\ chain' = Tail(chain) /\ status' = status
      /\ attempts' = attempts /\ order' = order /\ owned' = owned /\ timers' = timers
  BY DEF BeginSend
<1> QED
  BY <1>2, <1>3, <1>4 DEF IInv, Attended, Expected

\* An attempt of the command in hand ends without being sent, or after.
LEMMA FailInv ==
  ASSUME NEW aw \in {"SENDING", "ARRIVED"}, NEW q, NEW ld, NEW slack,
         owned \in Commands, stopped \in BOOLEAN,
         Core(status, attempts, order, owned, aw, timers, q, ld, walStatus, walAttempts,
              caller, deliveries, slack),
         Attended(status, order, owned, timers, stopped),
         FailAttempt(owned, MaxAttempts, status, attempts, order, q)
  PROVE  /\ Core(status', attempts', order', owned', awaits', timers, chain', ld,
                 walStatus, walAttempts, caller, deliveries, slack)
         /\ Attended(status', order', owned', timers, stopped)
<1>1. /\ attempts[owned] \in Nat
      /\ status \in [Commands -> {"ABSENT"} \cup Unsettled \cup Terminal]
  BY AttemptsAssumption DEF Core, MemoryTypes
<1>2. PICK event, n : /\ AwaitWrite(owned, event, n, status, attempts, order, q)
                      /\ NextWrite(owned, event, n, attempts, aw, deliveries)
  BY <1>1, FailWrites
<1>3. Core([status EXCEPT ![owned] = StatusOf(event)], [attempts EXCEPT ![owned] = n], order,
           owned, event, timers, Append(q, Write(owned, event, n)), ld, walStatus,
           walAttempts, caller, deliveries, slack)
  BY <1>2, AwaitInv
<1>4. Attended(status', order', owned', timers, stopped)
  BY <1>1, <1>2, CommandsAssumption DEF AwaitWrite, Attended, Expected
<1> QED
  BY <1>2, <1>3, <1>4 DEF AwaitWrite

\* No adapter is known for the device (resolveAdapter): a failed attempt.
LEMMA NoRouteInv == ASSUME IInv, NoRoute PROVE IInv'
<1>1. StatusWriteSettles("DISPATCHING")
  BY DEF NoRoute
<1>2. Core(status, attempts, order, owned, "SENDING", timers, Tail(chain), landed',
           walStatus, walAttempts, caller, deliveries, crashes + lostWrites')
  BY <1>1, DispatchedCore
<1>3. /\ up /\ up' = up /\ stopped' = stopped /\ blind' = blind /\ walStatus' = walStatus
      /\ walAttempts' = walAttempts /\ caller' = caller /\ deliveries' = deliveries
      /\ crashes' = crashes /\ lostWrites' \in 0..MaxLostWrites /\ owned \in Commands
      /\ timers' = timers
  BY <1>1, SettledWrite DEF StatusWriteSettles, NoRoute, disk, WriteEvents
<1>4. /\ stopped \in BOOLEAN /\ Attended(status, order, owned, timers, stopped)
      /\ FailAttempt(owned, MaxAttempts, status, attempts, order, Tail(chain))
  BY DEF IInv, NoRoute
<1>5. /\ Core(status', attempts', order', owned', awaits', timers, chain', landed',
              walStatus, walAttempts, caller, deliveries, crashes + lostWrites')
      /\ Attended(status', order', owned', timers, stopped)
  BY <1>2, <1>3, <1>4, FailInv
<1> QED
  BY <1>3, <1>5 DEF IInv

\* The write of ACKED or FAILED settled: the record is deleted and the loop
\* takes its next turn.
LEMMA SettleInv == ASSUME IInv, Settle PROVE IInv'
<1> DEFINE slack2 == crashes + lostWrites'
           rest == Tail(chain)
           st == Forget(owned)
           att == [attempts EXCEPT ![owned] = 0]
<1>0. PICK event \in {"ACKED", "FAILED"} : StatusWriteSettles(event)
  BY DEF Settle
<1>1. /\ MemoryTypes(status, attempts, order, owned, awaits, timers)
      /\ Held(status, attempts, order, owned, awaits, timers)
      /\ Logged(status, attempts, chain, landed, walStatus, walAttempts, caller, deliveries)
      /\ Attended(status, order, owned, timers, stopped)
  BY CoreParts
<1>2. /\ owned \in Commands /\ awaits = event /\ up
      /\ DiskTypes(rest, landed', walStatus, walAttempts, caller, deliveries, slack2)
      /\ \A i \in 1..Len(rest) : Creates(rest[i], caller) /\ rest[i].cmd # owned
      /\ \A i, j \in 1..Len(rest) : rest[i].cmd = rest[j].cmd => i = j
      /\ \A c \in Commands : caller[c] = "creating" => walStatus[c] = "NONE"
      /\ \A c \in Commands : ~LandedWrite(rest, landed', c)
      /\ HeadOnDisk(rest, landed', walStatus, walAttempts)
      /\ slack2 \in Nat
      /\ \A c \in Commands :
           /\ walStatus[c] \in Terminal => deliveries[c] <= MaxAttempts + crashes + lostWrites'
           /\ walStatus[c] \in Unsettled => deliveries[c] <= walAttempts[c] + slack2
           /\ status[c] # "ABSENT" =>
                \/ deliveries[c] <= attempts[c] + slack2
                \/ deliveries[c] <= attempts[c] + slack2 + 1 /\ owned = c /\ awaits = "ACKED"
  BY <1>0, SettledWrite DEF WriteEvents
<1>3. MaxAttempts + slack2 = MaxAttempts + crashes + lostWrites'
  <2>1. crashes \in Nat /\ lostWrites' \in Nat
    BY <1>0, SettledWrite, BoundsAssumption DEF IInv, WriteEvents
  <2> QED
    BY <2>1, AttemptsAssumption
<1>4. /\ up' = up /\ stopped' = stopped /\ blind' = blind /\ walStatus' = walStatus
      /\ walAttempts' = walAttempts /\ caller' = caller /\ deliveries' = deliveries
      /\ crashes' = crashes /\ lostWrites' \in 0..MaxLostWrites /\ timers' = timers
  BY <1>0, SettledWrite DEF StatusWriteSettles, Settle, disk, WriteEvents
<1>5. NextTurn(st, att, order, rest)
  BY DEF Settle
<1> HIDE DEF slack2, rest
<1>6. /\ st[owned] = "ABSENT" /\ att[owned] = 0
      /\ \A d \in Commands \ {owned} : st[d] = status[d] /\ att[d] = attempts[d]
  BY <1>1, <1>2 DEF MemoryTypes, Forget
<1>7. MemoryTypes(st, att, order, NoCmd, "NOTHING", timers)
  BY <1>1, <1>2, AttemptsAssumption DEF MemoryTypes, Forget
<1>8. Held(st, att, order, NoCmd, "NOTHING", timers)
  <2>1. \A i \in 1..Len(order) : order[i] \in Commands
    BY <1>1, ElementOfSeq DEF MemoryTypes
  <2>2. ASSUME NEW d \in Commands
        PROVE  /\ timers[d] = 0 \/ (timers[d] = 1 /\ st[d] = "PENDING" /\ d # NoCmd)
               /\ d # NoCmd => st[d] \in {"ABSENT", "PENDING"}
               /\ st[d] = "ABSENT" => att[d] = 0
               /\ st[d] # "FAILED" => att[d] < MaxAttempts
    BY <1>1, <1>6, AttemptsAssumption, CommandsAssumption DEF Held
  <2>3. \A i \in 1..Len(order) :
          st[order[i]] = "PENDING" /\ timers[order[i]] = 0 /\ order[i] # NoCmd
    BY <1>1, <1>6, <2>1, CommandsAssumption DEF Held
  <2> QED
    BY <1>1, <2>2, <2>3, CommandsAssumption DEF Held
<1>9. Chained(rest, att, NoCmd, "NOTHING", caller)
  BY <1>2 DEF Chained
<1>10. Logged(st, att, rest, landed', walStatus, walAttempts, caller, deliveries)
  <2>1. ASSUME NEW d \in Commands, d # owned
        PROVE  LoggedAt(d, st, att, rest, landed', walStatus, walAttempts, caller, deliveries)
    <3>1. status[d] \notin Terminal
      BY <1>1, <2>1 DEF Held, Terminal
    <3> QED
      BY <1>1, <1>2, <1>6, <2>1, <3>1 DEF Logged, LoggedAt
  <2>2. LoggedAt(owned, st, att, rest, landed', walStatus, walAttempts, caller, deliveries)
    <3>1. status[owned] \in Terminal
      BY <1>1, <1>2 DEF Held, AwaitedStatus, StatusOf, Terminal
    <3> QED
      BY <1>1, <1>2, <1>6, <3>1 DEF Logged, LoggedAt, Terminal, Unsettled
  <2> QED
    BY <1>2, <2>1, <2>2 DEF Logged
<1>11. Paid(st, att, NoCmd, "NOTHING", rest, landed', walStatus, walAttempts,
            deliveries, slack2)
  <2>1. ASSUME NEW d \in Commands
        PROVE  st[d] # "ABSENT" => deliveries[d] <= att[d] + slack2
    BY <1>2, <1>6
  <2> QED
    BY <1>2, <1>3, <2>1 DEF Paid, PaidAt
<1>12. Core(st, att, order, NoCmd, "NOTHING", timers, rest, landed', walStatus,
            walAttempts, caller, deliveries, slack2)
  BY <1>2, <1>7, <1>8, <1>9, <1>10, <1>11 DEF Core
<1>13. stopped \/ Expected(st, order, NoCmd, timers)
  BY <1>1, <1>6 DEF Attended, Expected
<1> HIDE DEF st, att
<1>14. /\ Core(status', attempts', order', owned', awaits', timers, chain', landed',
               walStatus, walAttempts, caller, deliveries, slack2)
       /\ Attended(status', order', owned', timers, stopped)
  BY <1>5, <1>12, <1>13, NextTurnInv
<1> QED
  BY <1>2, <1>4, <1>14 DEF IInv, slack2

\* The write of RETRY_SCHEDULED settled: the command passes to its timer.
LEMMA ScheduleRetryInv == ASSUME IInv, ScheduleRetry PROVE IInv'
<1> DEFINE slack2 == crashes + lostWrites'
           rest == Tail(chain)
<1>0. StatusWriteSettles("RETRY_SCHEDULED")
  BY DEF ScheduleRetry
<1>1. /\ MemoryTypes(status, attempts, order, owned, awaits, timers)
      /\ Held(status, attempts, order, owned, awaits, timers)
      /\ Logged(status, attempts, chain, landed, walStatus, walAttempts, caller, deliveries)
      /\ Attended(status, order, owned, timers, stopped) /\ stopped \in BOOLEAN
  BY CoreParts DEF IInv
<1>2. /\ owned \in Commands /\ awaits = "RETRY_SCHEDULED" /\ up
      /\ DiskTypes(rest, landed', walStatus, walAttempts, caller, deliveries, slack2)
      /\ \A i \in 1..Len(rest) : Creates(rest[i], caller) /\ rest[i].cmd # owned
      /\ \A i, j \in 1..Len(rest) : rest[i].cmd = rest[j].cmd => i = j
      /\ \A c \in Commands : caller[c] = "creating" => walStatus[c] = "NONE"
      /\ \A c \in Commands : ~LandedWrite(rest, landed', c)
      /\ HeadOnDisk(rest, landed', walStatus, walAttempts)
      /\ slack2 \in Nat
      /\ \A c \in Commands :
           /\ walStatus[c] \in Terminal => deliveries[c] <= MaxAttempts + crashes + lostWrites'
           /\ walStatus[c] \in Unsettled => deliveries[c] <= walAttempts[c] + slack2
           /\ status[c] # "ABSENT" =>
                \/ deliveries[c] <= attempts[c] + slack2
                \/ deliveries[c] <= attempts[c] + slack2 + 1 /\ owned = c /\ awaits = "ACKED"
  BY <1>0, SettledWrite DEF WriteEvents
<1>3. MaxAttempts + slack2 = MaxAttempts + crashes + lostWrites'
  <2>1. crashes \in Nat /\ lostWrites' \in Nat
    BY <1>0, SettledWrite, BoundsAssumption DEF IInv, WriteEvents
  <2> QED
    BY <2>1, AttemptsAssumption
<1>4. /\ up' = up /\ stopped' = stopped /\ blind' = blind /\ walStatus' = walStatus
      /\ walAttempts' = walAttempts /\ caller' = caller /\ deliveries' = deliveries
      /\ crashes' = crashes /\ lostWrites' \in 0..MaxLostWrites
  BY <1>0, SettledWrite DEF StatusWriteSettles, disk, WriteEvents
<1>5. /\ NextTurn(status, attempts, order, rest)
      /\ timers' = IF stopped THEN timers ELSE [timers EXCEPT ![owned] = @ + 1]
  BY DEF ScheduleRetry, OrderAfterFailure
<1> HIDE DEF slack2, rest
<1>6. status[owned] = "PENDING" /\ timers[owned] = 0 /\ \A i \in 1..Len(order) : order[i] # owned
  BY <1>1, <1>2 DEF Held, AwaitedStatus, StatusOf
<1>7. /\ timers' \in [Commands -> Nat]
      /\ \A d \in Commands \ {owned} : timers'[d] = timers[d]
      /\ timers'[owned] = 0 \/ timers'[owned] = 1
      /\ ~stopped => timers'[owned] = 1
  BY <1>1, <1>2, <1>5, <1>6 DEF MemoryTypes
<1>8. MemoryTypes(status, attempts, order, NoCmd, "NOTHING", timers')
  BY <1>1, <1>7 DEF MemoryTypes
<1>9. Held(status, attempts, order, NoCmd, "NOTHING", timers')
  <2>1. \A i \in 1..Len(order) : order[i] \in Commands
    BY <1>1, ElementOfSeq DEF MemoryTypes
  <2>2. ASSUME NEW d \in Commands
        PROVE  /\ timers'[d] = 0 \/ (timers'[d] = 1 /\ status[d] = "PENDING" /\ d # NoCmd)
               /\ d # NoCmd => status[d] \in {"ABSENT", "PENDING"}
               /\ status[d] = "ABSENT" => attempts[d] = 0
               /\ status[d] # "FAILED" => attempts[d] < MaxAttempts
    BY <1>1, <1>6, <1>7, CommandsAssumption DEF Held
  <2>3. \A i \in 1..Len(order) :
          status[order[i]] = "PENDING" /\ timers'[order[i]] = 0 /\ order[i] # NoCmd
    BY <1>1, <1>6, <1>7, <2>1, CommandsAssumption DEF Held
  <2> QED
    BY <1>1, <2>2, <2>3, CommandsAssumption DEF Held
<1>10. Chained(rest, attempts, NoCmd, "NOTHING", caller)
  BY <1>2 DEF Chained
<1>11. Logged(status, attempts, rest, landed', walStatus, walAttempts, caller, deliveries)
  <2>1. \A d \in Commands : status[d] \notin Terminal
    BY <1>1, <1>6 DEF Held, Terminal
  <2> QED
    BY <1>1, <1>2, <2>1 DEF Logged, LoggedAt
<1>12. Paid(status, attempts, NoCmd, "NOTHING", rest, landed', walStatus, walAttempts,
            deliveries, slack2)
  BY <1>2, <1>3 DEF Paid, PaidAt
<1>13. Core(status, attempts, order, NoCmd, "NOTHING", timers', rest, landed', walStatus,
            walAttempts, caller, deliveries, slack2)
  BY <1>2, <1>8, <1>9, <1>10, <1>11, <1>12 DEF Core
<1>14. stopped \/ Expected(status, order, NoCmd, timers')
  BY <1>1, <1>7 DEF Attended, Expected
<1>15. /\ Core(status', attempts', order', owned', awaits', timers', chain', landed',
               walStatus, walAttempts, caller, deliveries, slack2)
       /\ Attended(status', order', owned', timers', stopped)
  BY <1>5, <1>13, <1>14, NextTurnInv
<1> QED
  BY <1>2, <1>4, <1>15 DEF IInv, slack2

\* The transport takes the command: one more delivery, in flight.
LEMMA TransportTakesInv == ASSUME IInv, TransportTakes PROVE IInv'
<1> DEFINE slack == crashes + lostWrites
<1>1. /\ MemoryTypes(status, attempts, order, owned, awaits, timers)
      /\ DiskTypes(chain, landed, walStatus, walAttempts, caller, deliveries, slack)
      /\ Held(status, attempts, order, owned, awaits, timers)
      /\ Chained(chain, attempts, owned, awaits, caller)
      /\ Logged(status, attempts, chain, landed, walStatus, walAttempts, caller, deliveries)
      /\ Paid(status, attempts, owned, awaits, chain, landed, walStatus, walAttempts,
              deliveries, slack)
      /\ Attended(status, order, owned, timers, stopped)
  BY CoreParts
<1>2. /\ up /\ up' = up /\ stopped' = stopped /\ blind' = blind /\ status' = status
      /\ attempts' = attempts /\ order' = order /\ owned' = owned /\ timers' = timers
      /\ chain' = chain /\ landed' = landed /\ walStatus' = walStatus
      /\ walAttempts' = walAttempts /\ caller' = caller /\ crashes' = crashes
      /\ lostWrites' = lostWrites
      /\ awaits = "SENDING" /\ awaits' = "ARRIVED"
      /\ deliveries' = [deliveries EXCEPT ![owned] = @ + 1]
  BY DEF TransportTakes, disk
<1>3. owned \in Commands /\ status[owned] = "DISPATCHING"
  BY <1>1, <1>2 DEF Held, MemoryTypes, AwaitedStatus
<1>4. /\ deliveries' \in [Commands -> Nat]
      /\ deliveries[owned] \in Nat /\ deliveries'[owned] = deliveries[owned] + 1
      /\ \A c \in Commands \ {owned} : deliveries'[c] = deliveries[c]
  BY <1>1, <1>2, <1>3 DEF DiskTypes
<1>5. /\ walStatus[owned] \in Unsettled /\ slack \in Nat /\ walAttempts[owned] \in Nat
      /\ attempts[owned] \in Nat /\ walStatus[owned] \notin Terminal
      /\ walStatus[owned] # "NONE" /\ caller[owned] # "creating"
      /\ walStatus[owned] # "ACKED"
  BY <1>1, <1>3 DEF Logged, LoggedAt, Unsettled, Terminal, DiskTypes, MemoryTypes
<1>6. ~LandedWrite(chain, landed, owned)
  <2> SUFFICES ASSUME LandedWrite(chain, landed, owned) PROVE FALSE
    OBVIOUS
  <2>1. /\ chain # <<>> /\ Head(chain) = chain[1] /\ Head(chain) \in Writes
        /\ Creates(Head(chain), caller) \/ Marks(Head(chain), attempts, owned, awaits)
        /\ Head(chain).cmd = owned
    BY PopChain DEF LandedWrite
  <2> QED
    BY <1>2, <1>5, <2>1 DEF Creates, Marks, Writes, WriteEvents
<1> HIDE DEF slack
<1>7. MemoryTypes(status, attempts, order, owned, "ARRIVED", timers)
  BY <1>1 DEF MemoryTypes
<1>8. DiskTypes(chain, landed, walStatus, walAttempts, caller, deliveries', slack)
  BY <1>1, <1>4 DEF DiskTypes
<1>9. Held(status, attempts, order, owned, "ARRIVED", timers)
  BY <1>1, <1>3, CommandsAssumption DEF Held, AwaitedStatus
<1>10. Chained(chain, attempts, owned, "ARRIVED", caller)
  <2>1. \A i \in 1..Len(chain) : Creates(chain[i], caller)
    <3>1. \A i \in 1..Len(chain) : chain[i] \in Writes
      BY <1>1, ElementOfSeq DEF DiskTypes
    <3> QED
      BY <1>1, <1>2, <3>1 DEF Chained, Marks, Writes, WriteEvents
  <2> QED
    BY <1>1, <2>1 DEF Chained
<1>11. Logged(status, attempts, chain, landed, walStatus, walAttempts, caller, deliveries')
  <2>1. ASSUME NEW c \in Commands, c # owned
        PROVE  LoggedAt(c, status, attempts, chain, landed, walStatus, walAttempts, caller,
                        deliveries')
    BY <1>1, <1>4, <2>1 DEF Logged, LoggedAt
  <2>2. LoggedAt(owned, status, attempts, chain, landed, walStatus, walAttempts, caller,
                 deliveries')
    <3>1. LoggedAt(owned, status, attempts, chain, landed, walStatus, walAttempts, caller,
                   deliveries)
      BY <1>1, <1>3 DEF Logged
    <3> QED
      BY <1>3, <1>4, <1>5, <3>1 DEF LoggedAt
  <2> QED
    BY <1>1, <2>1, <2>2 DEF Logged
<1>12. Paid(status, attempts, owned, "ARRIVED", chain, landed, walStatus, walAttempts,
            deliveries', slack)
  <2>1. ASSUME NEW c \in Commands, c # owned
        PROVE  PaidAt(c, status, attempts, owned, "ARRIVED", chain, landed, walStatus,
                      walAttempts, deliveries', slack)
    BY <1>1, <1>4, <2>1 DEF Paid, PaidAt
  <2>2. PaidAt(owned, status, attempts, owned, "ARRIVED", chain, landed, walStatus,
               walAttempts, deliveries', slack)
    <3>1. PaidAt(owned, status, attempts, owned, "SENDING", chain, landed, walStatus,
                 walAttempts, deliveries, slack)
      BY <1>1, <1>2, <1>3 DEF Paid
    <3> QED
      BY <1>3, <1>4, <1>5, <1>6, <3>1 DEF PaidAt
  <2> QED
    BY <2>1, <2>2 DEF Paid
<1>13. Core(status, attempts, order, owned, "ARRIVED", timers, chain, landed, walStatus,
            walAttempts, caller, deliveries', slack)
  BY <1>7, <1>8, <1>9, <1>10, <1>11, <1>12 DEF Core
<1> QED
  BY <1>1, <1>2, <1>13 DEF IInv, slack

\* The transport confirmed: the loop awaits the ACKED write.
LEMMA SendSucceedsInv == ASSUME IInv, SendSucceeds PROVE IInv'
<1> DEFINE slack == crashes + lostWrites
<1>1. /\ up /\ up' = up /\ stopped' = stopped /\ blind' = blind
      /\ timers' = timers /\ landed' = landed /\ walStatus' = walStatus
      /\ walAttempts' = walAttempts /\ caller' = caller /\ crashes' = crashes
      /\ lostWrites' = lostWrites /\ deliveries' = deliveries
      /\ awaits = "ARRIVED"
      /\ AwaitWrite(owned, "ACKED", attempts[owned], status, attempts, order, chain)
  BY DEF SendSucceeds, disk, ghosts
<1>2. /\ owned \in Commands /\ attempts[owned] \in Nat
      /\ status \in [Commands -> {"ABSENT"} \cup Unsettled \cup Terminal]
      /\ deliveries[owned] > 0
  <2>1. owned \in Commands
    BY <1>1, CoreParts DEF Held, MemoryTypes
  <2> QED
    BY <1>1, <2>1, CoreParts, AttemptsAssumption DEF MemoryTypes, Paid, PaidAt
<1>3. NextWrite(owned, "ACKED", attempts[owned], attempts, awaits, deliveries)
  BY <1>1, <1>2 DEF NextWrite, WriteEvents
<1>4. Core(status, attempts, order, owned, awaits, timers, chain, landed, walStatus,
           walAttempts, caller, deliveries, slack)
  BY DEF IInv
<1> HIDE DEF slack
<1>5. Core([status EXCEPT ![owned] = StatusOf("ACKED")],
           [attempts EXCEPT ![owned] = attempts[owned]], order, owned, "ACKED", timers,
           Append(chain, Write(owned, "ACKED", attempts[owned])), landed, walStatus,
           walAttempts, caller, deliveries, slack)
  BY <1>1, <1>2, <1>3, <1>4, AwaitInv
<1>6. Attended(status', order', owned', timers, stopped)
  BY <1>1, <1>2, CoreParts, CommandsAssumption DEF AwaitWrite, Attended, Expected, StatusOf
<1> QED
  BY <1>1, <1>5, <1>6 DEF IInv, AwaitWrite, slack

\* The transport reported an error: a failed attempt.
LEMMA SendFailsInv == ASSUME IInv, SendFails PROVE IInv'
<1> DEFINE slack == crashes + lostWrites
<1>1. /\ up /\ up' = up /\ stopped' = stopped /\ blind' = blind
      /\ timers' = timers /\ landed' = landed /\ walStatus' = walStatus
      /\ walAttempts' = walAttempts /\ caller' = caller /\ crashes' = crashes
      /\ lostWrites' = lostWrites /\ deliveries' = deliveries
      /\ awaits \in {"SENDING", "ARRIVED"}
      /\ FailAttempt(owned, MaxAttempts, status, attempts, order, chain)
  BY DEF SendFails, disk, ghosts
<1>2. /\ owned \in Commands /\ stopped \in BOOLEAN
      /\ Attended(status, order, owned, timers, stopped)
  BY <1>1, CoreParts DEF Held, MemoryTypes, IInv
<1>3. Core(status, attempts, order, owned, awaits, timers, chain, landed, walStatus,
           walAttempts, caller, deliveries, slack)
  BY DEF IInv
<1> HIDE DEF slack
<1>4. /\ Core(status', attempts', order', owned', awaits', timers, chain', landed,
              walStatus, walAttempts, caller, deliveries, slack)
      /\ Attended(status', order', owned', timers, stopped)
  BY <1>1, <1>2, <1>3, FailInv
<1> QED
  BY <1>1, <1>4 DEF IInv, slack

\* A backoff timer fires: its command returns to the pending order.
LEMMA TimerFiresInv == ASSUME IInv, NEW c \in Commands, TimerFires(c) PROVE IInv'
<1> DEFINE slack == crashes + lostWrites
           ord == Append(order, c)
<1>1. /\ MemoryTypes(status, attempts, order, owned, awaits, timers)
      /\ Held(status, attempts, order, owned, awaits, timers)
      /\ Attended(status, order, owned, timers, stopped)
      /\ Core(status, attempts, order, owned, awaits, timers, chain, landed,
              walStatus, walAttempts, caller, deliveries, slack)
  BY CoreParts DEF IInv
<1>2. /\ up /\ up' = up /\ stopped' = stopped /\ blind' = blind
      /\ landed' = landed /\ walStatus' = walStatus
      /\ walAttempts' = walAttempts /\ caller' = caller /\ crashes' = crashes
      /\ lostWrites' = lostWrites /\ deliveries' = deliveries
      /\ timers[c] > 0 /\ timers' = [timers EXCEPT ![c] = @ - 1]
  BY DEF TimerFires, disk, ghosts
<1> HIDE DEF slack
<1>3. timers[c] = 1 /\ status[c] = "PENDING" /\ c # owned
  BY <1>1, <1>2 DEF Held
<1>4. Ready(status, attempts, ord, chain)
  BY <1>3 DEF TimerFires, Requeue
<1>5. /\ timers' \in [Commands -> Nat] /\ timers'[c] = 0
      /\ \A d \in Commands \ {c} : timers'[d] = timers[d]
  BY <1>1, <1>2, <1>3 DEF MemoryTypes
<1>6. /\ Len(order) \in Nat /\ Len(ord) = Len(order) + 1 /\ ord \in Seq(Commands)
      /\ \A i \in 1..Len(order) : ord[i] = order[i] /\ order[i] \in Commands
      /\ ord[Len(order) + 1] = c
  BY <1>1, AppendFacts, ElementOfSeq DEF MemoryTypes
<1>7. \A i \in 1..Len(order) : order[i] # c
  BY <1>1, <1>3 DEF Held
<1>8. \A i \in 1..Len(ord) : i \in 1..Len(order) \/ i = Len(order) + 1
  BY <1>6, SMT
<1>9. Held(status, attempts, ord, owned, awaits, timers')
  <2>1. \A i, j \in 1..Len(ord) : ord[i] = ord[j] => i = j
    BY <1>1, <1>6, <1>7, <1>8 DEF Held
  <2>2. \A i \in 1..Len(ord) :
          status[ord[i]] = "PENDING" /\ timers'[ord[i]] = 0 /\ ord[i] # owned
    BY <1>1, <1>3, <1>5, <1>6, <1>7, <1>8 DEF Held
  <2>3. ASSUME NEW d \in Commands
        PROVE  /\ timers'[d] = 0 \/ (timers'[d] = 1 /\ status[d] = "PENDING" /\ d # owned)
               /\ d # owned => status[d] \in {"ABSENT", "PENDING"}
               /\ status[d] = "ABSENT" => attempts[d] = 0
               /\ status[d] # "FAILED" => attempts[d] < MaxAttempts
    BY <1>1, <1>5 DEF Held
  <2> QED
    BY <1>1, <2>1, <2>2, <2>3 DEF Held
<1>10. MemoryTypes(status, attempts, ord, owned, awaits, timers')
  BY <1>1, <1>5, <1>6 DEF MemoryTypes
<1>11. Core(status, attempts, ord, owned, awaits, timers', chain, landed, walStatus,
            walAttempts, caller, deliveries, slack)
  BY <1>1, <1>9, <1>10 DEF Core
<1>12. stopped \/ Expected(status, ord, owned, timers')
  <2>1. Len(order) + 1 \in 1..Len(ord)
    BY <1>6
  <2> QED
    BY <1>1, <1>5, <1>6, <2>1 DEF Attended, Expected
<1> HIDE DEF ord
<1>13. /\ Core(status', attempts', order', owned', awaits', timers', chain', landed,
               walStatus, walAttempts, caller, deliveries, slack)
       /\ Attended(status', order', owned', timers', stopped)
  BY <1>4, <1>11, <1>12, ReadyInv
<1> QED
  BY <1>2, <1>13 DEF IInv, slack

\* dispatcher.stop() drops the timers; the records keep their places.
LEMMA StopInv == ASSUME IInv, Stop PROVE IInv'
<1> DEFINE slack == crashes + lostWrites
<1>1. Core(status, attempts, order, owned, awaits, timers, chain, landed, walStatus,
           walAttempts, caller, deliveries, slack)
  BY DEF IInv
<1> HIDE DEF slack
<1>2. /\ up /\ up' = up /\ stopped' = TRUE /\ blind' = blind /\ status' = status
      /\ attempts' = attempts /\ order' = order /\ owned' = owned /\ awaits' = awaits
      /\ chain' = chain /\ landed' = landed /\ walStatus' = walStatus
      /\ walAttempts' = walAttempts /\ caller' = caller /\ deliveries' = deliveries
      /\ crashes' = crashes /\ lostWrites' = lostWrites
      /\ timers' = [c \in Commands |-> 0]
  BY DEF Stop, disk, ghosts
<1>3. MemoryTypes(status, attempts, order, owned, awaits, timers')
  BY <1>1, <1>2 DEF Core, MemoryTypes
<1>4. Held(status, attempts, order, owned, awaits, timers')
  <2>1. \A i \in 1..Len(order) : timers'[order[i]] = 0
    BY <1>1, <1>2, ElementOfSeq DEF Core, MemoryTypes
  <2> QED
    BY <1>1, <1>2, <2>1 DEF Core, Held
<1>5. Core(status, attempts, order, owned, awaits, timers', chain, landed, walStatus,
           walAttempts, caller, deliveries, slack)
  BY <1>1, <1>3, <1>4 DEF Core
<1> QED
  BY <1>2, <1>5 DEF IInv, Attended, slack

\* The end of the process empties the memory and adds one to what deliveries
\* may exceed the counted attempts by.
LEMMA ProcessEndsInv ==
  ASSUME IInv, up, crashes < MaxCrashes, ProcessEnds
  PROVE  IInv'
<1> DEFINE slack == crashes + lostWrites
<1>1. /\ DiskTypes(chain, landed, walStatus, walAttempts, caller, deliveries, slack)
      /\ Logged(status, attempts, chain, landed, walStatus, walAttempts, caller, deliveries)
      /\ Paid(status, attempts, owned, awaits, chain, landed, walStatus, walAttempts,
              deliveries, slack)
  BY CoreParts
<1>2. crashes \in 0..MaxCrashes /\ lostWrites \in 0..MaxLostWrites /\ MaxCrashes \in Nat
  BY BoundsAssumption DEF IInv
<1>3. crashes' = crashes + 1 /\ lostWrites' = lostWrites
  BY DEF ProcessEnds
<1>4. crashes' \in 0..MaxCrashes /\ slack \in Nat /\ slack' = slack + 1 /\ slack' \in Nat
  BY <1>2, <1>3, BoundsAssumption
<1>5. /\ up' = FALSE /\ stopped' = FALSE /\ blind' = FALSE /\ order' = <<>>
      /\ owned' = NoCmd /\ awaits' = "NOTHING" /\ chain' = <<>> /\ landed' = FALSE
      /\ status' = [c \in Commands |-> "ABSENT"]
      /\ attempts' = [c \in Commands |-> 0]
      /\ timers' = [c \in Commands |-> 0]
      /\ caller' = [c \in Commands |->
                      IF caller[c] = "creating" THEN "unknown" ELSE caller[c]]
      /\ walStatus' = walStatus /\ walAttempts' = walAttempts /\ deliveries' = deliveries
  BY DEF ProcessEnds, disk
<1> HIDE DEF slack
<1>6. MemoryTypes(status', attempts', order', owned', awaits', timers')
  BY <1>5, AttemptsAssumption, EmptySeq DEF MemoryTypes
<1>7. DiskTypes(chain', landed', walStatus', walAttempts', caller', deliveries', slack')
  <2>1. <<>> \in Seq(Writes)
    BY EmptySeq
  <2>2. caller' \in [Commands -> {"unborn", "creating", "accepted", "refused", "unknown"}]
    BY <1>1, <1>5 DEF DiskTypes
  <2>3. landed' \in BOOLEAN
    BY <1>5
  <2> QED
    BY <1>1, <1>4, <1>5, <2>1, <2>2, <2>3 DEF DiskTypes
<1>8. Len(<<>>) = 0 /\ 1..0 = {}
  BY EmptySeq
<1>9. Held(status', attempts', order', owned', awaits', timers')
  BY <1>5, <1>8, CommandsAssumption, AttemptsAssumption DEF Held
<1>10. Chained(chain', attempts', owned', awaits', caller')
  BY <1>5, <1>8 DEF Chained
<1>11. \A c \in Commands : /\ caller'[c] # "creating"
                           /\ caller'[c] \in {"unborn", "accepted", "refused"}
                                => caller'[c] = caller[c]
  BY <1>5
<1>12. Logged(status', attempts', chain', landed', walStatus', walAttempts', caller',
              deliveries')
  <2>1. HeadOnDisk(chain', landed', walStatus', walAttempts')
    BY <1>5 DEF HeadOnDisk
  <2>2. ASSUME NEW c \in Commands
        PROVE  LoggedAt(c, status', attempts', chain', landed', walStatus', walAttempts',
                        caller', deliveries')
    BY <1>1, <1>5, <1>11 DEF Logged, LoggedAt, Unsettled, Terminal
  <2> QED
    BY <2>1, <2>2 DEF Logged
<1>13. Paid(status', attempts', owned', awaits', chain', landed', walStatus', walAttempts',
            deliveries', slack')
  <2> SUFFICES ASSUME NEW c \in Commands
               PROVE  PaidAt(c, status', attempts', owned', awaits', chain', landed',
                             walStatus', walAttempts', deliveries', slack')
    BY DEF Paid
  <2>1. PaidAt(c, status, attempts, owned, awaits, chain, landed, walStatus, walAttempts,
               deliveries, slack)
    BY <1>1 DEF Paid
  <2>2. deliveries[c] \in Nat /\ walAttempts[c] \in Nat /\ c # NoCmd
    BY <1>1, CommandsAssumption, AttemptsAssumption DEF DiskTypes
  <2> QED
    BY <1>4, <1>5, <2>1, <2>2, AttemptsAssumption DEF PaidAt
<1>14. Core(status', attempts', order', owned', awaits', timers', chain', landed',
            walStatus', walAttempts', caller', deliveries', slack')
  BY <1>6, <1>7, <1>9, <1>10, <1>12, <1>13 DEF Core
<1>15. Attended(status', order', owned', timers', stopped')
  BY <1>5, <1>8 DEF Attended, Expected
<1>16. Down'
  BY <1>5, <1>11 DEF Down
<1> QED
  BY <1>2, <1>3, <1>4, <1>5, <1>14, <1>15, <1>16 DEF IInv, slack

\* The process is killed.
LEMMA CrashInv == ASSUME IInv, Crash PROVE IInv'
BY ProcessEndsInv DEF Crash

\* A stopped process exits.
LEMMA ExitInv == ASSUME IInv, Exit PROVE IInv'
BY ProcessEndsInv DEF Exit

\* A listing of a set is a sequence over it in which every member occurs once.
LEMMA ListingFacts ==
  ASSUME NEW S \in SUBSET Commands, NEW s \in Listings(S)
  PROVE  /\ s \in Seq(Commands) /\ Len(s) = Cardinality(S)
         /\ \A i \in 1..Len(s) : s[i] \in S
         /\ \A i, j \in 1..Len(s) : s[i] = s[j] => i = j
         /\ \A c \in S : \E i \in 1..Len(s) : s[i] = c
<1>1. Cardinality(S) \in Nat
  BY CommandsAssumption, FS_Subset, FS_CardinalityType
<1>2. s \in [1..Cardinality(S) -> S]
  BY DEF Listings
<1>3. s \in Seq(S)
  BY <1>1, <1>2, IsASeq
<1>4. s \in Seq(Commands) /\ Len(s) = Cardinality(S)
  BY <1>1, <1>2, <1>3, SeqDef
<1> QED
  BY <1>2, <1>4 DEF Listings

\* Recovery fills the memory from the log and starts the drain loop.
LEMMA RestartInv == ASSUME IInv, Restart PROVE IInv'
<1> DEFINE slack == crashes + lostWrites
           pending == {c \in Commands : Loads(c)}
           st == [c \in Commands |-> IF c \in pending THEN "PENDING" ELSE "ABSENT"]
           att == [c \in Commands |-> IF c \in pending THEN RecoveredAttempts(c) ELSE 0]
<1>1. /\ DiskTypes(chain, landed, walStatus, walAttempts, caller, deliveries, slack)
      /\ Logged(status, attempts, chain, landed, walStatus, walAttempts, caller, deliveries)
      /\ Paid(status, attempts, owned, awaits, chain, landed, walStatus, walAttempts,
              deliveries, slack)
  BY CoreParts
<1>2. Down
  BY DEF IInv, Restart
<1>3. /\ up' = TRUE /\ stopped' = FALSE /\ blind' = blind /\ timers' = timers
      /\ landed' = landed /\ walStatus' = walStatus /\ walAttempts' = walAttempts
      /\ caller' = caller /\ deliveries' = deliveries /\ crashes' = crashes
      /\ lostWrites' = lostWrites
  BY <1>2 DEF Restart, disk, ghosts, Down
<1>4. PICK ord \in Listings(pending) : Drain(st, att, ord, <<>>)
  BY DEF Restart
<1>5. /\ ord \in Seq(Commands)
      /\ \A i \in 1..Len(ord) : ord[i] \in pending
      /\ \A i, j \in 1..Len(ord) : ord[i] = ord[j] => i = j
      /\ \A c \in pending : \E i \in 1..Len(ord) : ord[i] = c
  BY ListingFacts
<1> HIDE DEF slack
<1>6. \A c \in Commands :
        /\ c \in pending <=> walStatus[c] \in Unsettled
        /\ c \in pending => st[c] = "PENDING" /\ att[c] = walAttempts[c]
        /\ c \notin pending => st[c] = "ABSENT" /\ att[c] = 0
        /\ timers[c] = 0 /\ caller[c] # "creating"
  BY <1>2 DEF Loads, RecoveredAttempts, Down
<1>7. \A c \in Commands : walAttempts[c] \in 0..MaxAttempts
  BY <1>1 DEF DiskTypes
<1>8. st \in [Commands -> {"ABSENT", "PENDING"}] /\ att \in [Commands -> 0..MaxAttempts]
  BY <1>7, AttemptsAssumption DEF RecoveredAttempts
<1> HIDE DEF st, att, pending
<1>9. MemoryTypes(st, att, ord, NoCmd, "NOTHING", timers)
  BY <1>2, <1>5, <1>8 DEF MemoryTypes, Unsettled, Down
<1>10. Held(st, att, ord, NoCmd, "NOTHING", timers)
  <2>1. \A i \in 1..Len(ord) : ord[i] \in Commands
    BY <1>5, ElementOfSeq
  <2>2. \A i \in 1..Len(ord) :
          st[ord[i]] = "PENDING" /\ timers[ord[i]] = 0 /\ ord[i] # NoCmd
    BY <1>5, <1>6, <2>1, CommandsAssumption
  <2>3. ASSUME NEW c \in Commands
        PROVE  /\ timers[c] = 0
               /\ st[c] \in {"ABSENT", "PENDING"}
               /\ st[c] = "ABSENT" => att[c] = 0
               /\ att[c] < MaxAttempts
    BY <1>1, <1>6, AttemptsAssumption DEF Logged, LoggedAt
  <2> QED
    BY <1>5, <2>2, <2>3, CommandsAssumption DEF Held
<1>11. /\ chain = <<>> /\ landed = FALSE /\ owned = NoCmd /\ NoCmd \notin Commands
       /\ Len(chain) = 0
  BY <1>2, CommandsAssumption, EmptySeq DEF Down
<1>12. Chained(chain, att, NoCmd, "NOTHING", caller)
  BY <1>11 DEF Chained
<1>13. Logged(st, att, chain, landed, walStatus, walAttempts, caller, deliveries)
  <2>1. ASSUME NEW c \in Commands
        PROVE  LoggedAt(c, st, att, chain, landed, walStatus, walAttempts, caller, deliveries)
    <3>1. LoggedAt(c, status, attempts, chain, landed, walStatus, walAttempts, caller,
                   deliveries)
      BY <1>1 DEF Logged
    <3> QED
      BY <1>6, <1>7, <3>1 DEF LoggedAt, Unsettled, Terminal
  <2> QED
    BY <1>11, <2>1 DEF Logged, HeadOnDisk
<1>14. Paid(st, att, NoCmd, "NOTHING", chain, landed, walStatus, walAttempts, deliveries, slack)
  <2> SUFFICES ASSUME NEW c \in Commands
               PROVE  PaidAt(c, st, att, NoCmd, "NOTHING", chain, landed, walStatus,
                             walAttempts, deliveries, slack)
    BY DEF Paid
  <2>1. PaidAt(c, status, attempts, owned, awaits, chain, landed, walStatus, walAttempts,
               deliveries, slack)
    BY <1>1 DEF Paid
  <2> QED
    BY <1>6, <1>11, <2>1 DEF PaidAt
<1>15. Core(st, att, ord, NoCmd, "NOTHING", timers, chain, landed, walStatus, walAttempts,
            caller, deliveries, slack)
  BY <1>1, <1>9, <1>10, <1>12, <1>13, <1>14 DEF Core
<1>16. Expected(st, ord, NoCmd, timers)
  BY <1>5, <1>6 DEF Expected
<1>17. /\ Core(status', attempts', order', owned', awaits', timers, chain', landed,
               walStatus, walAttempts, caller, deliveries, slack)
       /\ Attended(status', order', owned', timers, FALSE)
  BY <1>4, <1>11, <1>15, <1>16, DrainInv
<1>18. blind \in BOOLEAN /\ crashes \in 0..MaxCrashes /\ lostWrites \in 0..MaxLostWrites
  BY DEF IInv
<1> QED
  BY <1>3, <1>17, <1>18 DEF IInv, slack

\* A start that could not read the log holds nothing.
LEMMA RestartBlindInv == ASSUME IInv, RestartBlind PROVE IInv'
<1>1. /\ up' = TRUE /\ blind' = TRUE /\ stopped' = stopped /\ status' = status
      /\ attempts' = attempts /\ order' = order /\ owned' = owned /\ awaits' = awaits
      /\ timers' = timers /\ chain' = chain /\ landed' = landed
      /\ walStatus' = walStatus /\ walAttempts' = walAttempts /\ caller' = caller
      /\ deliveries' = deliveries /\ crashes' = crashes /\ lostWrites' = lostWrites
  BY DEF RestartBlind, disk, ghosts
<1> QED
  BY <1>1 DEF IInv

\* Every step of the specification preserves the invariant.
LEMMA NextInv == ASSUME IInv, [Next]_vars PROVE IInv'
<1>1. CASE UNCHANGED vars
  BY <1>1 DEF vars, memory, disk, ghosts, IInv, Down
<1>2. ASSUME NEW c \in Commands, Enqueue(c) PROVE IInv'
  BY <1>2, EnqueueInv
<1>3. ASSUME NEW c \in Commands, TimerFires(c) PROVE IInv'
  BY <1>3, TimerFiresInv
<1>4. CASE WriteLands
  BY <1>4, WriteLandsInv
<1>5. CASE CreatedSettles
  BY <1>5, CreatedSettlesInv
<1>6. CASE BeginSend
  BY <1>6, BeginSendInv
<1>7. CASE NoRoute
  BY <1>7, NoRouteInv
<1>8. CASE Settle
  BY <1>8, SettleInv
<1>9. CASE ScheduleRetry
  BY <1>9, ScheduleRetryInv
<1>10. CASE TransportTakes
  BY <1>10, TransportTakesInv
<1>11. CASE SendSucceeds
  BY <1>11, SendSucceedsInv
<1>12. CASE SendFails
  BY <1>12, SendFailsInv
<1>13. CASE Stop
  BY <1>13, StopInv
<1>14. CASE Crash
  BY <1>14, CrashInv
<1>15. CASE Exit
  BY <1>15, ExitInv
<1>16. CASE Restart
  BY <1>16, RestartInv
<1>17. CASE RestartBlind
  BY <1>17, RestartBlindInv
<1> QED
  BY <1>1, <1>2, <1>3, <1>4, <1>5, <1>6, <1>7, <1>8, <1>9, <1>10, <1>11, <1>12, <1>13,
     <1>14, <1>15, <1>16, <1>17 DEF Next

-----------------------------------------------------------------------------
(* The theorems about states: the inductive invariant implies each.        *)

\* The invariant holds in every reachable state: memory, write chain, disk,
\* caller and delivery count agree at every await of queue and dispatcher.
THEOREM Invariance == Spec => []IInv
<1>1. Init => IInv
  BY InitInv
<1>2. IInv /\ [Next]_vars => IInv'
  BY NextInv
<1> QED
  BY <1>1, <1>2, PTL DEF Spec

\* The invariant implies type correctness.
LEMMA InvType == IInv => TypeOK
BY BoundsAssumption DEF IInv, Core, MemoryTypes, DiskTypes, TypeOK

\* Every variable stays in its type; attempts never exceed maxAttempts.
THEOREM TypeCorrect == Spec => []TypeOK
BY Invariance, InvType, PTL

\* The invariant implies that a live record has exactly one holder.
LEMMA InvCustody == IInv => Custody
<1> SUFFICES ASSUME IInv PROVE Custody
  OBVIOUS
<1>1. /\ MemoryTypes(status, attempts, order, owned, awaits, timers)
      /\ Held(status, attempts, order, owned, awaits, timers)
      /\ Attended(status, order, owned, timers, stopped)
  BY CoreParts
<1>2. \A i, j \in 1..Len(order) : order[i] = order[j] => i = j
  BY <1>1 DEF Held
<1>3. ASSUME NEW c \in Commands
      PROVE  /\ timers[c] <= 1
             /\ InOrder(c) => status[c] = "PENDING" /\ timers[c] = 0 /\ owned # c
             /\ timers[c] > 0 => status[c] = "PENDING" /\ owned # c
  BY <1>1 DEF Held, InOrder
<1>4. ASSUME NEW c \in Commands, owned = c PROVE status[c] # "ABSENT"
  BY <1>1, <1>4 DEF Held, MemoryTypes, AwaitedStatus, StatusOf, WriteEvents
<1>5. ASSUME NEW c \in Commands, status[c] # "ABSENT", ~stopped, owned # c
      PROVE  InOrder(c) \/ timers[c] > 0
  BY <1>1, <1>5 DEF Held, Attended, Expected, InOrder
<1> QED
  BY <1>2, <1>3, <1>4, <1>5 DEF Custody

\* A live record is held by exactly one of the pending order, a timer and the
\* drain loop, so no command is sent twice in parallel or left unattended.
THEOREM RecordsAreHeldOnce == Spec => []Custody
BY Invariance, InvCustody, PTL

\* The invariant implies that a waiting command has a running loop.
LEMMA InvNoLostWakeup == IInv => NoLostWakeup
BY CoreParts DEF NoLostWakeup, Attended

\* A waiting command has a running drain loop: no 'ready' event is lost.
THEOREM WakeupsAreKept == Spec => []NoLostWakeup
BY Invariance, InvNoLostWakeup, PTL

\* The invariant implies that the log is ahead of memory.
LEMMA InvWriteAhead == IInv => WriteAhead
<1> SUFFICES ASSUME IInv, NEW c \in Commands
             PROVE  /\ status[c] \in Unsettled =>
                         walStatus[c] \in Unsettled /\ walAttempts[c] <= attempts[c]
                    /\ caller[c] = "accepted" => walStatus[c] # "NONE"
  BY DEF WriteAhead
<1>1. LoggedAt(c, status, attempts, chain, landed, walStatus, walAttempts, caller, deliveries)
  BY CoreParts DEF Logged
<1> QED
  BY <1>1 DEF LoggedAt, Unsettled

\* Whatever memory holds as unsettled is unsettled on disk.
THEOREM LogIsAhead == Spec => []WriteAhead
BY Invariance, InvWriteAhead, PTL

\* The invariant implies that a refused command is neither recorded nor sent.
LEMMA InvRefused == IInv => RefusedIsUnsent
<1> SUFFICES ASSUME IInv, NEW c \in Commands, caller[c] = "refused"
             PROVE  walStatus[c] = "NONE" /\ status[c] = "ABSENT" /\ deliveries[c] = 0
  BY DEF RefusedIsUnsent
<1>1. LoggedAt(c, status, attempts, chain, landed, walStatus, walAttempts, caller, deliveries)
  BY CoreParts DEF Logged
<1> QED
  BY <1>1 DEF LoggedAt

\* A command whose enqueue() threw is never recorded or sent.
THEOREM RefusalIsTrue == Spec => []RefusedIsUnsent
BY Invariance, InvRefused, PTL

\* The invariant implies that deliveries are paid for.
LEMMA InvBounded == IInv => BoundedDuplicates
<1> SUFFICES ASSUME IInv, NEW c \in Commands
             PROVE  deliveries[c] <= MaxAttempts + crashes + lostWrites
  BY DEF BoundedDuplicates
<1> DEFINE slack == crashes + lostWrites
<1>1. /\ LoggedAt(c, status, attempts, chain, landed, walStatus, walAttempts, caller,
                  deliveries)
      /\ PaidAt(c, status, attempts, owned, awaits, chain, landed, walStatus, walAttempts,
                deliveries, slack)
  BY CoreParts DEF Logged, Paid
<1>2. /\ walStatus[c] \in {"NONE"} \cup Unsettled \cup Terminal
      /\ walAttempts[c] \in 0..MaxAttempts /\ deliveries[c] \in Nat /\ slack \in Nat
  BY CoreParts DEF DiskTypes
<1>3. crashes \in Nat /\ lostWrites \in Nat /\ MaxAttempts \in Nat
  BY AttemptsAssumption, BoundsAssumption DEF IInv
<1> HIDE DEF slack
<1>4. deliveries[c] <= MaxAttempts + slack
  BY <1>1, <1>2, <1>3 DEF LoggedAt, PaidAt
<1> QED
  BY <1>3, <1>4 DEF slack

\* A command is delivered at most maxAttempts times, plus once per process end
\* and per refused status write: the budget survives restarts.
THEOREM DuplicatesAreBounded == Spec => []BoundedDuplicates
BY Invariance, InvBounded, PTL

-----------------------------------------------------------------------------
(* The theorems about steps.                                               *)

\* Only a landing write changes the log, only a transport the deliveries.
LEMMA QuietSteps ==
  ASSUME [Next]_vars
  PROVE  /\ WriteLands \/ walStatus' = walStatus
         /\ TransportTakes \/ deliveries' = deliveries
<1>1. CASE UNCHANGED vars
  BY <1>1 DEF vars, disk, ghosts
<1>2. ASSUME NEW c \in Commands, Enqueue(c) \/ TimerFires(c)
      PROVE  walStatus' = walStatus /\ deliveries' = deliveries
  BY <1>2 DEF Enqueue, TimerFires, disk, ghosts
<1>3. CASE WriteLands
  BY <1>3 DEF WriteLands, ghosts
<1>4. CASE TransportTakes
  BY <1>4 DEF TransportTakes, disk
<1>5. CASE CreatedSettles \/ SendSucceeds \/ SendFails
  BY <1>5 DEF CreatedSettles, SendSucceeds, SendFails, disk, ghosts
<1>6. CASE BeginSend \/ NoRoute \/ Settle \/ ScheduleRetry
  BY <1>6 DEF BeginSend, NoRoute, Settle, ScheduleRetry, StatusWriteSettles, disk
<1>7. CASE Stop \/ Restart \/ RestartBlind
  BY <1>7 DEF Stop, Restart, RestartBlind, disk, ghosts
<1>8. CASE Crash \/ Exit
  BY <1>8 DEF Crash, Exit, ProcessEnds, disk
<1> QED
  BY <1>1, <1>2, <1>3, <1>4, <1>5, <1>6, <1>7, <1>8 DEF Next

\* The write that lands is the first of a new command or belongs to a command
\* whose last line is unsettled.
LEMMA LandingFacts ==
  ASSUME IInv, WriteLands
  PROVE  LET w == Head(chain)
         IN  /\ w.cmd \in Commands
             /\ walStatus' = [walStatus EXCEPT ![w.cmd] = StatusOf(w.event)]
             /\ \/ w.event = "CREATED" /\ walStatus[w.cmd] = "NONE"
                \/ /\ w.event \in WriteEvents /\ walStatus[w.cmd] \in Unsettled
                   /\ w.event = "ACKED" => deliveries[w.cmd] > 0
<1> DEFINE w == Head(chain)
<1>1. chain # <<>> /\ landed = FALSE /\ landed \in BOOLEAN
  BY CoreParts DEF WriteLands, DiskTypes
<1>2. /\ w.cmd \in Commands /\ w \in Writes
      /\ Creates(w, caller) \/ Marks(w, attempts, owned, awaits)
  BY <1>1, PopChain
<1>3. walStatus' = [walStatus EXCEPT ![w.cmd] = StatusOf(w.event)]
  BY DEF WriteLands
<1>4. LoggedAt(w.cmd, status, attempts, chain, landed, walStatus, walAttempts, caller,
               deliveries)
  BY <1>2, CoreParts DEF Logged
<1> HIDE DEF w
<1>5. CASE Creates(w, caller)
  BY <1>1, <1>2, <1>3, <1>4, <1>5 DEF Creates, LoggedAt, LandedWrite, w
<1>6. CASE Marks(w, attempts, owned, awaits)
  <2>1. w.event \in WriteEvents /\ w.cmd = owned /\ w.event = awaits
    BY <1>2, <1>6 DEF Marks, Writes
  <2>2. status[w.cmd] = StatusOf(w.event)
    BY <1>2, <2>1, CoreParts DEF Held, AwaitedStatus, WriteEvents
  <2>3. walStatus[w.cmd] \in Unsettled
    BY <1>1, <1>4, <2>1, <2>2 DEF LoggedAt, LandedWrite, StatusOf, WriteEvents, Unsettled, Terminal
  <2>4. w.event = "ACKED" => deliveries[w.cmd] > 0
    BY <1>4, <2>2 DEF LoggedAt, StatusOf
  <2> QED
    BY <1>2, <1>3, <2>1, <2>3, <2>4 DEF w
<1> QED
  BY <1>2, <1>5, <1>6

\* A transport only takes a command whose last line is unsettled.
LEMMA TakingFacts ==
  ASSUME IInv, TransportTakes
  PROVE  /\ owned \in Commands /\ walStatus[owned] \in Unsettled
         /\ deliveries' = [deliveries EXCEPT ![owned] = @ + 1]
         /\ walStatus' = walStatus
<1>1. awaits = "SENDING"
  BY DEF TransportTakes
<1>2. owned \in Commands /\ status[owned] = "DISPATCHING"
  BY <1>1, CoreParts DEF Held, MemoryTypes, AwaitedStatus
<1>3. LoggedAt(owned, status, attempts, chain, landed, walStatus, walAttempts, caller,
               deliveries)
  BY <1>2, CoreParts DEF Logged
<1> QED
  BY <1>2, <1>3 DEF TransportTakes, disk, LoggedAt, Unsettled

\* Memory holds no live record of a settled command, except one waiting to
\* hear that its own last write has landed.
SettledMemory ==
  \A c \in Commands : walStatus[c] \in Terminal => status[c] \in {"ABSENT", walStatus[c]}

\* What the log holds as settled, memory does not hold as unsettled.
LEMMA InvSettledMemory == IInv => SettledMemory
<1> SUFFICES ASSUME IInv, NEW c \in Commands, walStatus[c] \in Terminal
             PROVE  status[c] \in {"ABSENT", walStatus[c]}
  BY DEF SettledMemory
<1>1. /\ LoggedAt(c, status, attempts, chain, landed, walStatus, walAttempts, caller,
                  deliveries)
      /\ HeadOnDisk(chain, landed, walStatus, walAttempts)
      /\ status[c] \in {"ABSENT"} \cup Unsettled \cup Terminal
  BY CoreParts DEF Logged, MemoryTypes
<1>2. CASE status[c] \in Terminal
  <2>1. LandedWrite(chain, landed, c)
    BY <1>1, <1>2 DEF LoggedAt, Unsettled, Terminal
  <2>2. /\ chain # <<>> /\ landed /\ Head(chain).cmd = c /\ Head(chain) \in Writes
        /\ Creates(Head(chain), caller) \/ Marks(Head(chain), attempts, owned, awaits)
    BY <2>1, PopChain DEF LandedWrite
  <2>3. Marks(Head(chain), attempts, owned, awaits)
    BY <1>1, <1>2, <2>2 DEF Creates, LoggedAt, Terminal
  <2>4. status[c] = StatusOf(Head(chain).event)
    BY <2>2, <2>3, CoreParts DEF Marks, Held, AwaitedStatus, Writes, WriteEvents
  <2> QED
    BY <1>1, <2>2, <2>4 DEF HeadOnDisk
<1> QED
  BY <1>1, <1>2 DEF LoggedAt, Unsettled, Terminal

\* A settled command stays settled, is not handed to a transport again and
\* does not come back to life, not even through recovery.
THEOREM SettlementIsFinal == Spec => SettledIsFinal
<1>1. ASSUME IInv, SettledMemory', [Next]_vars, NEW c \in Commands,
             walStatus[c] \in Terminal
      PROVE  /\ walStatus'[c] = walStatus[c]
             /\ deliveries'[c] = deliveries[c]
             /\ status'[c] \in {"ABSENT", walStatus[c]}
  <2>1. walStatus'[c] = walStatus[c]
    <3>1. CASE WriteLands
      <4>1. Head(chain).cmd # c
        BY <1>1, <3>1, LandingFacts DEF Unsettled, Terminal
      <4> QED
        BY <1>1, <3>1, <4>1, LandingFacts, CoreParts DEF DiskTypes
    <3> QED
      BY <1>1, <3>1, QuietSteps
  <2>2. deliveries'[c] = deliveries[c]
    <3>1. CASE TransportTakes
      <4>1. owned # c
        BY <1>1, <3>1, TakingFacts DEF Unsettled, Terminal
      <4> QED
        BY <1>1, <3>1, <4>1, TakingFacts, CoreParts DEF DiskTypes
    <3> QED
      BY <1>1, <3>1, QuietSteps
  <2>3. status'[c] \in {"ABSENT", walStatus[c]}
    BY <1>1, <2>1 DEF SettledMemory
  <2> QED
    BY <2>1, <2>2, <2>3
<1>2. IInv /\ SettledMemory' /\ [Next]_vars => [\A c \in Commands : walStatus[c] \in Terminal =>
         /\ walStatus'[c] = walStatus[c]
         /\ deliveries'[c] = deliveries[c]
         /\ status'[c] \in {"ABSENT", walStatus[c]}]_vars
  BY <1>1
<1> QED
  BY <1>2, Invariance, InvSettledMemory, PTL DEF Spec, SettledIsFinal

\* What the ledger says of a command, from the status in its last line.
LedgerOf(s) == CASE s = "NONE" -> "none"
                 [] s \in Unsettled -> "queued"
                 [] s = "ACKED" -> "acked"
                 [] s = "FAILED" -> "failed"

\* The ledger cell by cell, in this state and the next.
LEMMA LedgerCells ==
  /\ LedgerState = [c \in Commands |-> LedgerOf(walStatus[c])]
  /\ LedgerState' = [c \in Commands |-> LedgerOf(walStatus'[c])]
BY DEF LedgerState, LedgerOf

\* The queue, the dispatcher and the log implement the ledger: a command is
\* recorded before it is received, acknowledged only if it was received, and
\* settled once.
THEOREM LedgerIsImplemented == Spec => ImplementsLedger
<1>1. Init => Ledger!Init
  <2> SUFFICES ASSUME Init PROVE Ledger!Init
    OBVIOUS
  <2>1. LedgerState = [c \in Commands |-> "none"]
    <3>1. LedgerOf("NONE") = "none"
      BY DEF LedgerOf, Unsettled
    <3>2. walStatus = [c \in Commands |-> "NONE"]
      BY DEF Init
    <3> QED
      BY <3>1, <3>2, LedgerCells
  <2>2. Delivered = {}
    BY DEF Init, Delivered
  <2> QED
    BY <2>1, <2>2 DEF Ledger!Init
<1>2. ASSUME IInv, [Next]_vars PROVE [Ledger!Next]_(Ledger!lvars)
  <2>1. walStatus' = walStatus => LedgerState' = LedgerState
    BY LedgerCells
  <2>2. deliveries' = deliveries => Delivered' = Delivered
    BY DEF Delivered
  <2>3. CASE WriteLands
    <3> DEFINE w == Head(chain)
               c == w.cmd
    <3>1. /\ c \in Commands
          /\ walStatus' = [walStatus EXCEPT ![c] = StatusOf(w.event)]
          /\ \/ w.event = "CREATED" /\ walStatus[c] = "NONE"
             \/ /\ w.event \in WriteEvents /\ walStatus[c] \in Unsettled
                /\ w.event = "ACKED" => deliveries[c] > 0
      BY <1>2, <2>3, LandingFacts
    <3>2. Delivered' = Delivered
      BY <2>2, <2>3 DEF WriteLands, ghosts
    <3> HIDE DEF w
    <3>3. LedgerState' = [LedgerState EXCEPT ![c] = LedgerOf(StatusOf(w.event))]
      <4>1. walStatus \in [Commands -> {"NONE"} \cup Unsettled \cup Terminal]
        BY <1>2, CoreParts DEF DiskTypes
      <4> QED
        BY <3>1, <4>1, LedgerCells
    <3>4. LedgerState[c] = LedgerOf(walStatus[c])
      BY <3>1, LedgerCells
    <3>5. CASE w.event = "CREATED"
      <4>1. LedgerState[c] = "none" /\ LedgerOf(StatusOf(w.event)) = "queued"
        BY <3>1, <3>4, <3>5 DEF LedgerOf, StatusOf, Unsettled, WriteEvents
      <4>2. Ledger!Record(c)
        BY <3>2, <3>3, <4>1 DEF Ledger!Record
      <4> QED
        BY <3>1, <4>2 DEF Ledger!Next
    <3>6. CASE w.event \in {"DISPATCHING", "RETRY_SCHEDULED"}
      <4>1. LedgerState[c] = "queued" /\ LedgerOf(StatusOf(w.event)) = "queued"
        BY <3>1, <3>4, <3>6 DEF LedgerOf, StatusOf, Unsettled, WriteEvents
      <4>2. LedgerState' = LedgerState
        BY <3>3, <4>1, <3>1, LedgerCells
      <4> QED
        BY <3>2, <4>2 DEF Ledger!lvars
    <3>7. CASE w.event = "ACKED"
      <4>1. LedgerState[c] = "queued" /\ LedgerOf(StatusOf(w.event)) = "acked"
        BY <3>1, <3>4, <3>7 DEF LedgerOf, StatusOf, Unsettled, WriteEvents
      <4>2. c \in Delivered
        BY <3>1, <3>7 DEF Delivered, WriteEvents
      <4>3. Ledger!Acknowledge(c)
        BY <3>2, <3>3, <4>1, <4>2 DEF Ledger!Acknowledge
      <4> QED
        BY <3>1, <4>3 DEF Ledger!Next
    <3>8. CASE w.event = "FAILED"
      <4>1. LedgerState[c] = "queued" /\ LedgerOf(StatusOf(w.event)) = "failed"
        BY <3>1, <3>4, <3>8 DEF LedgerOf, StatusOf, Unsettled, WriteEvents
      <4>2. Ledger!GiveUp(c)
        BY <3>2, <3>3, <4>1 DEF Ledger!GiveUp
      <4> QED
        BY <3>1, <4>2 DEF Ledger!Next
    <3> QED
      BY <3>1, <3>5, <3>6, <3>7, <3>8 DEF WriteEvents
  <2>4. CASE TransportTakes
    <3>1. /\ owned \in Commands /\ walStatus[owned] \in Unsettled
          /\ deliveries' = [deliveries EXCEPT ![owned] = @ + 1]
          /\ walStatus' = walStatus
      BY <1>2, <2>4, TakingFacts
    <3>2. Delivered' = Delivered \cup {owned}
      <4>1. deliveries \in [Commands -> Nat]
        BY <1>2, CoreParts DEF DiskTypes
      <4> QED
        BY <3>1, <4>1 DEF Delivered
    <3>3. LedgerState[owned] = "queued"
      BY <3>1, LedgerCells DEF LedgerOf, Unsettled
    <3>4. Ledger!Receive(owned)
      BY <2>1, <3>1, <3>2, <3>3 DEF Ledger!Receive
    <3> QED
      BY <3>1, <3>4 DEF Ledger!Next
  <2>5. CASE walStatus' = walStatus /\ deliveries' = deliveries
    BY <2>1, <2>2, <2>5 DEF Ledger!lvars
  <2>6. WriteLands => deliveries' = deliveries
    BY DEF WriteLands, ghosts
  <2> QED
    BY <1>2, <2>3, <2>4, <2>5, QuietSteps
<1>3. IInv /\ [Next]_vars => [Ledger!Next]_(Ledger!lvars)
  BY <1>2
<1> QED
  BY <1>1, <1>3, Invariance, PTL DEF Spec, ImplementsLedger, Ledger!Spec
=============================================================================
