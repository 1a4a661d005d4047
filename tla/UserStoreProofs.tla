--------------------------- MODULE UserStoreProofs ---------------------------
(***************************************************************************)
(* Proofs about UserStore, for every set of names and every number of      *)
(* calls, failures, kills and stops, with create-user.js beside the        *)
(* gateway.                                                                *)
(*                                                                         *)
(* Both properties speak of the accounts in a whole file; what will be in  *)
(* the file next is the list a task has in hand, so the invariant says the *)
(* same of that list, and that an id stands for one name everywhere.       *)
(***************************************************************************)
EXTENDS UserStore, TLAPS, SequenceTheorems

AllTasks == {chain[k] : k \in DOMAIN chain} \cup {script[k] : k \in DOMAIN script}

\* Every account that is written down somewhere; that of nobody always is.
Mentioned ==
  {Nobody} \cup accounts \cup reported \cup {t.user : t \in AllTasks} \cup UNION {t.list : t \in AllTasks}

Unique(list) == \A u, v \in list : u.username = v.username => u = v

Covers(list, u) ==
  \E v \in list : v.id = u.id /\ v.username = u.username /\ (u.disabled => v.disabled)

CoversAll(list) == \A u \in reported : Covers(list, u)

\* An id is given once, and with one name.
Known ==
  /\ \A u, v \in Mentioned : u.id = v.id => u.username = v.username
  /\ \A u \in Mentioned : u.id <= calls

\* The id of an account to be created is that of no other task, and nobody was
\* told of it; what init() writes was decided on when it was handed over.
Fresh ==
  /\ \A k \in DOMAIN chain : chain[k].op = "create" =>
       /\ \A u \in reported \cup {Nobody} : u.id # chain[k].user.id
       /\ \A j \in DOMAIN chain : j # k => chain[j].user.id # chain[k].user.id
       /\ \A j \in DOMAIN script : script[j].user.id # chain[k].user.id
  /\ \A k \in DOMAIN script : script[k].op = "create" =>
       /\ \A u \in reported \cup {Nobody} : u.id # script[k].user.id
       /\ \A j \in DOMAIN script : j # k => script[j].user.id # script[k].user.id
       /\ \A j \in DOMAIN chain : chain[j].user.id # script[k].user.id
  /\ \A t \in AllTasks : t.op = "init" => t.step # "waiting"

\* Two lists in hand are told by the ghost.
Apart == ~overlapped => ~InHand(script) \/ ~InHand(chain)

\* What is in hand, and what is in the file.
Carried ==
  \A t \in AllTasks : t.step # "waiting" =>
    Unique(t.list) /\ (~overlapped => CoversAll(t.list))

Filed ==
  /\ Unique(accounts)
  /\ file = "whole" /\ ~overlapped => CoversAll(accounts)
  /\ file = "absent" => reported = {}

IInv == TypeOK /\ Known /\ Fresh /\ Apart /\ Carried /\ Filed

-----------------------------------------------------------------------------
(* Sequences and records.                                                  *)

\* Removing the first task of a chain leaves its tail.
LEMMA FirstRemoved ==
  ASSUME NEW S, NEW q \in Seq(S), q # <<>>
  PROVE  RemoveAt(q, 1) = Tail(q)
<1>1. SubSeq(q, 1, 0) = <<>>
  BY SubSeqEmpty
<1>2. SubSeq(q, 2, Len(q)) = Tail(q)
  BY TailIsSubSeq
<1>3. <<>> \o Tail(q) = Tail(q)
  BY HeadTailProperties, ConcatEmptySeq
<1>4. SubSeq(q, 1, 0) \o SubSeq(q, 2, Len(q)) = Tail(q)
  BY <1>1, <1>2, <1>3
<1> QED
  BY <1>4 DEF RemoveAt

LEMMA TailFacts ==
  ASSUME NEW S, NEW q \in Seq(S), q # <<>>
  PROVE  /\ Tail(q) \in Seq(S) /\ Len(Tail(q)) = Len(q) - 1 /\ 1 \in DOMAIN q
         /\ DOMAIN q = 1..Len(q) /\ Len(q) \in Nat
         /\ \A j \in DOMAIN Tail(q) : /\ j \in Nat /\ j + 1 \in DOMAIN q
                                       /\ j + 1 > 1 /\ Tail(q)[j] = q[j + 1]
<1>1. DOMAIN q = 1..Len(q) /\ Len(q) \in Nat /\ Len(q) > 0
  BY LenProperties, EmptySeq
<1>2. /\ Tail(q) \in Seq(S) /\ Len(Tail(q)) = Len(q) - 1
      /\ \A j \in 1..Len(Tail(q)) : Tail(q)[j] = q[j + 1]
  BY HeadTailProperties
<1>3. DOMAIN Tail(q) = 1..Len(Tail(q))
  BY <1>2, LenProperties
<1> QED
  BY <1>1, <1>2, <1>3

LEMMA FirstReplaced ==
  ASSUME NEW S, NEW q \in Seq(S), q # <<>>, NEW e \in S,
         NEW p, p = [q EXCEPT ![1] = e]
  PROVE  /\ p \in Seq(S) /\ Len(p) = Len(q) /\ DOMAIN p = DOMAIN q /\ p[1] = e
         /\ 1 \in DOMAIN q /\ DOMAIN q = 1..Len(q) /\ Len(q) \in Nat
         /\ \A j \in DOMAIN q : j # 1 => p[j] = q[j]
<1>1. DOMAIN q = 1..Len(q) /\ Len(q) \in Nat /\ Len(q) > 0
  BY LenProperties, EmptySeq
<1>2. 1 \in 1..Len(q)
  BY <1>1
<1>3. p \in Seq(S) /\ Len(p) = Len(q)
  BY <1>2, ExceptSeq
<1>4. p[1] = e /\ \A j \in DOMAIN q : j # 1 => p[j] = q[j]
  BY <1>1, <1>2
<1>5. DOMAIN p = 1..Len(p)
  BY <1>3, LenProperties
<1> QED
  BY <1>1, <1>2, <1>3, <1>4, <1>5

LEMMA TaskFacts ==
  ASSUME TypeOK
  PROVE  /\ chain \in Seq(Tasks) /\ script \in Seq(Tasks)
         /\ DOMAIN chain = 1..Len(chain) /\ DOMAIN script = 1..Len(script)
         /\ Len(chain) \in Nat /\ Len(script) \in Nat
         /\ \A k \in DOMAIN chain : chain[k] \in Tasks /\ chain[k] \in AllTasks
         /\ \A k \in DOMAIN script : script[k] \in Tasks /\ script[k] \in AllTasks
         /\ \A t \in AllTasks : t \in Tasks /\ t.user \in Mentioned
         /\ Mentioned \subseteq Accounts /\ calls \in Nat
         /\ Nobody \in Accounts /\ Nobody.id = 0
<1>1. /\ chain \in Seq(Tasks) /\ script \in Seq(Tasks)
      /\ DOMAIN chain = 1..Len(chain) /\ DOMAIN script = 1..Len(script)
      /\ Len(chain) \in Nat /\ Len(script) \in Nat
  BY LenProperties DEF TypeOK
<1>2. /\ \A k \in DOMAIN chain : chain[k] \in Tasks
      /\ \A k \in DOMAIN script : script[k] \in Tasks
  BY <1>1, ElementOfSeq
<1>3. \A t \in AllTasks : t \in Tasks
  BY <1>2 DEF AllTasks
<1>4. Nobody \in Accounts /\ Nobody.id = 0
  BY NamesAssumption, BoundsAssumption DEF Nobody, Accounts, Ids
<1>5. Mentioned \subseteq Accounts
  BY <1>3, <1>4 DEF Mentioned, Tasks, TypeOK
<1>6. calls \in Nat
  BY BoundsAssumption DEF TypeOK
<1>7. \A t \in AllTasks : t.user \in Mentioned
  BY DEF Mentioned
<1> QED
  BY <1>1, <1>2, <1>3, <1>4, <1>5, <1>6, <1>7 DEF AllTasks

LEMMA AlteredFacts ==
  ASSUME NEW user \in Accounts, NEW list \in SUBSET Accounts, NEW op
  PROVE  /\ Altered(op, user, list) \in SUBSET Accounts
         /\ \A v \in Altered(op, user, list) :
              \/ v \in list /\ v.id # user.id
              \/ v.id = user.id /\ v.username = user.username
         /\ \A v \in list : v.id # user.id => v \in Altered(op, user, list)
         /\ \E v \in Altered(op, user, list) :
              /\ v.id = user.id /\ v.username = user.username
              /\ v.disabled = (op = "disable")
         /\ \A v, w \in Altered(op, user, list) :
              v.id = user.id /\ w.id = user.id => v = w
<1> DEFINE n == [user EXCEPT !.disabled = (op = "disable")]
<1>1. /\ n \in Accounts /\ n.id = user.id /\ n.username = user.username
      /\ n.disabled = (op = "disable")
  BY DEF Accounts
<1> HIDE DEF n
<1>2. Altered(op, user, list) = {u \in list : u.id # user.id} \cup {n}
  BY DEF Altered, n
<1> QED
  BY <1>1, <1>2

\* Reading and altering a list keeps it free of double names, and every account
\* callers were told of.
LEMMA ReadKeeps ==
  ASSUME TypeOK, Known, NEW user \in Accounts, NEW list \in SUBSET Accounts,
         NEW op \in {"create", "disable"},
         user \in Mentioned \/ user.id = calls + 1, list \subseteq Mentioned,
         Unique(list),
         op = "create" => /\ \A u \in list : u.username # user.username
                          /\ \A u \in reported' : u.id # user.id,
         op = "disable" => user \in Mentioned /\ \E u \in list : u.id = user.id,
         reported' \subseteq reported, reported' \subseteq Accounts
  PROVE  /\ Unique(Altered(op, user, list))
         /\ (\A u \in reported' : Covers(list, u))
              => (\A u \in reported' : Covers(Altered(op, user, list), u))
<1> DEFINE A == Altered(op, user, list)
<1>1. /\ A \in SUBSET Accounts
      /\ \A v \in A : \/ v \in list /\ v.id # user.id
                      \/ v.id = user.id /\ v.username = user.username
      /\ \A v \in list : v.id # user.id => v \in A
      /\ \E v \in A : /\ v.id = user.id /\ v.username = user.username
                      /\ v.disabled = (op = "disable")
      /\ \A v, w \in A : v.id = user.id /\ w.id = user.id => v = w
  BY AlteredFacts
<1> HIDE DEF A
<1>2. \A u \in list : u.id # user.id => u.username # user.username
  <2>1. CASE op = "create"
    BY <2>1
  <2>2. CASE op = "disable"
    <3>1. PICK w \in list : w.id = user.id
      BY <2>2
    <3>2. w.username = user.username
      BY <2>2, <3>1 DEF Known
    <3> QED
      BY <3>1, <3>2 DEF Unique
  <2> QED
    BY <2>1, <2>2
<1>3. Unique(A)
  <2> SUFFICES ASSUME NEW v \in A, NEW w \in A, v.username = w.username
               PROVE  v = w
    BY DEF Unique
  <2>1. CASE v.id = user.id /\ w.id = user.id
    BY <1>1, <2>1
  <2>2. CASE v.id # user.id /\ w.id # user.id
    <3>1. v \in list /\ w \in list
      BY <1>1, <2>2
    <3> QED
      BY <3>1 DEF Unique
  <2>3. CASE v.id = user.id /\ w.id # user.id
    BY <1>1, <1>2, <2>3
  <2>4. CASE v.id # user.id /\ w.id = user.id
    BY <1>1, <1>2, <2>4
  <2> QED
    BY <2>1, <2>2, <2>3, <2>4
<1>4. ASSUME NEW u \in reported', Covers(list, u)
      PROVE  Covers(A, u)
  <2>1. PICK v \in list : v.id = u.id /\ v.username = u.username /\ (u.disabled => v.disabled)
    BY <1>4 DEF Covers
  <2>2. CASE u.id # user.id
    <3>1. v \in A
      BY <1>1, <2>1, <2>2
    <3> QED
      BY <2>1, <3>1 DEF Covers
  <2>3. CASE u.id = user.id
    <3>1. op = "disable" /\ user \in Mentioned
      BY <2>3
    <3>2. user.username = u.username
      BY <2>3, <3>1 DEF Known, Mentioned
    <3> QED
      BY <1>1, <2>3, <3>1, <3>2 DEF Covers
  <2> QED
    BY <2>2, <2>3
<1> QED
  BY <1>3, <1>4 DEF A

\* Accounts may be copied, altered in their flag and dropped; a new one takes
\* the next number.
LEMMA KnownShadow ==
  ASSUME Known, calls \in Nat, Mentioned \subseteq Accounts, NEW N \in SUBSET Accounts,
         calls' \in {calls, calls + 1},
         \A n \in N : n.id = calls + 1 /\ calls' = calls + 1,
         \A m, n \in N : m.username = n.username,
         \A u \in Mentioned' : \E v \in Mentioned \cup N :
           v.id = u.id /\ v.username = u.username
  PROVE  Known'
<1>1. \A v \in Mentioned \cup N : v.id \in Nat /\ v.id <= calls'
  BY BoundsAssumption DEF Known, Accounts, Ids
<1>2. \A u, v \in Mentioned \cup N : u.id = v.id => u.username = v.username
  <2> SUFFICES ASSUME NEW u \in Mentioned \cup N, NEW v \in Mentioned \cup N, u.id = v.id
               PROVE  u.username = v.username
    OBVIOUS
  <2>1. CASE u \in Mentioned /\ v \in Mentioned
    BY <2>1 DEF Known
  <2>2. CASE u \in N \/ v \in N
    <3>1. \A w \in Mentioned : w.id # calls + 1
      <4> SUFFICES ASSUME NEW w \in Mentioned, w.id = calls + 1
                   PROVE  FALSE
        OBVIOUS
      <4>1. w.id <= calls
        BY DEF Known
      <4> QED
        BY <4>1
    <3>2. u.id = calls + 1
      BY <2>2
    <3>3. u \in N /\ v \in N
      BY <3>1, <3>2
    <3> QED
      BY <3>3
  <2> QED
    BY <2>1, <2>2
<1> QED
  BY <1>1, <1>2 DEF Known

-----------------------------------------------------------------------------
(* Steps that only let go of what is there.                                *)

\* The same task, perhaps with its file opened since.
Same(s, t) ==
  /\ s.op = t.op /\ s.user = t.user /\ s.list = t.list
  /\ s.step = "waiting" <=> t.step = "waiting"

LEMMA LetsGo ==
  ASSUME IInv, TypeOK', NEW o \in {0, 1}, NEW p \in {0, 1},
         \A k \in DOMAIN chain' : k + o \in DOMAIN chain /\ Same(chain'[k], chain[k + o]),
         \A k \in DOMAIN script' : k + p \in DOMAIN script /\ Same(script'[k], script[k + p]),
         reported' \subseteq reported, accounts' \subseteq accounts,
         calls' = calls, overlapped' = overlapped,
         file' = "whole" => accounts' = accounts /\ (file = "whole" \/ reported' = {}),
         file' = "absent" => file = "absent"
  PROVE  IInv'
<1>1. /\ DOMAIN chain' = 1..Len(chain') /\ DOMAIN script' = 1..Len(script')
      /\ Len(chain') \in Nat /\ Len(script') \in Nat
      /\ \A k \in DOMAIN chain : chain[k] \in AllTasks
      /\ \A k \in DOMAIN script : script[k] \in AllTasks
  BY TaskFacts, LenProperties DEF IInv, TypeOK
<1>2. \A t \in AllTasks' : \E s \in AllTasks : Same(t, s)
  BY <1>1 DEF AllTasks
<1>3. Known'
  <2>1. Mentioned' \subseteq Mentioned
    BY <1>2 DEF Mentioned, Same
  <2> QED
    BY <2>1 DEF IInv, Known
<1>4. Fresh'
  <2>1. ASSUME NEW k \in DOMAIN chain', chain'[k].op = "create"
        PROVE  /\ \A u \in reported' \cup {Nobody} : u.id # chain'[k].user.id
               /\ \A j \in DOMAIN chain' : j # k => chain'[j].user.id # chain'[k].user.id
               /\ \A j \in DOMAIN script' : script'[j].user.id # chain'[k].user.id
    <3>1. \A j \in DOMAIN chain' : j # k => j + o # k + o
      BY <1>1
    <3> QED
      BY <2>1, <3>1 DEF IInv, Fresh, Same
  <2>2. ASSUME NEW k \in DOMAIN script', script'[k].op = "create"
        PROVE  /\ \A u \in reported' \cup {Nobody} : u.id # script'[k].user.id
               /\ \A j \in DOMAIN script' : j # k => script'[j].user.id # script'[k].user.id
               /\ \A j \in DOMAIN chain' : chain'[j].user.id # script'[k].user.id
    <3>1. \A j \in DOMAIN script' : j # k => j + p # k + p
      BY <1>1
    <3> QED
      BY <2>2, <3>1 DEF IInv, Fresh, Same
  <2>3. \A t \in AllTasks' : t.op = "init" => t.step # "waiting"
    BY <1>2 DEF IInv, Fresh, Same
  <2>4. Nobody' = Nobody
    BY DEF Nobody
  <2> QED
    BY <2>1, <2>2, <2>3, <2>4 DEF Fresh
<1>5. Apart'
  <2>1. InHand(chain)' => InHand(chain)
    BY DEF InHand, Same
  <2>2. InHand(script)' => InHand(script)
    BY DEF InHand, Same
  <2> QED
    BY <2>1, <2>2 DEF IInv, Apart
<1>6. Carried'
  BY <1>2 DEF IInv, Carried, Same, CoversAll, Covers, Unique
<1>7. Filed'
  BY DEF IInv, Filed, CoversAll, Covers, Unique
<1> QED
  BY <1>3, <1>4, <1>5, <1>6, <1>7 DEF IInv

LEMMA AppendedWaits ==
  ASSUME TypeOK, NEW t \in Tasks, t.step = "waiting", chain' = Append(chain, t)
  PROVE  /\ chain' \in Seq(Tasks)
         /\ \A k \in DOMAIN chain' : k > 1 => chain'[k].step = "waiting"
<1>1. chain \in Seq(Tasks) /\ Len(chain) \in Nat /\ DOMAIN chain = 1..Len(chain)
  BY TaskFacts
<1>2. /\ Len(chain') = Len(chain) + 1 /\ chain' \in Seq(Tasks)
      /\ \A k \in 1..Len(chain) : chain'[k] = chain[k]
      /\ chain'[Len(chain) + 1] = t
  BY <1>1, AppendProperties
<1>3. DOMAIN chain' = 1..(Len(chain) + 1)
  BY <1>2, LenProperties
<1>4. \A k \in DOMAIN chain' : k \in DOMAIN chain \/ k = Len(chain) + 1
  BY <1>1, <1>3
<1>5. \A k \in DOMAIN chain : k > 1 => chain[k].step = "waiting"
  BY DEF TypeOK
<1> QED
  BY <1>1, <1>2, <1>4, <1>5

\* A task is handed over.
LEMMA HandsOver ==
  ASSUME IInv, TypeOK', NEW t \in Tasks, t.step = "waiting", t.list = {},
         chain' = Append(chain, t), calls' = calls + 1,
         \/ t.op = "create" /\ t.user.id = calls + 1
         \/ t.op = "disable" /\ t.user \in reported,
         UNCHANGED <<script, overlapped, accounts>>, reported' \subseteq reported,
         file' = "whole" => file = "whole" \/ reported' = {},
         file' = "absent" => file = "absent"
  PROVE  IInv'
<1> DEFINE n == Len(chain)
<1>1. /\ TypeOK /\ DOMAIN chain = 1..n /\ n \in Nat /\ calls \in Nat
      /\ Mentioned \subseteq Accounts
      /\ \A k \in DOMAIN chain : chain[k] \in AllTasks /\ chain[k].user \in Mentioned
      /\ \A k \in DOMAIN script : script[k] \in AllTasks /\ script[k].user \in Mentioned
      /\ \A u \in reported \cup {Nobody} : u \in Mentioned
  BY TaskFacts DEF IInv, Mentioned
<1>2. /\ DOMAIN chain' = 1..(n + 1)
      /\ \A k \in 1..n : chain'[k] = chain[k]
      /\ chain'[n + 1] = t
  <2>1. chain \in Seq(Tasks)
    BY <1>1 DEF TypeOK
  <2>2. /\ Len(chain') = n + 1 /\ chain' \in Seq(Tasks)
        /\ \A k \in 1..n : chain'[k] = chain[k]
        /\ chain'[n + 1] = t
    BY <2>1, AppendProperties
  <2> QED
    BY <2>2, LenProperties
<1> HIDE DEF n
<1>3. \A k \in DOMAIN chain' : k \in DOMAIN chain \/ k = n + 1
  BY <1>1, <1>2
<1>4. \A s \in AllTasks' : s \in AllTasks \/ s = t
  BY <1>1, <1>2, <1>3 DEF AllTasks
<1>5. \A u \in Mentioned : u.id <= calls /\ u.id \in Nat /\ u.id # calls + 1
  <2>1. \A u \in Mentioned : u.id <= calls /\ u.id \in Nat
    BY <1>1, BoundsAssumption DEF IInv, Known, Accounts, Ids
  <2> QED
    BY <1>1, <2>1
<1>6. Known'
  <2> DEFINE N == IF t.user.id = calls + 1 THEN {t.user} ELSE {}
  <2>1. N \in SUBSET Accounts /\ (\A m \in N : m.id = calls + 1)
        /\ \A m, k \in N : m.username = k.username
    BY DEF Tasks
  <2>2. \A u \in Mentioned' : u \in Mentioned \cup N
    <3>1. t.user \in Mentioned \cup N
      BY DEF Mentioned
    <3> QED
      BY <1>4, <3>1 DEF Mentioned
  <2> HIDE DEF N
  <2> QED
    BY <1>1, <2>1, <2>2, KnownShadow DEF IInv
<1>7. Fresh'
  <2>1. ASSUME NEW k \in DOMAIN chain', chain'[k].op = "create"
        PROVE  /\ \A u \in reported' \cup {Nobody} : u.id # chain'[k].user.id
               /\ \A j \in DOMAIN chain' : j # k => chain'[j].user.id # chain'[k].user.id
               /\ \A j \in DOMAIN script' : script'[j].user.id # chain'[k].user.id
    <3>1. CASE k \in DOMAIN chain
      <4>1. /\ \A u \in reported \cup {Nobody} : u.id # chain[k].user.id
            /\ \A j \in DOMAIN chain : j # k => chain[j].user.id # chain[k].user.id
            /\ \A j \in DOMAIN script : script[j].user.id # chain[k].user.id
            /\ chain'[k] = chain[k]
        BY <1>1, <1>2, <2>1, <3>1 DEF IInv, Fresh
      <4>2. t.user.id # chain[k].user.id
        BY <1>1, <1>5, <3>1, <4>1
      <4> QED
        BY <1>1, <1>2, <1>3, <4>1, <4>2
    <3>2. CASE k = n + 1
      <4>1. chain'[k] = t /\ t.user.id = calls + 1
        BY <1>2, <1>5, <2>1, <3>2
      <4>2. \A u \in reported \cup {Nobody} : u.id # calls + 1
        BY <1>1, <1>5
      <4>3. \A j \in DOMAIN chain' : j # k => j \in DOMAIN chain /\ chain'[j] = chain[j]
        BY <1>1, <1>2, <1>3, <3>2
      <4> QED
        BY <1>1, <1>5, <4>1, <4>2, <4>3
    <3> QED
      BY <1>3, <3>1, <3>2
  <2>2. ASSUME NEW k \in DOMAIN script', script'[k].op = "create"
        PROVE  /\ \A u \in reported' \cup {Nobody} : u.id # script'[k].user.id
               /\ \A j \in DOMAIN script' : j # k => script'[j].user.id # script'[k].user.id
               /\ \A j \in DOMAIN chain' : chain'[j].user.id # script'[k].user.id
    <3>1. /\ k \in DOMAIN script /\ script' = script /\ script[k].op = "create"
          /\ \A u \in reported \cup {Nobody} : u.id # script[k].user.id
          /\ \A j \in DOMAIN script : j # k => script[j].user.id # script[k].user.id
          /\ \A j \in DOMAIN chain : chain[j].user.id # script[k].user.id
      BY <2>2 DEF IInv, Fresh
    <3>2. t.user.id # script[k].user.id
      BY <1>1, <1>5, <3>1
    <3> QED
      BY <1>1, <1>2, <1>3, <3>1, <3>2
  <2>3. \A s \in AllTasks' : s.op = "init" => s.step # "waiting"
    BY <1>4 DEF IInv, Fresh
  <2>4. Nobody' = Nobody
    BY DEF Nobody
  <2> QED
    BY <2>1, <2>2, <2>3, <2>4 DEF Fresh
<1>8. Apart'
  <2>1. InHand(chain)' => InHand(chain)
    BY <1>1, <1>2, <1>3 DEF InHand
  <2> QED
    BY <2>1 DEF IInv, Apart
<1>9. Carried'
  BY <1>4 DEF IInv, Carried, CoversAll
<1>10. Filed'
  BY DEF IInv, Filed, CoversAll
<1> QED
  BY <1>6, <1>7, <1>8, <1>9, <1>10 DEF IInv

-----------------------------------------------------------------------------
(* Reading and landing, by either process.                                 *)

\* What is read is the list of the file, and covers what remains reported.
LEMMA ListFacts ==
  ASSUME IInv, Readable
  PROVE  /\ List \in SUBSET Accounts /\ List \subseteq Mentioned /\ Unique(List)
         /\ StillReported \subseteq reported /\ StillReported \subseteq Accounts
         /\ ~overlapped => \A u \in StillReported : Covers(List, u)
<1>1. /\ file \in {"absent", "empty", "whole"} /\ accounts \subseteq Accounts
      /\ reported \subseteq Accounts
  BY DEF IInv, TypeOK, Readable
<1>2. StillReported \subseteq reported
  BY DEF StillReported
<1>3. List \in SUBSET accounts /\ Unique(List)
  BY DEF List, IInv, Filed, Unique
<1>4. ASSUME ~overlapped, NEW u \in StillReported
      PROVE  Covers(List, u)
  <2>1. file = "whole" /\ u \in reported
    BY <1>1 DEF StillReported, IInv, Filed
  <2> QED
    BY <1>4, <2>1 DEF List, IInv, Filed, CoversAll
<1> QED
  BY <1>1, <1>2, <1>3, <1>4 DEF Mentioned

\* The task c of either process has its list and is r then.
LEMMA ListRead ==
  ASSUME IInv, TypeOK', NEW c \in AllTasks, c.step = "waiting", ~Refused(c), NEW r \in Tasks,
         r.op = c.op, r.user = c.user, r.step = "read", r.list = Altered(c.op, c.user, List),
         DOMAIN chain' = DOMAIN chain, DOMAIN script' = DOMAIN script,
         \A k \in DOMAIN chain : chain'[k] = chain[k] \/ (chain[k] = c /\ chain'[k] = r),
         \A k \in DOMAIN script : script'[k] = script[k] \/ (script[k] = c /\ script'[k] = r),
         overlapped => overlapped', ~overlapped' => ~InHand(script)' \/ ~InHand(chain)',
         reported' = StillReported, UNCHANGED <<file, accounts, calls>>
  PROVE  IInv'
<1> DEFINE A == Altered(c.op, c.user, List)
<1>1. /\ TypeOK /\ Known /\ c \in Tasks /\ calls \in Nat
      /\ Mentioned \subseteq Accounts /\ c.user \in Mentioned /\ c.user \in Accounts
  BY TaskFacts DEF IInv
<1>2. c.op \in {"create", "disable"}
  BY <1>1 DEF IInv, Fresh, Tasks
<1>3. /\ Readable
      /\ c.op = "create" => \A u \in List : u.username # c.user.username
      /\ c.op = "disable" => \E u \in List : u.id = c.user.id
  BY <1>2 DEF Refused, Taken
<1>4. /\ List \in SUBSET Accounts /\ List \subseteq Mentioned /\ Unique(List)
      /\ reported' \subseteq reported /\ reported' \subseteq Accounts
      /\ ~overlapped => \A u \in reported' : Covers(List, u)
  BY <1>3, ListFacts
<1>5. c.op = "create" => \A u \in reported' : u.id # c.user.id
  BY <1>4 DEF IInv, Fresh, AllTasks
<1>6. /\ A \in SUBSET Accounts
      /\ \A v \in A : v \in List \/ (v.id = c.user.id /\ v.username = c.user.username)
  BY <1>1, <1>4, AlteredFacts
<1>7. /\ Unique(A)
      /\ (\A u \in reported' : Covers(List, u)) => (\A u \in reported' : Covers(A, u))
  BY <1>1, <1>2, <1>3, <1>4, <1>5, ReadKeeps
<1>8. r.list = A
  OBVIOUS
<1> HIDE DEF A
<1>10. \A s \in AllTasks' : s \in AllTasks \/ s = r
  BY DEF AllTasks
<1>11. Known'
  <2>1. \A u \in A : \E v \in Mentioned : v.id = u.id /\ v.username = u.username
    BY <1>1, <1>4, <1>6
  <2>2. \A u \in Mentioned' : u \in Mentioned \/ u \in A
    <3>1. \A s \in AllTasks' : s.user \in Mentioned /\ (s.list \subseteq Mentioned \/ s.list = A)
      BY <1>1, <1>8, <1>10 DEF Mentioned
    <3>2. \A u \in {Nobody'} \cup accounts' \cup reported' : u \in Mentioned
      BY <1>4 DEF Mentioned, Nobody
    <3> QED
      BY <3>1, <3>2 DEF Mentioned
  <2>3. \A u \in Mentioned' : \E v \in Mentioned : v.id = u.id /\ v.username = u.username
    BY <2>1, <2>2
  <2>4. {} \in SUBSET Accounts
    OBVIOUS
  <2> QED
    BY <1>1, <2>3, <2>4, KnownShadow
<1>12. Fresh'
  <2>1. /\ \A j \in DOMAIN chain : chain'[j].user = chain[j].user /\ chain'[j].op = chain[j].op
        /\ \A j \in DOMAIN script : script'[j].user = script[j].user /\ script'[j].op = script[j].op
    OBVIOUS
  <2>2. \A t \in AllTasks' : t.op = "init" => t.step # "waiting"
    BY <1>10 DEF IInv, Fresh
  <2>3. Nobody' = Nobody
    BY DEF Nobody
  <2> QED
    BY <1>4, <2>1, <2>2, <2>3 DEF IInv, Fresh
<1>13. Apart'
  BY DEF Apart
<1>14. Carried'
  <2> SUFFICES ASSUME NEW s \in AllTasks', s.step # "waiting"
               PROVE  Unique(s.list) /\ (~overlapped' => CoversAll(s.list)')
    BY DEF Carried, Unique
  <2>1. CASE s = r
    BY <1>4, <1>7, <1>8, <2>1 DEF CoversAll
  <2>2. CASE s \in AllTasks
    BY <1>4, <2>2 DEF IInv, Carried, CoversAll
  <2> QED
    BY <1>10, <2>1, <2>2
<1>15. Filed'
  BY <1>4 DEF IInv, Filed, CoversAll
<1> QED
  BY <1>11, <1>12, <1>13, <1>14, <1>15 DEF IInv

\* Either process has its list.
LEMMA ReadsInv ==
  ASSUME IInv, ScriptReads \/ \E k \in DOMAIN chain : TaskReads(k)
  PROVE  IInv'
<1>1. /\ reported' = StillReported
      /\ UNCHANGED <<process, file, accounts, calls, faults, ends>>
  BY DEF ScriptReads, TaskReads, disk, counts
<1>2. /\ TypeOK /\ chain \in Seq(Tasks) /\ script \in Seq(Tasks)
      /\ \A k \in DOMAIN chain : chain[k] \in AllTasks /\ chain[k] \in Tasks
      /\ \A k \in DOMAIN script : script[k] \in AllTasks /\ script[k] \in Tasks
  BY TaskFacts DEF IInv
<1>3. ASSUME NEW q \in Seq(Tasks), q # <<>>, q[1].step = "waiting", q[1] \in Tasks, ~Refused(q[1])
      PROVE  LET e == [q[1] EXCEPT !.step = "read", !.list = Altered(q[1].op, q[1].user, List)]
             IN  /\ e \in Tasks /\ e.op = q[1].op /\ e.user = q[1].user /\ e.step = "read"
                 /\ e.list = Altered(q[1].op, q[1].user, List)
                 /\ [q EXCEPT ![1].step = "read",
                              ![1].list = Altered(q[1].op, q[1].user, List)] = [q EXCEPT ![1] = e]
  <2> DEFINE A == Altered(q[1].op, q[1].user, List)
  <2>1. Readable
    BY <1>3 DEF Refused
  <2>2. A \in SUBSET Accounts
    BY <1>3, <2>1, ListFacts, AlteredFacts DEF Tasks
  <2> HIDE DEF A
  <2>3. 1 \in DOMAIN q
    BY <1>3, TailFacts
  <2> QED
    BY <1>3, <2>2, <2>3 DEF Tasks, A
<1>4. reported' \subseteq Accounts
  BY <1>1, <1>2 DEF StillReported, TypeOK
<1>5. CASE ScriptReads
  <2> DEFINE c == script[1]
             e == [c EXCEPT !.step = "read", !.list = Altered(c.op, c.user, List)]
  <2>1. /\ script # <<>> /\ c.step = "waiting" /\ ~Refused(c) /\ chain' = chain
        /\ script' = [script EXCEPT ![1].step = "read",
                                    ![1].list = Altered(c.op, c.user, List)]
        /\ overlapped' = (overlapped \/ InHand(chain))
    BY <1>5 DEF ScriptReads
  <2>2. script # <<>> /\ 1 \in DOMAIN script
    BY <1>2, <2>1, TailFacts
  <2>3. c \in AllTasks /\ c \in Tasks
    BY <1>2, <2>2
  <2>4. /\ e \in Tasks /\ e.op = c.op /\ e.user = c.user /\ e.step = "read"
        /\ e.list = Altered(c.op, c.user, List) /\ script' = [script EXCEPT ![1] = e]
    BY <1>2, <1>3, <2>1, <2>3
  <2> HIDE DEF e
  <2>5. /\ script' \in Seq(Tasks) /\ Len(script') = Len(script)
        /\ DOMAIN script' = DOMAIN script /\ script'[1] = e
        /\ \A j \in DOMAIN script : j # 1 => script'[j] = script[j]
    BY <1>2, <2>2, <2>4, FirstReplaced
  <2>6. \A k \in DOMAIN script' : k > 1 => script'[k].step = "waiting"
    BY <1>2, <2>5 DEF TypeOK
  <2>7. TypeOK'
    BY <1>1, <1>2, <1>4, <2>1, <2>5, <2>6 DEF TypeOK
  <2>8. (overlapped => overlapped') /\ (~overlapped' => ~InHand(chain)')
    BY <2>1 DEF InHand
  <2>9. \A k \in DOMAIN script : script'[k] = script[k] \/ (script[k] = c /\ script'[k] = e)
    BY <2>5
  <2>10. /\ DOMAIN chain' = DOMAIN chain
         /\ \A k \in DOMAIN chain : chain'[k] = chain[k]
    BY <2>1
  <2>11. c.step = "waiting" /\ ~Refused(c)
    BY <2>1
  <2> HIDE DEF c
  <2> QED
    BY <1>1, <2>3, <2>4, <2>5, <2>7, <2>8, <2>9, <2>10, <2>11, ListRead
<1>6. ASSUME NEW k \in DOMAIN chain, TaskReads(k)
      PROVE  IInv'
  <2> DEFINE c == chain[1]
             e == [c EXCEPT !.step = "read", !.list = Altered(c.op, c.user, List)]
  <2>1. /\ 1 \in DOMAIN chain /\ c.step = "waiting" /\ ~Refused(c) /\ script' = script
        /\ chain' = [chain EXCEPT ![1].step = "read",
                                  ![1].list = Altered(c.op, c.user, List)]
        /\ overlapped' = (overlapped \/ InHand(script))
    BY <1>6 DEF TaskReads, InTurn
  <2>2. chain # <<>>
    BY <1>2, <2>1, EmptySeq
  <2>3. c \in AllTasks /\ c \in Tasks
    BY <1>2, <2>1
  <2>4. /\ e \in Tasks /\ e.op = c.op /\ e.user = c.user /\ e.step = "read"
        /\ e.list = Altered(c.op, c.user, List) /\ chain' = [chain EXCEPT ![1] = e]
    BY <1>2, <1>3, <2>1, <2>2, <2>3
  <2> HIDE DEF e
  <2>5. /\ chain' \in Seq(Tasks) /\ DOMAIN chain' = DOMAIN chain /\ chain'[1] = e
        /\ \A j \in DOMAIN chain : j # 1 => chain'[j] = chain[j]
    BY <1>2, <2>2, <2>4, FirstReplaced
  <2>6. \A j \in DOMAIN chain' : j > 1 => chain'[j].step = "waiting"
    BY <1>2, <2>5 DEF TypeOK
  <2>7. TypeOK'
    BY <1>1, <1>2, <1>4, <2>1, <2>5, <2>6 DEF TypeOK
  <2>8. (overlapped => overlapped') /\ (~overlapped' => ~InHand(script)')
    BY <2>1 DEF InHand
  <2>9. \A j \in DOMAIN chain : chain'[j] = chain[j] \/ (chain[j] = c /\ chain'[j] = e)
    BY <2>5
  <2>10. /\ DOMAIN script' = DOMAIN script
         /\ \A j \in DOMAIN script : script'[j] = script[j]
    BY <2>1
  <2>11. c.step = "waiting" /\ ~Refused(c)
    BY <2>1
  <2> HIDE DEF c
  <2> QED
    BY <1>1, <2>3, <2>4, <2>5, <2>7, <2>8, <2>9, <2>10, <2>11, ListRead
<1> QED
  BY <1>5, <1>6

\* A list in hand is the file, and its caller is told.
LEMMA ListLands ==
  ASSUME IInv, TypeOK', NEW t \in AllTasks, t.step # "waiting", NEW o \in {0, 1}, NEW p \in {0, 1},
         \A k \in DOMAIN chain' : k + o \in DOMAIN chain /\ chain'[k] = chain[k + o],
         \A k \in DOMAIN script' : k + p \in DOMAIN script /\ script'[k] = script[k + p],
         \A k \in DOMAIN chain' :
           /\ chain'[k].op = "create" => chain'[k].user.id # t.user.id
           /\ chain'[k].step # "waiting" => overlapped,
         \A k \in DOMAIN script' :
           /\ script'[k].op = "create" => script'[k].user.id # t.user.id
           /\ script'[k].step # "waiting" => overlapped,
         file' \in {"whole", "fragment"},
         accounts' = IF file' = "whole" THEN t.list ELSE {},
         reported' = {u \in reported : u.id # t.user.id} \cup {u \in t.list : u.id = t.user.id},
         calls' = calls, overlapped' = overlapped
  PROVE  IInv'
<1>1. /\ DOMAIN chain' = 1..Len(chain') /\ DOMAIN script' = 1..Len(script')
      /\ Len(chain') \in Nat /\ Len(script') \in Nat
      /\ \A k \in DOMAIN chain : chain[k] \in AllTasks
      /\ \A k \in DOMAIN script : script[k] \in AllTasks
      /\ Unique(t.list) /\ (~overlapped => CoversAll(t.list))
  BY TaskFacts, LenProperties DEF IInv, TypeOK, Carried
<1>2. \A s \in AllTasks' : s \in AllTasks
  BY <1>1 DEF AllTasks
<1>3. Known'
  <2>1. Mentioned' \subseteq Mentioned
    BY <1>2 DEF Mentioned, Nobody
  <2> QED
    BY <2>1 DEF IInv, Known
<1>4. Nobody' = Nobody /\ \A u \in reported' : u \in reported \/ u.id = t.user.id
  BY DEF Nobody
<1>5. Fresh'
  <2>1. ASSUME NEW k \in DOMAIN chain', chain'[k].op = "create"
        PROVE  /\ \A u \in reported' \cup {Nobody} : u.id # chain'[k].user.id
               /\ \A j \in DOMAIN chain' : j # k => chain'[j].user.id # chain'[k].user.id
               /\ \A j \in DOMAIN script' : script'[j].user.id # chain'[k].user.id
    <3>1. \A j \in DOMAIN chain' : j # k => j + o # k + o
      BY <1>1
    <3>2. chain'[k] = chain[k + o] /\ chain[k + o].op = "create" /\ k + o \in DOMAIN chain
      BY <2>1
    <3>3. /\ \A u \in reported \cup {Nobody} : u.id # chain'[k].user.id
          /\ \A j \in DOMAIN chain : j # k + o => chain[j].user.id # chain'[k].user.id
          /\ \A j \in DOMAIN script : script[j].user.id # chain'[k].user.id
      BY <3>2 DEF IInv, Fresh
    <3>4. chain'[k].user.id # t.user.id
      BY <2>1
    <3> QED
      BY <1>4, <3>1, <3>3, <3>4
  <2>2. ASSUME NEW k \in DOMAIN script', script'[k].op = "create"
        PROVE  /\ \A u \in reported' \cup {Nobody} : u.id # script'[k].user.id
               /\ \A j \in DOMAIN script' : j # k => script'[j].user.id # script'[k].user.id
               /\ \A j \in DOMAIN chain' : chain'[j].user.id # script'[k].user.id
    <3>1. \A j \in DOMAIN script' : j # k => j + p # k + p
      BY <1>1
    <3>2. script'[k] = script[k + p] /\ script[k + p].op = "create" /\ k + p \in DOMAIN script
      BY <2>2
    <3>3. /\ \A u \in reported \cup {Nobody} : u.id # script'[k].user.id
          /\ \A j \in DOMAIN script : j # k + p => script[j].user.id # script'[k].user.id
          /\ \A j \in DOMAIN chain : chain[j].user.id # script'[k].user.id
      BY <3>2 DEF IInv, Fresh
    <3>4. script'[k].user.id # t.user.id
      BY <2>2
    <3> QED
      BY <1>4, <3>1, <3>3, <3>4
  <2>3. \A s \in AllTasks' : s.op = "init" => s.step # "waiting"
    BY <1>2 DEF IInv, Fresh
  <2> QED
    BY <1>4, <2>1, <2>2, <2>3 DEF Fresh
<1>6. \A s \in AllTasks' : s.step # "waiting" => overlapped
  BY DEF AllTasks
<1>7. Apart'
  <2>1. InHand(chain)' => overlapped'
    BY DEF InHand
  <2> QED
    BY <2>1 DEF Apart
<1>8. Carried'
  BY <1>2, <1>6 DEF IInv, Carried, Unique
<1>9. Filed'
  <2>1. Unique(accounts)'
    BY <1>1 DEF Unique
  <2>2. file' = "whole" /\ ~overlapped => CoversAll(accounts)'
    <3> SUFFICES ASSUME file' = "whole", ~overlapped, NEW u \in reported'
                 PROVE  Covers(t.list, u)
      BY DEF CoversAll, Covers
    <3>1. CASE u \in reported
      BY <1>1, <3>1 DEF CoversAll
    <3>2. CASE u \in t.list
      BY <3>2 DEF Covers
    <3> QED
      BY <3>1, <3>2
  <2> QED
    BY <2>1, <2>2 DEF Filed
<1> QED
  BY <1>3, <1>5, <1>7, <1>8, <1>9 DEF IInv

-----------------------------------------------------------------------------
(* Each action keeps the invariant.                                        *)

LEMMA InitInv ==
  ASSUME Init
  PROVE  IInv
<1>1. /\ chain = <<>> /\ script = <<>> /\ DOMAIN chain = {} /\ DOMAIN script = {}
      /\ chain \in Seq(Tasks) /\ script \in Seq(Tasks) /\ Len(script) = 0
  BY EmptySeq DEF Init
<1>2. AllTasks = {} /\ Mentioned = {Nobody} /\ Nobody.id = 0
  BY <1>1 DEF AllTasks, Mentioned, Init, Nobody
<1>3. TypeOK
  <2>1. 0 \in 0..MaxCalls /\ 0 \in 0..MaxFaults /\ 0 \in 0..MaxEnds
    BY BoundsAssumption
  <2>2. /\ \A k \in DOMAIN chain : k > 1 => chain[k].step = "waiting"
        /\ \A k \in DOMAIN script : k > 1 => script[k].step = "waiting"
    BY <1>1
  <2>3. /\ process = "down" /\ file = "absent" /\ overlapped = FALSE
        /\ accounts = {} /\ reported = {} /\ calls = 0 /\ faults = 0 /\ ends = 0
    BY DEF Init
  <2>4. Len(script) <= 2
    BY <1>1
  <2> QED
    BY <1>1, <2>1, <2>2, <2>3, <2>4 DEF TypeOK
<1>4. Known /\ Fresh /\ Apart /\ Carried /\ Filed
  BY <1>1, <1>2 DEF Init, Known, Fresh, Apart, InHand, Carried, Filed, Unique, CoversAll
<1> QED
  BY <1>3, <1>4 DEF IInv

\* What a settled or refused task leaves of the chain.
LEMMA SettledChain ==
  ASSUME TypeOK, NEW k \in DOMAIN chain, InTurn(k), chain' = RemoveAt(chain, k)
  PROVE  /\ k = 1 /\ chain[1] \in AllTasks /\ chain[1] \in Tasks
         /\ chain' \in Seq(Tasks)
         /\ \A j \in DOMAIN chain' :
              /\ j + 1 \in DOMAIN chain /\ chain'[j] = chain[j + 1]
              /\ chain'[j].step = "waiting" /\ j + 1 # 1
<1>1. k = 1 /\ chain \in Seq(Tasks) /\ DOMAIN chain = 1..Len(chain) /\ Len(chain) \in Nat
      /\ chain[1] \in AllTasks /\ chain[1] \in Tasks
  BY TaskFacts DEF InTurn
<1>2. chain # <<>>
  BY <1>1, EmptySeq
<1>3. chain' = Tail(chain)
  BY <1>1, <1>2, FirstRemoved
<1>4. /\ chain' \in Seq(Tasks)
      /\ \A j \in 1..Len(chain') : j + 1 \in 1..Len(chain) /\ chain'[j] = chain[j + 1]
  BY <1>1, <1>2, <1>3, HeadTailProperties
<1>5. DOMAIN chain' = 1..Len(chain') /\ Len(chain') \in Nat
  BY <1>4, LenProperties
<1>6. \A j \in DOMAIN chain' : j + 1 \in DOMAIN chain /\ j + 1 > 1
  BY <1>1, <1>4, <1>5
<1>7. \A j \in DOMAIN chain : j > 1 => chain[j].step = "waiting"
  BY DEF TypeOK
<1>8. \A j \in DOMAIN chain' : chain'[j] = chain[j + 1]
  BY <1>4, <1>5
<1>9. \A j \in DOMAIN chain' : j + 1 # 1
  BY <1>5
<1> QED
  BY <1>1, <1>4, <1>6, <1>7, <1>8, <1>9

LEMMA GivesUpInv ==
  ASSUME IInv, NEW k \in DOMAIN chain, TaskIsRefused(k) \/ TaskFails(k)
  PROVE  IInv'
<1>1. /\ InTurn(k) /\ chain' = RemoveAt(chain, k)
      /\ reported' \in {reported, StillReported}
      /\ UNCHANGED <<process, file, accounts, script, overlapped, calls, ends>>
      /\ faults' = faults \/ (faults < MaxFaults /\ faults' = faults + 1)
  BY DEF TaskIsRefused, TaskFails, disk, cli, counts
<1>2. /\ chain' \in Seq(Tasks)
      /\ \A j \in DOMAIN chain' :
           /\ j + 1 \in DOMAIN chain /\ chain'[j] = chain[j + 1]
           /\ chain'[j].step = "waiting"
  BY <1>1, SettledChain DEF IInv
<1>3. reported' \subseteq reported
  BY <1>1 DEF StillReported
<1>4. faults' \in 0..MaxFaults
  BY <1>1, BoundsAssumption DEF IInv, TypeOK
<1>5. TypeOK'
  BY <1>1, <1>2, <1>3, <1>4 DEF IInv, TypeOK
<1>6. \A j \in DOMAIN chain' : Same(chain'[j], chain[j + 1])
  BY <1>2 DEF Same
<1>7. \A j \in DOMAIN script' : j + 0 \in DOMAIN script /\ Same(script'[j], script[j + 0])
  BY <1>1, TaskFacts DEF IInv, Same
<1> QED
  BY <1>1, <1>2, <1>3, <1>5, <1>6, <1>7, LetsGo

\* Steps that leave the tasks of both processes as they are, or drop them all.
LEMMA LeavesTasks ==
  ASSUME IInv, TypeOK', chain' \in {chain, <<>>}, script' \in {script, <<>>},
         reported' \subseteq reported, accounts' \subseteq accounts,
         calls' = calls, overlapped' = overlapped,
         file' = "whole" => accounts' = accounts /\ (file = "whole" \/ reported' = {}),
         file' = "absent" => file = "absent"
  PROVE  IInv'
<1>1. DOMAIN chain \subseteq Nat /\ DOMAIN script \subseteq Nat
  BY TaskFacts DEF IInv
<1>2. \A k \in DOMAIN chain' : k + 0 \in DOMAIN chain /\ Same(chain'[k], chain[k + 0])
  <2>1. CASE chain' = chain
    BY <1>1, <2>1 DEF Same
  <2>2. CASE chain' = <<>>
    BY <2>2
  <2> QED
    BY <2>1, <2>2
<1>3. \A k \in DOMAIN script' : k + 0 \in DOMAIN script /\ Same(script'[k], script[k + 0])
  <2>1. CASE script' = script
    BY <1>1, <2>1 DEF Same
  <2>2. CASE script' = <<>>
    BY <2>2
  <2> QED
    BY <2>1, <2>2
<1> QED
  BY <1>2, <1>3, LetsGo

LEMMA LivesInv ==
  ASSUME IInv, \/ WriteProceeds \/ Serve \/ Stop \/ Exit \/ Kill \/ InitFails \/ CountFails
               \/ ScriptIsRefused \/ ScriptIsKilled \/ UNCHANGED vars
  PROVE  IInv'
<1>1. /\ chain' \in {chain, <<>>} /\ script' \in {script, <<>>}
      /\ UNCHANGED <<overlapped, calls>>
      /\ reported' \in {reported, StillReported}
      /\ \/ UNCHANGED <<file, accounts>>
         \/ file' = "fragment" /\ accounts' = {}
      /\ ends' = ends \/ (ends < MaxEnds /\ ends' = ends + 1)
      /\ faults' = faults \/ (faults < MaxFaults /\ faults' = faults + 1)
      /\ process' \in {process, "serving", "closing", "down"}
  BY DEF WriteProceeds, Serve, Stop, Exit, Kill, InitFails, CountFails, ScriptIsRefused,
         ScriptIsKilled, vars, disk, cli, counts
<1>2. /\ chain' \in Seq(Tasks) /\ script' \in Seq(Tasks) /\ Len(script') <= 2
      /\ \A k \in DOMAIN chain' : k > 1 => chain'[k].step = "waiting"
      /\ \A k \in DOMAIN script' : k > 1 => script'[k].step = "waiting"
  <2>1. <<>> \in Seq(Tasks) /\ Len(<<>>) = 0 /\ DOMAIN <<>> = {}
    BY EmptySeq
  <2>2. /\ chain \in Seq(Tasks) /\ script \in Seq(Tasks) /\ Len(script) <= 2
        /\ \A k \in DOMAIN chain : k > 1 => chain[k].step = "waiting"
        /\ \A k \in DOMAIN script : k > 1 => script[k].step = "waiting"
    BY DEF IInv, TypeOK
  <2>3. chain' \in Seq(Tasks) /\ \A k \in DOMAIN chain' : k > 1 => chain'[k].step = "waiting"
    <3>1. CASE chain' = <<>>
      BY <2>1, <3>1
    <3>2. CASE chain' = chain
      BY <2>2, <3>2
    <3> QED
      BY <1>1, <3>1, <3>2
  <2>4. /\ script' \in Seq(Tasks) /\ Len(script') <= 2
        /\ \A k \in DOMAIN script' : k > 1 => script'[k].step = "waiting"
    <3>1. CASE script' = <<>>
      <4>1. Len(script') = 0
        BY <2>1, <3>1
      <4> QED
        BY <2>1, <3>1, <4>1
    <3>2. CASE script' = script
      BY <2>2, <3>2
    <3> QED
      BY <1>1, <3>1, <3>2
  <2> QED
    BY <2>3, <2>4
<1>3. ends' \in 0..MaxEnds /\ faults' \in 0..MaxFaults
  BY <1>1, BoundsAssumption DEF IInv, TypeOK
<1>4. reported' \subseteq reported
  BY <1>1 DEF StillReported
<1>5. TypeOK'
  BY <1>1, <1>2, <1>3, <1>4 DEF IInv, TypeOK
<1> QED
  BY <1>1, <1>4, <1>5, LeavesTasks

LEMMA CallsInv ==
  ASSUME IInv, \/ \E n \in Names : CreateUser(n)
               \/ \E u \in reported : SetDisabled(u)
  PROVE  IInv'
<1>1. PICK t \in Tasks :
        /\ t.step = "waiting" /\ t.list = {} /\ chain' = Append(chain, t)
        /\ \/ t.op = "create" /\ t.user.id = calls + 1
           \/ t.op = "disable" /\ t.user \in reported
        /\ calls < MaxCalls /\ calls' = calls + 1
        /\ UNCHANGED <<process, file, accounts, script, overlapped, reported, faults, ends>>
  <2>1. ASSUME NEW op \in {"create", "disable"}, NEW user \in Accounts, HandOver(op, user)
        PROVE  \E t \in Tasks : /\ t.step = "waiting" /\ t.list = {}
                                /\ t.op = op /\ t.user = user /\ chain' = Append(chain, t)
    <3> DEFINE t == Task(op, user)
    <3>1. t \in Tasks /\ t.step = "waiting" /\ t.list = {} /\ t.op = op /\ t.user = user
      BY DEF Tasks, Task
    <3> QED
      BY <2>1, <3>1 DEF HandOver
  <2>2. ASSUME NEW n \in Names, CreateUser(n)
        PROVE  \E t \in Tasks :
                 /\ t.step = "waiting" /\ t.list = {} /\ chain' = Append(chain, t)
                 /\ t.op = "create" /\ t.user.id = calls + 1
    <3> DEFINE user == NewAccount(n)
    <3>1. user \in Accounts /\ user.id = calls + 1
      BY <2>2, BoundsAssumption DEF CreateUser, NewAccount, Accounts, Ids, IInv, TypeOK
    <3>2. HandOver("create", user)
      BY <2>2 DEF CreateUser
    <3> HIDE DEF user
    <3>3. PICK t \in Tasks : /\ t.step = "waiting" /\ t.list = {}
                             /\ t.op = "create" /\ t.user = user /\ chain' = Append(chain, t)
      BY <2>1, <3>1, <3>2
    <3> QED
      BY <3>1, <3>3
  <2>3. ASSUME NEW u \in reported, SetDisabled(u)
        PROVE  \E t \in Tasks :
                 /\ t.step = "waiting" /\ t.list = {} /\ chain' = Append(chain, t)
                 /\ t.op = "disable" /\ t.user \in reported
    <3>1. u \in Accounts /\ HandOver("disable", u)
      BY <2>3 DEF SetDisabled, IInv, TypeOK
    <3>2. PICK t \in Tasks : /\ t.step = "waiting" /\ t.list = {}
                             /\ t.op = "disable" /\ t.user = u /\ chain' = Append(chain, t)
      BY <2>1, <3>1
    <3> QED
      BY <3>2
  <2>4. /\ calls < MaxCalls /\ calls' = calls + 1
        /\ UNCHANGED <<process, file, accounts, script, overlapped, reported, faults, ends>>
    BY DEF CreateUser, SetDisabled, disk, cli
  <2> QED
    BY <2>2, <2>3, <2>4
<1>2. TypeOK'
  <2>1. calls' \in 0..MaxCalls
    BY <1>1, BoundsAssumption DEF IInv, TypeOK
  <2>2. chain' \in Seq(Tasks) /\ \A k \in DOMAIN chain' : k > 1 => chain'[k].step = "waiting"
    BY <1>1, AppendedWaits DEF IInv
  <2> QED
    BY <1>1, <2>1, <2>2 DEF IInv, TypeOK
<1> QED
  BY <1>1, <1>2, HandsOver

\* The file is emptied by the oldest task of either process.
LEMMA OpensInv ==
  ASSUME IInv, ScriptOpens \/ \E k \in DOMAIN chain : WriteOpens(k)
  PROVE  IInv'
<1>1. /\ UNCHANGED <<process, overlapped, reported, calls, faults, ends>>
      /\ file' = "empty" /\ accounts' = {}
  BY DEF ScriptOpens, WriteOpens, cli, counts
<1>2. /\ TypeOK /\ chain \in Seq(Tasks) /\ script \in Seq(Tasks)
      /\ DOMAIN chain \subseteq Nat /\ DOMAIN script \subseteq Nat
      /\ \A k \in DOMAIN chain : chain[k] \in Tasks
      /\ \A k \in DOMAIN script : script[k] \in Tasks
  BY TaskFacts DEF IInv
<1>3. ASSUME NEW q \in Seq(Tasks), q # <<>>, q[1] \in Tasks
      PROVE  LET e == [q[1] EXCEPT !.step = "opened"]
             IN  /\ e \in Tasks /\ e.op = q[1].op /\ e.user = q[1].user
                 /\ e.list = q[1].list /\ e.step = "opened"
                 /\ [q EXCEPT ![1].step = "opened"] = [q EXCEPT ![1] = e]
  <2>1. 1 \in DOMAIN q
    BY <1>3, TailFacts
  <2> QED
    BY <1>3, <2>1 DEF Tasks
<1>4. CASE ScriptOpens
  <2> DEFINE e == [script[1] EXCEPT !.step = "opened"]
  <2>1. /\ script' = [script EXCEPT ![1].step = "opened"] /\ chain' = chain
        /\ script # <<>> /\ script[1].step = "read"
    BY <1>4 DEF ScriptOpens
  <2>2. script # <<>> /\ 1 \in DOMAIN script
    BY <1>2, <2>1, TailFacts
  <2>3. /\ e \in Tasks /\ e.op = script[1].op /\ e.user = script[1].user
        /\ e.list = script[1].list /\ e.step = "opened" /\ script' = [script EXCEPT ![1] = e]
    BY <1>2, <1>3, <2>1, <2>2
  <2> HIDE DEF e
  <2>4. /\ script' \in Seq(Tasks) /\ Len(script') = Len(script)
        /\ DOMAIN script' = DOMAIN script /\ script'[1] = e
        /\ \A j \in DOMAIN script : j # 1 => script'[j] = script[j]
    BY <1>2, <2>2, <2>3, FirstReplaced
  <2>5. \A j \in DOMAIN script' : j > 1 => script'[j].step = "waiting"
    BY <1>2, <2>4 DEF TypeOK
  <2>6. TypeOK'
    BY <1>1, <1>2, <2>1, <2>4, <2>5 DEF TypeOK
  <2>7. \A j \in DOMAIN script' : Same(script'[j], script[j])
    BY <2>1, <2>3, <2>4 DEF Same
  <2>8. /\ \A j \in DOMAIN script' : j + 0 \in DOMAIN script /\ Same(script'[j], script[j + 0])
        /\ \A j \in DOMAIN chain' : j + 0 \in DOMAIN chain /\ Same(chain'[j], chain[j + 0])
    BY <1>2, <2>1, <2>4, <2>7 DEF Same
  <2> QED
    BY <1>1, <2>6, <2>8, LetsGo
<1>5. ASSUME NEW k \in DOMAIN chain, WriteOpens(k)
      PROVE  IInv'
  <2> DEFINE e == [chain[1] EXCEPT !.step = "opened"]
  <2>1. /\ chain' = [chain EXCEPT ![1].step = "opened"] /\ script' = script
        /\ 1 \in DOMAIN chain /\ chain[1].step = "read"
    BY <1>5 DEF WriteOpens, InTurn, cli
  <2>2. chain # <<>>
    BY <1>2, <2>1, EmptySeq
  <2>3. /\ e \in Tasks /\ e.op = chain[1].op /\ e.user = chain[1].user
        /\ e.list = chain[1].list /\ e.step = "opened" /\ chain' = [chain EXCEPT ![1] = e]
    BY <1>2, <1>3, <2>1, <2>2
  <2> HIDE DEF e
  <2>4. /\ chain' \in Seq(Tasks) /\ DOMAIN chain' = DOMAIN chain /\ chain'[1] = e
        /\ \A j \in DOMAIN chain : j # 1 => chain'[j] = chain[j]
    BY <1>2, <2>2, <2>3, FirstReplaced
  <2>5. \A j \in DOMAIN chain' : j > 1 => chain'[j].step = "waiting"
    BY <1>2, <2>4 DEF TypeOK
  <2>6. TypeOK'
    BY <1>1, <1>2, <2>1, <2>4, <2>5 DEF TypeOK
  <2>7. \A j \in DOMAIN chain' : Same(chain'[j], chain[j])
    BY <2>1, <2>3, <2>4 DEF Same
  <2>8. /\ \A j \in DOMAIN script' : j + 0 \in DOMAIN script /\ Same(script'[j], script[j + 0])
        /\ \A j \in DOMAIN chain' : j + 0 \in DOMAIN chain /\ Same(chain'[j], chain[j + 0])
    BY <1>2, <2>1, <2>4, <2>7 DEF Same
  <2> QED
    BY <1>1, <2>6, <2>8, LetsGo
<1> QED
  BY <1>4, <1>5

LEMMA WriteLandsInv ==
  ASSUME IInv, NEW k \in DOMAIN chain, WriteLands(k)
  PROVE  IInv'
<1> DEFINE c == chain[1]
<1>1. /\ InTurn(k) /\ k = 1 /\ c.step = "opened" /\ chain' = RemoveAt(chain, k)
      /\ file' \in {"whole", "fragment"}
      /\ accounts' = (IF file' = "whole" THEN c.list ELSE {})
      /\ reported' = {u \in reported : u.id # c.user.id} \cup {u \in c.list : u.id = c.user.id}
      /\ UNCHANGED <<process, script, overlapped, calls, faults, ends>>
  BY DEF WriteLands, InTurn, Lands, Landed, cli, counts
<1>2. /\ c \in AllTasks /\ c \in Tasks /\ chain' \in Seq(Tasks) /\ 1 \in DOMAIN chain
      /\ \A j \in DOMAIN chain' :
           /\ j + 1 \in DOMAIN chain /\ chain'[j] = chain[j + 1]
           /\ chain'[j].step = "waiting" /\ j + 1 # 1
      /\ DOMAIN script \subseteq Nat
  BY <1>1, SettledChain, TaskFacts DEF IInv
<1> HIDE DEF c
<1>3. c.list \subseteq Accounts
  BY <1>2 DEF Tasks
<1>4. accounts' \subseteq Accounts /\ reported' \subseteq Accounts
      /\ (file' # "whole" => accounts' = {})
      /\ \A j \in DOMAIN chain' : j > 1 => chain'[j].step = "waiting"
  BY <1>1, <1>2, <1>3 DEF IInv, TypeOK
<1>5. TypeOK'
  BY <1>1, <1>2, <1>4 DEF IInv, TypeOK
<1>6. \A j \in DOMAIN chain' : /\ chain'[j].op = "create" => chain'[j].user.id # c.user.id
                               /\ chain'[j].step # "waiting" => overlapped
  BY <1>2 DEF IInv, Fresh, c
<1>7. \A j \in DOMAIN script' : /\ script'[j].op = "create" => script'[j].user.id # c.user.id
                                /\ script'[j].step # "waiting" => overlapped
  <2>1. \A j \in DOMAIN script : script[j].op = "create" => script[j].user.id # c.user.id
    BY <1>2 DEF IInv, Fresh, c
  <2>2. InHand(chain)
    BY <1>1, <1>2 DEF InHand, c
  <2>3. \A j \in DOMAIN script : script[j].step # "waiting" => overlapped
    BY <2>2 DEF IInv, Apart, InHand
  <2> QED
    BY <1>1, <2>1, <2>3
<1>8. \A j \in DOMAIN script' : j + 0 \in DOMAIN script /\ script'[j] = script[j + 0]
  BY <1>1, <1>2
<1> QED
  BY <1>1, <1>2, <1>5, <1>6, <1>7, <1>8, ListLands

LEMMA ScriptLandsInv ==
  ASSUME IInv, ScriptLands
  PROVE  IInv'
<1> DEFINE c == script[1]
<1>1. /\ script # <<>> /\ c.step = "opened" /\ script' = Tail(script)
      /\ file' \in {"whole", "fragment"}
      /\ accounts' = (IF file' = "whole" THEN c.list ELSE {})
      /\ reported' = {u \in reported : u.id # c.user.id} \cup {u \in c.list : u.id = c.user.id}
      /\ UNCHANGED <<process, chain, overlapped, calls, faults, ends>>
  BY DEF ScriptLands, Lands, Landed, counts
<1>2. /\ TypeOK /\ script \in Seq(Tasks) /\ Len(script) <= 2 /\ DOMAIN chain \subseteq Nat
      /\ \A k \in DOMAIN script : script[k] \in AllTasks /\ script[k] \in Tasks
      /\ \A k \in DOMAIN script : k > 1 => script[k].step = "waiting"
  BY TaskFacts DEF IInv, TypeOK
<1>3. /\ script' \in Seq(Tasks) /\ Len(script') = Len(script) - 1 /\ 1 \in DOMAIN script
      /\ Len(script) \in Nat
      /\ \A j \in DOMAIN script' : /\ j \in Nat /\ j + 1 \in DOMAIN script /\ j + 1 > 1
                                   /\ script'[j] = script[j + 1]
  BY <1>1, <1>2, TailFacts
<1>4. c \in AllTasks /\ c \in Tasks /\ Len(script') <= 2
      /\ \A j \in DOMAIN script' : script'[j].step = "waiting"
  BY <1>2, <1>3
<1> HIDE DEF c
<1>5. c.list \subseteq Accounts
  BY <1>4 DEF Tasks
<1>6. accounts' \subseteq Accounts /\ reported' \subseteq Accounts
      /\ (file' # "whole" => accounts' = {})
  BY <1>1, <1>2, <1>5 DEF TypeOK
<1>7. TypeOK'
  BY <1>1, <1>2, <1>3, <1>4, <1>6 DEF TypeOK
<1>8. \A j \in DOMAIN chain' : /\ j + 0 \in DOMAIN chain /\ chain'[j] = chain[j + 0]
                               /\ chain'[j].op = "create" => chain'[j].user.id # c.user.id
  BY <1>1, <1>2, <1>3 DEF IInv, Fresh, c
<1>9. \A j \in DOMAIN chain' : chain'[j].step # "waiting" => overlapped
  <2>1. InHand(script)
    BY <1>1, <1>3 DEF InHand, c
  <2> QED
    BY <1>1, <2>1 DEF IInv, Apart, InHand
<1>10. \A j \in DOMAIN script' : script'[j].op = "create" => script'[j].user.id # c.user.id
  <2>1. \A j \in DOMAIN script' : j + 1 # 1
    BY <1>3
  <2> QED
    BY <1>3, <2>1 DEF IInv, Fresh, c
<1> QED
  BY <1>1, <1>3, <1>4, <1>7, <1>8, <1>9, <1>10, ListLands

\* What init() decides to write is for nobody.
LEMMA NilFacts ==
         /\ WriteNil.op = "init" /\ WriteNil.step = "read" /\ WriteNil.list = {}
         /\ WriteNil.user = Nobody /\ Unique({})
         /\ WriteNil' = WriteNil /\ Nobody' = Nobody
BY DEF WriteNil, Nobody, Unique

LEMMA NilIsTask == WriteNil \in Tasks
<1>1. Nobody \in Accounts
  BY NamesAssumption, BoundsAssumption DEF Nobody, Accounts, Ids
<1> QED
  BY <1>1 DEF WriteNil, Tasks

LEMMA StartInv ==
  ASSUME IInv, Start
  PROVE  IInv'
<1>1. /\ process' = "initialising"
      /\ UNCHANGED <<file, accounts, script, reported, calls, faults, ends>>
      /\ overlapped' = (overlapped \/ (file = "absent" /\ InHand(script)))
  BY DEF Start, disk, counts
<1>2. CASE file # "absent"
  <2>1. chain' = <<>> /\ overlapped' = overlapped
    BY <1>1, <1>2 DEF Start, IInv, TypeOK
  <2>2. <<>> \in Seq(Tasks) /\ DOMAIN <<>> = {}
    BY EmptySeq
  <2>3. TypeOK'
    BY <1>1, <2>1, <2>2 DEF IInv, TypeOK
  <2> QED
    BY <1>1, <2>1, <2>3, LeavesTasks
<1>3. CASE file = "absent"
  <2> DEFINE w == WriteNil
  <2>1. /\ chain' = <<w>> /\ reported = {} /\ script' = script
    BY <1>1, <1>3 DEF Start, IInv, Filed
  <2>2. /\ w.op = "init" /\ w.step = "read" /\ w.list = {} /\ w.user = Nobody
        /\ Unique({}) /\ Nobody' = Nobody /\ w \in Tasks
    BY NilFacts, NilIsTask
  <2> HIDE DEF w
  <2>3. /\ chain' \in Seq(Tasks) /\ DOMAIN chain' = {1} /\ chain'[1] = w
    BY <2>1, <2>2
  <2>4. TypeOK'
    BY <1>1, <2>3 DEF IInv, TypeOK
  <2>5. \A s \in AllTasks' : s \in AllTasks \/ s = w
    BY <2>1, <2>3 DEF AllTasks
  <2>6. Known'
    <3>1. Mentioned' \subseteq Mentioned
      BY <1>1, <2>2, <2>5 DEF Mentioned
    <3> QED
      BY <1>1, <3>1 DEF IInv, Known
  <2>7. Fresh'
    <3>1. ASSUME NEW k \in DOMAIN script', script'[k].op = "create"
          PROVE  /\ \A u \in reported' \cup {Nobody} : u.id # script'[k].user.id
                 /\ \A j \in DOMAIN script' : j # k => script'[j].user.id # script'[k].user.id
                 /\ \A j \in DOMAIN chain' : chain'[j].user.id # script'[k].user.id
      <4>1. /\ \A u \in reported \cup {Nobody} : u.id # script[k].user.id
            /\ \A j \in DOMAIN script : j # k => script[j].user.id # script[k].user.id
        BY <2>1, <3>1 DEF IInv, Fresh
      <4> QED
        BY <1>1, <2>2, <2>3, <4>1
    <3>2. \A s \in AllTasks' : s.op = "init" => s.step # "waiting"
      BY <2>2, <2>5 DEF IInv, Fresh
    <3> QED
      BY <2>2, <2>3, <3>1, <3>2 DEF Fresh
  <2>8. Apart'
    BY <1>1, <1>3 DEF Apart, InHand
  <2>9. Carried'
    <3>1. overlapped => overlapped'
      BY <1>1
    <3> QED
      BY <1>1, <2>1, <2>2, <2>5, <3>1 DEF IInv, Carried, CoversAll, Unique
  <2>10. Filed'
    BY <1>1 DEF IInv, Filed, CoversAll
  <2> QED
    BY <2>4, <2>6, <2>7, <2>8, <2>9, <2>10 DEF IInv
<1> QED
  BY <1>2, <1>3

LEMMA CountInv ==
  ASSUME IInv, Count
  PROVE  IInv'
<1>1. /\ process' = "starting" /\ (List = {} => calls < MaxCalls)
      /\ reported' = StillReported
      /\ UNCHANGED <<file, accounts, script, overlapped, faults, ends>>
  BY DEF Count, cli, disk
<1>2. reported' \subseteq reported
  BY <1>1 DEF StillReported
<1>3. CASE List # {}
  <2>1. UNCHANGED <<chain, calls>>
    BY <1>3 DEF Count
  <2>2. TypeOK'
    BY <1>1, <1>2, <2>1 DEF IInv, TypeOK
  <2> QED
    BY <1>1, <1>2, <2>1, <2>2, LeavesTasks
<1>4. CASE List = {}
  <2> DEFINE user == NewAccount(Admin)
             t == Task("create", user)
  <2>1. chain' = Append(chain, t) /\ calls' = calls + 1
    BY <1>4 DEF Count, HandOver
  <2>2. user \in Accounts /\ user.id = calls + 1 /\ calls' \in 0..MaxCalls
    BY <1>1, <1>4, <2>1, NamesAssumption, BoundsAssumption
    DEF NewAccount, Accounts, Ids, IInv, TypeOK
  <2> HIDE DEF user
  <2>3. t \in Tasks /\ t.op = "create" /\ t.user = user /\ t.step = "waiting" /\ t.list = {}
    BY <2>2 DEF Tasks, Task
  <2> HIDE DEF t
  <2>4. chain' \in Seq(Tasks) /\ \A k \in DOMAIN chain' : k > 1 => chain'[k].step = "waiting"
    BY <2>1, <2>3, AppendedWaits DEF IInv
  <2>5. TypeOK'
    BY <1>1, <1>2, <2>2, <2>4 DEF IInv, TypeOK
  <2> QED
    BY <1>1, <1>2, <2>1, <2>2, <2>3, <2>5, HandsOver
<1> QED
  BY <1>3, <1>4

\* create-user.js begins, with an account of its own to create.
LEMMA ScriptStartsInv ==
  ASSUME IInv, NEW n \in Names, ScriptStarts(n)
  PROVE  IInv'
<1> DEFINE w == WriteNil
           user == NewAccount(n)
           t == Task("create", user)
<1>1. /\ script = <<>> /\ calls < MaxCalls /\ calls' = calls + 1
      /\ script' = (IF file = "absent" THEN <<w>> ELSE <<>>) \o <<t>>
      /\ overlapped' = (overlapped \/ (file = "absent" /\ InHand(chain)))
      /\ UNCHANGED <<process, chain, file, accounts, reported, faults, ends>>
  BY DEF ScriptStarts, disk
<1>2. /\ TypeOK /\ calls \in Nat /\ Mentioned \subseteq Accounts
      /\ \A k \in DOMAIN chain : chain[k] \in AllTasks /\ chain[k].user \in Mentioned
      /\ \A u \in reported \cup {Nobody} : u \in Mentioned
  BY TaskFacts DEF IInv, Mentioned
<1>3. /\ user \in Accounts /\ user.id = calls + 1 /\ user.username = n
      /\ calls + 1 \in 0..MaxCalls
  BY <1>1, <1>2, BoundsAssumption DEF NewAccount, Accounts, Ids
<1> HIDE DEF user
<1>4. t \in Tasks /\ t.op = "create" /\ t.user = user /\ t.step = "waiting" /\ t.list = {}
  BY <1>3 DEF Tasks, Task
<1>5. /\ w.op = "init" /\ w.step = "read" /\ w.list = {} /\ w.user = Nobody
      /\ Unique({}) /\ Nobody' = Nobody /\ w \in Tasks
  BY NilFacts, NilIsTask
<1> HIDE DEF t, w
<1>6. \A u \in Mentioned : u.id <= calls /\ u.id # calls + 1
  <2>1. \A u \in Mentioned : u.id <= calls /\ u.id \in Nat
    BY <1>2, BoundsAssumption DEF IInv, Known, Accounts, Ids
  <2> QED
    BY <1>2, <2>1
<1>7. \/ script' = <<t>>
      \/ /\ script' \in Seq(Tasks) /\ Len(script') = 2 /\ DOMAIN script' = {1, 2}
         /\ script'[1] = w /\ script'[2] = t /\ file = "absent"
  <2>1. CASE file # "absent"
    <3>1. <<>> \o <<t>> = <<t>>
      BY <1>4, ConcatEmptySeq
    <3> QED
      BY <1>1, <2>1, <3>1
  <2>2. CASE file = "absent"
    <3>1. /\ <<w>> \in Seq(Tasks) /\ <<t>> \in Seq(Tasks)
          /\ Len(<<w>>) = 1 /\ Len(<<t>>) = 1 /\ <<w>>[1] = w /\ <<t>>[1] = t
      BY <1>4, <1>5
    <3>2. script' = <<w>> \o <<t>>
      BY <1>1, <2>2
    <3>3. /\ script' \in Seq(Tasks) /\ Len(script') = 1 + 1
          /\ script'[1] = w /\ script'[1 + 1] = t
      BY <3>1, <3>2, ConcatProperties
    <3>4. DOMAIN script' = 1..2
      BY <3>3, LenProperties
    <3> QED
      BY <2>2, <3>3, <3>4
  <2> QED
    BY <2>1, <2>2
<1>8. /\ script' \in Seq(Tasks) /\ Len(script') <= 2
      /\ \A k \in DOMAIN script' :
           /\ script'[k] = t \/ (script'[k] = w /\ file = "absent")
           /\ k > 1 => script'[k].step = "waiting"
           /\ \A j \in DOMAIN script' : j # k => script'[j] = w \/ script'[k] = w
  <2>1. CASE script' = <<t>>
    <3>1. /\ script' \in Seq(Tasks) /\ Len(script') = 1 /\ DOMAIN script' = {1}
          /\ script'[1] = t
      BY <1>4, <2>1
    <3> QED
      BY <3>1
  <2>2. CASE script' # <<t>>
    <3>1. /\ script' \in Seq(Tasks) /\ Len(script') = 2 /\ DOMAIN script' = {1, 2}
          /\ script'[1] = w /\ script'[2] = t /\ file = "absent"
      BY <1>7, <2>2
    <3> QED
      BY <1>4, <3>1
  <2> QED
    BY <2>1, <2>2
<1>9. TypeOK'
  BY <1>1, <1>2, <1>3, <1>8 DEF TypeOK
<1>10. \A s \in AllTasks' : s \in AllTasks \/ s = t \/ (s = w /\ file = "absent")
  BY <1>1, <1>8 DEF AllTasks
<1>11. Known'
  <2>1. \A u \in Mentioned' : u \in Mentioned \cup {user}
    <3>1. \A s \in AllTasks' : s.user \in Mentioned \cup {user} /\ s.list \subseteq Mentioned
      BY <1>2, <1>4, <1>5, <1>10 DEF Mentioned
    <3>2. \A u \in {Nobody'} \cup accounts' \cup reported' : u \in Mentioned
      BY <1>1, <1>5 DEF Mentioned
    <3> QED
      BY <3>1, <3>2 DEF Mentioned
  <2>2. {user} \in SUBSET Accounts
    BY <1>3
  <2> QED
    BY <1>1, <1>2, <1>3, <2>1, <2>2, KnownShadow DEF IInv
<1>12. Fresh'
  <2>1. ASSUME NEW k \in DOMAIN chain', chain'[k].op = "create"
        PROVE  /\ \A u \in reported' \cup {Nobody} : u.id # chain'[k].user.id
               /\ \A j \in DOMAIN chain' : j # k => chain'[j].user.id # chain'[k].user.id
               /\ \A j \in DOMAIN script' : script'[j].user.id # chain'[k].user.id
    <3>1. /\ \A u \in reported \cup {Nobody} : u.id # chain[k].user.id
          /\ \A j \in DOMAIN chain : j # k => chain[j].user.id # chain[k].user.id
      BY <1>1, <2>1 DEF IInv, Fresh
    <3>2. chain[k].user.id # user.id
      BY <1>1, <1>2, <1>3, <1>6
    <3> QED
      BY <1>1, <1>4, <1>5, <1>8, <3>1, <3>2
  <2>2. ASSUME NEW k \in DOMAIN script', script'[k].op = "create"
        PROVE  /\ \A u \in reported' \cup {Nobody} : u.id # script'[k].user.id
               /\ \A j \in DOMAIN script' : j # k => script'[j].user.id # script'[k].user.id
               /\ \A j \in DOMAIN chain' : chain'[j].user.id # script'[k].user.id
    <3>1. script'[k] = t
      BY <1>5, <1>8, <2>2
    <3>2. /\ \A u \in reported \cup {Nobody} : u.id # user.id
          /\ \A j \in DOMAIN chain : chain[j].user.id # user.id
      BY <1>2, <1>3, <1>6
    <3>3. \A j \in DOMAIN script' : j # k => script'[j] = w
      BY <1>4, <1>5, <1>8, <3>1
    <3> QED
      BY <1>1, <1>4, <1>5, <3>1, <3>2, <3>3
  <2>3. \A s \in AllTasks' : s.op = "init" => s.step # "waiting"
    BY <1>4, <1>5, <1>10 DEF IInv, Fresh
  <2> QED
    BY <1>5, <2>1, <2>2, <2>3 DEF Fresh
<1>13. Apart'
  <2>1. file # "absent" => ~InHand(script)'
    BY <1>4, <1>8 DEF InHand
  <2> QED
    BY <1>1, <2>1 DEF Apart, InHand
<1>14. Carried'
  <2>1. file = "absent" => reported' = {}
    BY <1>1 DEF IInv, Filed
  <2>2. overlapped => overlapped'
    BY <1>1
  <2> QED
    BY <1>1, <1>4, <1>5, <1>10, <2>1, <2>2 DEF IInv, Carried, CoversAll, Unique
<1>15. Filed'
  BY <1>1 DEF IInv, Filed, CoversAll
<1> QED
  BY <1>9, <1>11, <1>12, <1>13, <1>14, <1>15 DEF IInv

LEMMA NextInv ==
  ASSUME IInv, [Next]_vars
  PROVE  IInv'
<1>1. CASE UNCHANGED vars
  BY <1>1, LivesInv
<1>2. CASE Next
  BY <1>2, CallsInv, ReadsInv, GivesUpInv, OpensInv, WriteLandsInv, LivesInv, StartInv,
     CountInv, ScriptStartsInv, ScriptLandsInv DEF Next
<1> QED
  BY <1>1, <1>2

-----------------------------------------------------------------------------
(* Theorems.                                                               *)

\* The inductive invariant holds in every reachable state.
THEOREM Invariance == Spec => []IInv
<1>1. Init => IInv
  BY InitInv
<1>2. IInv /\ [Next]_vars => IInv'
  BY NextInv
<1> QED
  BY <1>1, <1>2, PTL DEF Spec

\* Type correctness; of a process only the oldest task has a list in hand.
THEOREM TypeCorrect == Spec => []TypeOK
<1>1. IInv => TypeOK
  BY DEF IInv
<1> QED
  BY <1>1, Invariance, PTL

\* No reported account is forgotten, for any number of calls, failures and
\* restarts, until the two processes have lists in hand at once, the empty one
\* that init() will write included, or an empty file was read as a list.
THEOREM AccountsAreKept == Spec => []NoAccountForgotten
<1>1. IInv => NoAccountForgotten
  BY DEF IInv, Filed, CoversAll, Covers, NoAccountForgotten
<1> QED
  BY <1>1, Invariance, PTL

\* No name is given to two accounts, whatever both processes do at once.
THEOREM NamesStayUnique == Spec => []NamesAreUnique
<1>1. IInv => NamesAreUnique
  BY DEF IInv, Filed, Unique, NamesAreUnique
<1> QED
  BY <1>1, Invariance, PTL
=============================================================================
