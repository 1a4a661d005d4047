---------------------------- MODULE FileWalProofs ----------------------------
(***************************************************************************)
(* Proofs about FileWal and StorageBackends, for every finite set of ids,  *)
(* every threshold and every number of records, process ends, cut writes   *)
(* and failures.                                                           *)
(*                                                                         *)
(* The first part is about what is read from a log and from its snapshot,  *)
(* the second about the steps of the chain, the third about the durable    *)
(* log the file implements.  The last sets the tables of StorageBackends   *)
(* beside the file: how queries are answered, and what a step keeps.       *)
(***************************************************************************)
EXTENDS StorageBackends, TLAPS, SequenceTheorems, FunctionTheorems, FiniteSetTheorems,
        WellFoundedInduction

\* The ids a log mentions, their latest records, and where an id is first
\* mentioned: the parts of LatestStates.
Known(p)     == {i \in Ids : Mentions(p, i) # {}}
LatestSet(p) == {[id |-> i, version |-> LatestIn(p, i)] : i \in Known(p)}
Rank(p, r)   == Min(Mentions(p, r.id))

-----------------------------------------------------------------------------
(* Places.                                                                 *)

\* When each element of a finite set comes with those up to it in a total order,
\* their number is its place: the places are those from 1 to the size of the set.
LEMMA Placed ==
  ASSUME NEW T, IsFiniteSet(T), NEW U \in [T -> SUBSET T],
         \A k \in T : k \in U[k],
         \A k, m \in T : m \in U[k] \/ k \in U[m],
         \A k, m \in T : m \in U[k] => U[m] \subseteq U[k],
         \A k, m \in T : m \in U[k] /\ k \in U[m] => k = m
  PROVE  /\ Cardinality(T) \in Nat
         /\ \A k \in T : Cardinality(U[k]) \in 1..Cardinality(T)
         /\ \A k, m \in T : m \in U[k] <=> Cardinality(U[m]) <= Cardinality(U[k])
         /\ \A k, m \in T : Cardinality(U[k]) = Cardinality(U[m]) => k = m
         /\ \A j \in 1..Cardinality(T) : \E k \in T : Cardinality(U[k]) = j
<1> DEFINE n == Cardinality(T)
           P == [k \in T |-> Cardinality(U[k])]
<1>1. n \in Nat
  BY FS_CardinalityType
<1>2. ASSUME NEW k \in T
      PROVE  IsFiniteSet(U[k]) /\ P[k] \in 1..n
  <2>1. U[k] \in SUBSET T /\ k \in U[k]
    OBVIOUS
  <2>2. IsFiniteSet(U[k]) /\ Cardinality(U[k]) <= n
    BY <2>1, FS_Subset
  <2>3. Cardinality(U[k]) \in Nat
    BY <2>2, FS_CardinalityType
  <2>4. Cardinality(U[k]) # 0
    BY <2>1, <2>2, FS_EmptySet
  <2> QED
    BY <1>1, <2>2, <2>3, <2>4
<1>3. ASSUME NEW k \in T, NEW m \in T, m \in U[k]
      PROVE  P[m] <= P[k] /\ (P[m] = P[k] => m = k)
  <2>1. U[m] \in SUBSET U[k] /\ m \in U[m] /\ k \in U[k]
    BY <1>3
  <2>2. IsFiniteSet(U[k])
    BY <1>2
  <2>3. /\ Cardinality(U[m]) <= Cardinality(U[k])
        /\ Cardinality(U[k]) = Cardinality(U[m]) => U[k] = U[m]
    BY <2>1, <2>2, FS_Subset
  <2>4. U[k] = U[m] => m = k
    BY <1>3, <2>1
  <2> QED
    BY <2>3, <2>4
<1>4. ASSUME NEW k \in T, NEW m \in T
      PROVE  /\ m \in U[k] <=> P[m] <= P[k]
             /\ P[k] = P[m] => k = m
  <2>1. P[k] \in Int /\ P[m] \in Int
    BY <1>1, <1>2
  <2>2. m \in U[k] \/ k \in U[m]
    OBVIOUS
  <2>3. k \in U[k]
    OBVIOUS
  <2> HIDE DEF P
  <2> QED
    BY <1>3, <2>1, <2>2, <2>3
<1>5. P \in Injection(T, 1..n)
  <2>1. P \in [T -> 1..n] /\ DOMAIN P = T
    BY <1>2
  <2> HIDE DEF P
  <2> QED
    BY <1>4, <2>1 DEF Injection, IsInjective
<1>6. P \in Surjection(T, 1..n)
  <2>1. IsFiniteSet(1..n) /\ Cardinality(1..n) = n
    BY <1>1, FS_Interval
  <2> QED
    BY <1>5, <2>1, FS_Injection
<1>7. \A j \in 1..n : \E k \in T : P[k] = j
  BY <1>6 DEF Surjection
<1> QED
  BY <1>1, <1>2, <1>4, <1>7

-----------------------------------------------------------------------------
(* Extreme positions.                                                      *)

\* Some positions have a least one.
LEMMA LeastOne ==
  ASSUME NEW T \in SUBSET Nat, T # {}
  PROVE  \E x \in T : \A y \in T : x <= y
<1> DEFINE Less == {p \in Nat \X Nat : p[1] < p[2]}
<1>1. IsWellFoundedOn(Less, Nat)
  BY NatLessThanWellFounded DEF OpToRel
<1>2. PICK x \in T : \A y \in T : <<y, x>> \notin Less
  <2> HIDE DEF Less
  <2> QED
    BY <1>1, WFMin
<1>3. ASSUME NEW y \in T
      PROVE  x <= y
  <2>1. x \in Nat /\ y \in Nat /\ <<y, x>> \notin Less
    BY <1>2
  <2> QED
    BY <2>1
<1> QED
  BY <1>2, <1>3

LEMMA LeastFacts ==
  ASSUME NEW n \in Nat, NEW T \in SUBSET (1..n), T # {}
  PROVE  Min(T) \in T /\ \A y \in T : Min(T) <= y
<1>1. \E x \in T : \A y \in T : x =< y
  <2>1. T \in SUBSET Nat
    OBVIOUS
  <2> QED
    BY <2>1, LeastOne
<1> QED
  BY <1>1 DEF Min

\* And a greatest one: the least, counted from the end.
LEMMA GreatestFacts ==
  ASSUME NEW n \in Nat, NEW T \in SUBSET (1..n), T # {}
  PROVE  Max(T) \in T /\ \A y \in T : y <= Max(T)
<1> DEFINE U == {n - y : y \in T}
<1>1. PICK u \in U : \A v \in U : u <= v
  <2>1. \A y \in T : n - y \in Nat
    OBVIOUS
  <2>2. U \in SUBSET Nat /\ U # {}
    BY <2>1
  <2> HIDE DEF U
  <2> QED
    BY <2>2, LeastOne
<1>2. PICK x \in T : u = n - x
  OBVIOUS
<1>3. ASSUME NEW y \in T
      PROVE  x >= y
  <2>1. n - x <= n - y /\ x \in 1..n /\ y \in 1..n
    BY <1>1, <1>2
  <2> QED
    BY <2>1
<1>4. Max(T) \in T /\ \A y \in T : Max(T) >= y
  BY <1>3 DEF Max
<1> QED
  BY <1>4

\* Appending an element: push() and a write handed to a chain.
LEMMA AppendFacts ==
  ASSUME NEW S, NEW q \in Seq(S), NEW w \in S
  PROVE  /\ Len(q) \in Nat /\ Len(Append(q, w)) = Len(q) + 1
         /\ Append(q, w) \in Seq(S) /\ Append(q, w) # <<>>
         /\ \A i \in 1..Len(q) : Append(q, w)[i] = q[i]
         /\ Append(q, w)[Len(q) + 1] = w
         /\ q # <<>> => Head(Append(q, w)) = Head(q)
BY AppendProperties, HeadTailAppend, LenProperties

-----------------------------------------------------------------------------
(* What is read from a log.                                                *)

\* The positions of a log that mention an id, and the lines at them.
LEMMA MentionsFacts ==
  ASSUME NEW p \in Seq(Lines), NEW i \in Ids
  PROVE  /\ Len(p) \in Nat /\ Mentions(p, i) \in SUBSET (1..Len(p))
         /\ \A k \in 1..Len(p) : p[k] \in Lines
         /\ \A k \in Mentions(p, i) : /\ p[k] \in Records /\ p[k].id = i
                                      /\ p[k].version \in 1..MaxVersions
<1>1. Len(p) \in Nat /\ \A k \in 1..Len(p) : p[k] \in Lines
  BY LenProperties, ElementOfSeq
<1>2. Mentions(p, i) \in SUBSET (1..Len(p))
  BY DEF Mentions
<1>3. ASSUME NEW k \in Mentions(p, i)
      PROVE  p[k] \in Records /\ p[k].id = i /\ p[k].version \in 1..MaxVersions
  <2>1. k \in 1..Len(p) /\ p[k] # Junk /\ p[k].id = i
    BY DEF Mentions
  <2>2. p[k] \in Records
    BY <1>1, <2>1 DEF Lines
  <2> QED
    BY <2>1, <2>2 DEF Records
<1> QED
  BY <1>1, <1>2, <1>3

\* The latest record of an id is the last that is mentioned.
LEMMA LatestFacts ==
  ASSUME NEW p \in Seq(Lines), NEW i \in Ids
  PROVE  /\ LatestIn(p, i) \in 0..MaxVersions
         /\ Mentions(p, i) = {} <=> LatestIn(p, i) = 0
         /\ \A k \in Mentions(p, i) :
              (\A m \in Mentions(p, i) : m <= k) => LatestIn(p, i) = p[k].version
<1> DEFINE M == Mentions(p, i)
<1>1. /\ Len(p) \in Nat /\ M \in SUBSET (1..Len(p))
      /\ \A k \in M : p[k].version \in 1..MaxVersions
  BY MentionsFacts
<1>2. CASE M = {}
  BY <1>2, SizesAssumption DEF LatestIn
<1>3. CASE M # {}
  <2>1. Max(M) \in M /\ \A y \in M : y <= Max(M)
    BY <1>1, <1>3, GreatestFacts
  <2>2. LatestIn(p, i) = p[Max(M)].version
    BY <1>3 DEF LatestIn
  <2>3. ASSUME NEW k \in M, \A m \in M : m <= k
        PROVE  k = Max(M)
    BY <1>1, <2>1, <2>3
  <2>4. LatestIn(p, i) \in 1..MaxVersions
    BY <1>1, <2>1, <2>2
  <2> HIDE DEF M
  <2>5. LatestIn(p, i) \in 0..MaxVersions /\ LatestIn(p, i) # 0
    BY <2>4, SizesAssumption
  <2> QED
    BY <1>3, <2>2, <2>3, <2>5 DEF M
<1> QED
  BY <1>2, <1>3

\* One more line, which mentions the id or does not.
LEMMA AppendedFacts ==
  ASSUME NEW p \in Seq(Lines), NEW x \in Lines, NEW i \in Ids
  PROVE  /\ Append(p, x) \in Seq(Lines) /\ Len(Append(p, x)) = Len(p) + 1
         /\ x # Junk /\ x.id = i => LatestIn(Append(p, x), i) = x.version
         /\ ~ (x # Junk /\ x.id = i) => LatestIn(Append(p, x), i) = LatestIn(p, i)
<1> DEFINE q == Append(p, x)
<1>1. /\ q \in Seq(Lines) /\ Len(q) = Len(p) + 1 /\ Len(p) \in Nat
      /\ \A k \in 1..Len(p) : q[k] = p[k]
      /\ q[Len(p) + 1] = x
  BY AppendFacts
<1> HIDE DEF q
<1>2. ASSUME x # Junk, x.id = i
      PROVE  LatestIn(q, i) = x.version
  <2>1. Len(q) \in Mentions(q, i) /\ \A m \in Mentions(q, i) : m <= Len(q)
    BY <1>1, <1>2 DEF Mentions
  <2> QED
    BY <1>1, <2>1, LatestFacts
<1>3. ASSUME ~ (x # Junk /\ x.id = i)
      PROVE  LatestIn(q, i) = LatestIn(p, i)
  <2>1. Mentions(q, i) = Mentions(p, i)
    BY <1>1, <1>3 DEF Mentions
  <2>2. CASE Mentions(p, i) = {}
    BY <2>1, <2>2 DEF LatestIn
  <2>3. CASE Mentions(p, i) # {}
    <3>1. Mentions(p, i) \in SUBSET (1..Len(p))
      BY DEF Mentions
    <3>2. Max(Mentions(p, i)) \in Mentions(p, i)
      BY <1>1, <2>3, <3>1, GreatestFacts
    <3>3. q[Max(Mentions(p, i))] = p[Max(Mentions(p, i))]
      BY <1>1, <3>1, <3>2
    <3> QED
      BY <2>1, <2>3, <3>3 DEF LatestIn
  <2> QED
    BY <2>2, <2>3
<1> QED
  BY <1>1, <1>2, <1>3 DEF q

-----------------------------------------------------------------------------
(* The latest states of a log.                                             *)

\* LatestStates by its parts.
LEMMA StatesAs ==
  ASSUME NEW p
  PROVE  LatestStates(p) =
           {s \in [1..Cardinality(LatestSet(p)) -> LatestSet(p)] :
              \A k, n \in 1..Cardinality(LatestSet(p)) :
                k < n => Rank(p, s[k]) < Rank(p, s[n])}
BY DEF LatestStates, LatestSet, Known, Rank

\* There are finitely many latest records, one of each id that is mentioned,
\* and each has a rank.
LEMMA LatestSetFacts ==
  ASSUME NEW p \in Seq(Lines)
  PROVE  /\ IsFiniteSet(LatestSet(p)) /\ Cardinality(LatestSet(p)) \in Nat
         /\ LatestSet(p) \in SUBSET Records
         /\ \A r \in LatestSet(p) : /\ r.id \in Known(p) /\ r.version = LatestIn(p, r.id)
                                    /\ Rank(p, r) \in Int
         /\ \A r, q \in LatestSet(p) : r.id = q.id => r = q
<1> DEFINE f == [i \in Known(p) |-> [id |-> i, version |-> LatestIn(p, i)]]
<1>1. IsFiniteSet(Known(p))
  <2>1. Known(p) \in SUBSET Ids
    BY DEF Known
  <2> QED
    BY <2>1, IdsAssumption, FS_Subset
<1>2. f \in Surjection(Known(p), LatestSet(p))
  <2>1. f \in [Known(p) -> LatestSet(p)]
    BY DEF LatestSet
  <2>2. \A r \in LatestSet(p) : \E i \in Known(p) : f[i] = r
    BY DEF LatestSet
  <2> HIDE DEF f
  <2> QED
    BY <2>1, <2>2, Fun_IsSurj
<1> HIDE DEF f
<1>3. IsFiniteSet(LatestSet(p)) /\ Cardinality(LatestSet(p)) \in Nat
  BY <1>1, <1>2, FS_Surjection, FS_CardinalityType
<1>4. ASSUME NEW r \in LatestSet(p)
      PROVE  /\ r \in Records /\ r.id \in Known(p)
             /\ r = [id |-> r.id, version |-> LatestIn(p, r.id)]
             /\ Rank(p, r) \in Int
  <2>1. PICK i \in Known(p) : r = [id |-> i, version |-> LatestIn(p, i)]
    BY DEF LatestSet
  <2>2. i \in Ids /\ Mentions(p, i) # {}
    BY DEF Known
  <2>3. LatestIn(p, i) \in 1..MaxVersions
    <3>1. LatestIn(p, i) \in 0..MaxVersions /\ LatestIn(p, i) # 0
      BY <2>2, LatestFacts
    <3> QED
      BY <3>1, SizesAssumption
  <2>4. Min(Mentions(p, i)) \in Mentions(p, i) /\ Mentions(p, i) \in SUBSET (1..Len(p))
    BY <2>2, MentionsFacts, LeastFacts
  <2>5. Rank(p, r) \in 1..Len(p)
    BY <2>1, <2>4 DEF Rank
  <2> QED
    BY <2>1, <2>2, <2>3, <2>5 DEF Records
<1>5. \A r, q \in LatestSet(p) : r.id = q.id => r = q
  BY <1>4
<1> QED
  BY <1>3, <1>4, <1>5

\* There is a sequence of the latest states of every log.
LEMMA StatesExist ==
  ASSUME NEW p \in Seq(Lines)
  PROVE  LatestStates(p) # {}
<1> DEFINE L == LatestSet(p)
           n == Cardinality(L)
           U == [r \in L |-> {q \in L : Rank(p, q) <= Rank(p, r)}]
<1>1. /\ IsFiniteSet(L) /\ n \in Nat /\ L \in SUBSET Records
      /\ \A r \in L : r.id \in Known(p) /\ Rank(p, r) \in Int
      /\ \A r, q \in L : r.id = q.id => r = q
  BY LatestSetFacts
<1>2. ASSUME NEW r \in L, NEW q \in L, Rank(p, r) = Rank(p, q)
      PROVE  r = q
  <2>1. /\ r.id \in Ids /\ Mentions(p, r.id) # {} /\ q.id \in Ids /\ Mentions(p, q.id) # {}
    BY <1>1 DEF Known
  <2>2. Rank(p, r) \in Mentions(p, r.id) /\ Rank(p, q) \in Mentions(p, q.id)
    <3>1. Len(p) \in Nat /\ Mentions(p, r.id) \in SUBSET (1..Len(p))
                         /\ Mentions(p, q.id) \in SUBSET (1..Len(p))
      BY <2>1, MentionsFacts
    <3> QED
      BY <2>1, <3>1, LeastFacts DEF Rank
  <2>3. r.id = q.id
    BY <1>2, <2>2 DEF Mentions
  <2> QED
    BY <1>1, <2>3
<1>3. /\ U \in [L -> SUBSET L]
      /\ \A r \in L : r \in U[r]
      /\ \A r, q \in L : q \in U[r] <=> Rank(p, q) <= Rank(p, r)
  BY <1>1
<1> HIDE DEF U
<1>4. /\ \A r, q \in L : q \in U[r] \/ r \in U[q]
      /\ \A r, q \in L : q \in U[r] => U[q] \subseteq U[r]
      /\ \A r, q \in L : q \in U[r] /\ r \in U[q] => r = q
  BY <1>1, <1>2, <1>3
<1>5. /\ \A r, q \in L : q \in U[r] <=> Cardinality(U[q]) <= Cardinality(U[r])
      /\ \A r \in L : Cardinality(U[r]) \in 1..n
      /\ \A j \in 1..n : \E r \in L : Cardinality(U[r]) = j
  <2> HIDE DEF L
  <2> QED
    BY <1>1, <1>3, <1>4, Placed
<1> DEFINE s == [j \in 1..n |-> CHOOSE r \in L : Cardinality(U[r]) = j]
<1>6. \A j \in 1..n : s[j] \in L /\ Cardinality(U[s[j]]) = j
  BY <1>5
<1>7. s \in [1..n -> L]
  BY <1>6
<1> HIDE DEF s, L
<1>8. ASSUME NEW k \in 1..n, NEW m \in 1..n, k < m
      PROVE  Rank(p, s[k]) < Rank(p, s[m])
  <2>1. s[k] \in L /\ s[m] \in L /\ ~ (Cardinality(U[s[m]]) <= Cardinality(U[s[k]]))
    BY <1>1, <1>6, <1>8
  <2>2. ~ (Rank(p, s[m]) <= Rank(p, s[k]))
    BY <1>3, <1>5, <2>1
  <2> QED
    BY <1>1, <2>1, <2>2
<1>9. s \in LatestStates(p)
  BY <1>7, <1>8, StatesAs DEF L
<1> QED
  BY <1>9

\* The elements of a sequence are in its states exactly once.
LEMMA StatesRange ==
  ASSUME NEW p \in Seq(Lines), NEW s \in LatestStates(p)
  PROVE  /\ s \in Seq(Records) /\ ToSet(s) = LatestSet(p)
         /\ \A k, m \in 1..Len(s) : s[k] = s[m] => k = m
<1> DEFINE L == LatestSet(p)
           n == Cardinality(L)
<1>1. /\ IsFiniteSet(L) /\ n \in Nat /\ L \in SUBSET Records
      /\ \A r \in L : Rank(p, r) \in Int
  BY LatestSetFacts
<1>2. /\ s \in [1..n -> L]
      /\ \A k, m \in 1..n : k < m => Rank(p, s[k]) < Rank(p, s[m])
  BY StatesAs
<1> HIDE DEF L
<1>3. \A k, m \in 1..n : s[k] = s[m] => k = m
  <2> SUFFICES ASSUME NEW k \in 1..n, NEW m \in 1..n, s[k] = s[m], k # m
               PROVE  FALSE
    OBVIOUS
  <2>1. k < m \/ m < k
    BY <1>1
  <2>2. Rank(p, s[k]) \in Int /\ Rank(p, s[k]) = Rank(p, s[m])
    BY <1>1, <1>2
  <2> QED
    BY <1>2, <2>1, <2>2
<1>4. s \in Injection(1..n, L)
  BY <1>2, <1>3 DEF Injection, IsInjective
<1>5. IsFiniteSet(1..n) /\ Cardinality(1..n) = n
  BY <1>1, FS_Interval
<1>6. s \in Surjection(1..n, L)
  BY <1>1, <1>4, <1>5, FS_Injection
<1>7. \A r \in L : \E k \in 1..n : s[k] = r
  BY <1>6 DEF Surjection
<1>8. s \in Seq(Records) /\ Len(s) = n
  <2>1. s \in [1..n -> Records]
    BY <1>1, <1>2
  <2> QED
    BY <1>1, <2>1
<1>9. ToSet(s) = L
  BY <1>2, <1>7 DEF ToSet
<1> QED
  BY <1>3, <1>8, <1>9 DEF L

\* A sequence of latest states is a log itself, from which the same is read as
\* from the log it was made of, records and order.
LEMMA StatesFacts ==
  ASSUME NEW p \in Seq(Lines), NEW s \in LatestStates(p)
  PROVE  /\ s \in Seq(Records) /\ s \in Seq(Lines)
         /\ \A i \in Ids : LatestIn(s, i) = LatestIn(p, i)
         /\ LatestStates(s) = LatestStates(p)
<1> DEFINE L == LatestSet(p)
           n == Cardinality(L)
<1>1. /\ IsFiniteSet(L) /\ n \in Nat /\ L \in SUBSET Records
      /\ \A r \in L : r.id \in Known(p) /\ r.version = LatestIn(p, r.id) /\ Rank(p, r) \in Int
      /\ \A r, q \in L : r.id = q.id => r = q
  BY LatestSetFacts
<1>2. /\ s \in [1..n -> L]
      /\ \A k, m \in 1..n : k < m => Rank(p, s[k]) < Rank(p, s[m])
  BY StatesAs
<1> HIDE DEF n, L
<1>3. \A r \in L : \E k \in 1..n : s[k] = r
  <2>1. ToSet(s) = L
    BY StatesRange DEF L
  <2> QED
    BY <1>2, <2>1 DEF ToSet
<1>4. /\ s \in Seq(Records) /\ s \in Seq(Lines) /\ Len(s) = n
      /\ \A k \in 1..n : s[k] \in L /\ s[k] \in Records /\ s[k] # Junk
  <2>1. s \in [1..n -> Records] /\ \A k \in 1..n : s[k] \in L
    BY <1>1, <1>2
  <2>2. s \in Seq(Records) /\ Len(s) = n
    BY <1>1, <2>1
  <2>3. s \in Seq(Lines)
    BY <1>1, <2>1 DEF Lines
  <2>4. Junk \notin Records
    BY MarksAssumption
  <2> QED
    BY <2>1, <2>2, <2>3, <2>4
<1>5. ASSUME NEW r \in L, NEW k \in 1..n, s[k] = r
      PROVE  Mentions(s, r.id) = {k} /\ r.id \in Ids /\ Rank(s, r) = k
  <2>1. \A m \in 1..n : s[m].id = r.id => s[m] = r
    BY <1>1, <1>4
  <2>2. \A m \in 1..n : s[m] = r => m = k
    <3> SUFFICES ASSUME NEW m \in 1..n, s[m] = r
                 PROVE  m = k
      OBVIOUS
    <3>1. ~ (k < m) /\ ~ (m < k)
      BY <1>1, <1>2, <1>5
    <3> QED
      BY <1>1, <3>1
  <2>3. Mentions(s, r.id) = {k}
    BY <1>4, <1>5, <2>1, <2>2 DEF Mentions
  <2>4. Min({k}) \in {k}
    <3>1. {k} \in SUBSET (1..n) /\ {k} # {}
      OBVIOUS
    <3> QED
      BY <1>1, <3>1, LeastFacts
  <2>5. r.id \in Ids
    BY <1>1 DEF Known
  <2> QED
    BY <2>3, <2>4, <2>5 DEF Rank
<1>6. ASSUME NEW i \in Known(p)
      PROVE  /\ i \in Ids /\ i \in Known(s)
             /\ LatestIn(s, i) = LatestIn(p, i)
  <2>1. [id |-> i, version |-> LatestIn(p, i)] \in L /\ i \in Ids
    BY DEF L, LatestSet, Known
  <2>2. PICK k \in 1..n : s[k] = [id |-> i, version |-> LatestIn(p, i)]
    BY <1>3, <2>1
  <2>3. Mentions(s, i) = {k}
    BY <1>5, <2>1, <2>2
  <2>4. LatestIn(s, i) = s[k].version
    <3>1. k \in Mentions(s, i) /\ \A m \in Mentions(s, i) : m <= k
      BY <1>1, <2>3
    <3> QED
      BY <1>4, <2>1, <3>1, LatestFacts
  <2>5. i \in Known(s)
    BY <2>1, <2>3 DEF Known
  <2>6. s[k].version = LatestIn(p, i)
    BY <2>2
  <2> QED
    BY <2>1, <2>4, <2>5, <2>6
<1>7. ASSUME NEW i \in Ids, i \notin Known(p)
      PROVE  i \notin Known(s) /\ LatestIn(s, i) = LatestIn(p, i)
  <2>1. Mentions(p, i) = {}
    BY <1>7 DEF Known
  <2>2. Mentions(s, i) = {}
    BY <1>1, <1>4, <1>7 DEF Mentions
  <2> QED
    BY <2>1, <2>2 DEF Known, LatestIn
<1>8. \A i \in Ids : LatestIn(s, i) = LatestIn(p, i)
  BY <1>6, <1>7
<1>9. LatestSet(s) = L
  <2>1. Known(s) = Known(p)
    <3>1. Known(s) \in SUBSET Ids /\ Known(p) \in SUBSET Ids
      BY DEF Known
    <3> QED
      BY <3>1, <1>6, <1>7
  <2>2. \A i \in Known(p) : LatestIn(s, i) = LatestIn(p, i)
    BY <1>6
  <2> QED
    BY <2>1, <2>2 DEF LatestSet, L
<1>10. ASSUME NEW r \in L, NEW q \in L
       PROVE  Rank(s, r) < Rank(s, q) <=> Rank(p, r) < Rank(p, q)
  <2>1. PICK k \in 1..n : s[k] = r
    BY <1>3
  <2>2. PICK m \in 1..n : s[m] = q
    BY <1>3
  <2>3. Rank(s, r) = k /\ Rank(s, q) = m
    BY <1>5, <2>1, <2>2
  <2>4. Rank(p, r) \in Int /\ Rank(p, q) \in Int
    BY <1>1
  <2>5. /\ k < m => Rank(p, r) < Rank(p, q)
        /\ m < k => Rank(p, q) < Rank(p, r)
        /\ k = m => Rank(p, q) = Rank(p, r)
    BY <1>2, <2>1, <2>2
  <2> QED
    BY <1>1, <2>3, <2>4, <2>5
<1>11. LatestStates(s) = LatestStates(p)
  <2>1. LatestStates(s) = {t \in [1..n -> L] : \A k, m \in 1..n :
                             k < m => Rank(s, t[k]) < Rank(s, t[m])}
    BY <1>9, StatesAs DEF n
  <2>2. LatestStates(p) = {t \in [1..n -> L] : \A k, m \in 1..n :
                             k < m => Rank(p, t[k]) < Rank(p, t[m])}
    BY StatesAs DEF n, L
  <2>3. ASSUME NEW t \in [1..n -> L], NEW k \in 1..n, NEW m \in 1..n
        PROVE  Rank(s, t[k]) < Rank(s, t[m]) <=> Rank(p, t[k]) < Rank(p, t[m])
    BY <1>10
  <2> QED
    BY <2>1, <2>2, <2>3
<1> QED
  BY <1>4, <1>8, <1>11

-----------------------------------------------------------------------------
(* The inductive invariant.                                                *)

Tasks == Records \cup {Compact}

\* The records of an id are in the chain in the order they were numbered, and
\* none of them has been reported.
InOrder(q, rep, sub) ==
  /\ \A i \in Ids : rep[i] <= sub[i]
  /\ \A k \in 1..Len(q) :
       q[k] # Compact => rep[q[k].id] < q[k].version /\ q[k].version <= sub[q[k].id]
  /\ \A k, m \in 1..Len(q) :
       k < m /\ q[k] # Compact /\ q[m] # Compact /\ q[k].id = q[m].id
         => q[k].version < q[m].version

\* What each phase of the oldest task has left behind.
Staged ==
  /\ ~up => chain = <<>> /\ phase = "waiting"
  /\ phase = "written" => /\ unfinished = Nothing /\ file # <<>>
                          /\ chain # <<>> /\ Head(chain) # Compact
  /\ phase \in {"read", "saved"} => snapshot \in LatestStates(Pieces)
  /\ phase = "renamed" => file = snapshot /\ unfinished = Nothing

\* The lines that have been or are about to be counted.
Lined == lineCount + (IF phase = "written" THEN 1 ELSE 0)

\* The count is that of the whole lines, or one more from a start that counted
\* a last piece.
Counted ==
  /\ unfinished # Nothing => tears >= 1
  /\ up /\ phase # "renamed" => /\ Lined \in {Len(file), Len(file) + 1}
                                /\ Lined > Len(file) => tears >= 1

\* The ids whose last reported record is not in the lines of the file, and what
\* may be lost next: the record that follows an unfinished piece, and the one
\* that has just been written onto one.
Damaged(f, rep) == {i \in Ids : LatestIn(f, i) < rep[i]}
Owed == (IF unfinished # Nothing THEN 1 ELSE 0)
        + (IF phase = "written" /\ file[Len(file)] # Head(chain) THEN 1 ELSE 0)

Bounded ==
  /\ Cardinality(Damaged(file, reported)) + Owed <= tears
  /\ unfinished \in Records => reported[unfinished.id] < unfinished.version

IInv == TypeOK /\ InOrder(chain, reported, submitted) /\ Staged /\ Counted /\ Bounded

-----------------------------------------------------------------------------
(* The chain.                                                              *)

\* A compaction that is queued behind the records disturbs none of them.
LEMMA CompactQueued ==
  ASSUME NEW q \in Seq(Tasks), NEW rep, NEW sub, InOrder(q, rep, sub)
  PROVE  Append(q, Compact) \in Seq(Tasks) /\ InOrder(Append(q, Compact), rep, sub)
<1> DEFINE t == Append(q, Compact)
<1>1. /\ t \in Seq(Tasks) /\ Len(t) = Len(q) + 1 /\ Len(q) \in Nat
      /\ \A k \in 1..Len(q) : t[k] = q[k]
      /\ t[Len(q) + 1] = Compact
  BY AppendFacts DEF Tasks
<1> HIDE DEF t
<1>2. \A k \in 1..Len(t) : t[k] # Compact => k \in 1..Len(q) /\ t[k] = q[k]
  BY <1>1
<1>3. InOrder(t, rep, sub)
  BY <1>2 DEF InOrder
<1> QED
  BY <1>1, <1>3 DEF t

\* The task at the head leaves the chain, whether or not it is reported.
LEMMA HeadLeaves ==
  ASSUME NEW q \in Seq(Tasks), q # <<>>, NEW rep \in [Ids -> Nat], NEW sub \in [Ids -> Nat],
         InOrder(q, rep, sub)
  PROVE  /\ Tail(q) \in Seq(Tasks) /\ InOrder(Tail(q), rep, sub)
         /\ \A r \in Records :
              Head(q) = r => /\ rep[r.id] < r.version
                             /\ InOrder(Tail(q), [rep EXCEPT ![r.id] = r.version], sub)
<1> DEFINE t == Tail(q)
<1>1. /\ t \in Seq(Tasks) /\ Len(t) = Len(q) - 1 /\ Len(q) \in Nat \ {0}
      /\ Head(q) = q[1]
      /\ \A k \in 1..Len(t) : k + 1 \in 1..Len(q) /\ t[k] = q[k + 1]
  <2>1. Len(q) \in Nat \ {0}
    BY EmptySeq
  <2>2. /\ Head(q) = q[1] /\ t \in Seq(Tasks) /\ Len(t) = Len(q) - 1
        /\ \A k \in 1..Len(t) : t[k] = q[k + 1]
    BY HeadTailProperties
  <2> HIDE DEF t
  <2> QED
    BY <2>1, <2>2
<1> HIDE DEF t
<1>2. InOrder(t, rep, sub)
  <2>1. ASSUME NEW k \in 1..Len(t), NEW m \in 1..Len(t), k < m
        PROVE  k + 1 < m + 1
    BY <1>1, <2>1
  <2> QED
    BY <1>1, <2>1 DEF InOrder
<1>3. ASSUME NEW r \in Records, Head(q) = r
      PROVE  rep[r.id] < r.version /\ InOrder(t, [rep EXCEPT ![r.id] = r.version], sub)
  <2> DEFINE new == [rep EXCEPT ![r.id] = r.version]
  <2>1. r # Compact /\ 1 \in 1..Len(q) /\ q[1] = r
    BY <1>1, <1>3, MarksAssumption
  <2>2. r.id \in Ids /\ new[r.id] = r.version /\ \A i \in Ids : i # r.id => new[i] = rep[i]
    BY DEF Records
  <2>3. rep[r.id] < r.version /\ r.version <= sub[r.id]
    BY <2>1 DEF InOrder
  <2> HIDE DEF new
  <2>4. \A i \in Ids : new[i] <= sub[i]
    BY <2>2, <2>3 DEF InOrder
  <2>5. ASSUME NEW k \in 1..Len(t), t[k] # Compact
        PROVE  new[t[k].id] < t[k].version /\ t[k].version <= sub[t[k].id]
    <3>1. /\ rep[t[k].id] < t[k].version /\ t[k].version <= sub[t[k].id]
      BY <1>2, <2>5 DEF InOrder
    <3>2. k + 1 \in 1..Len(q) /\ 1 < k + 1 /\ t[k] = q[k + 1]
      BY <1>1
    <3>3. t[k].id = r.id => r.version < t[k].version
      BY <2>1, <2>5, <3>2 DEF InOrder
    <3>4. t[k].id \in Ids
      <4>1. t[k] \in Records
        BY <1>1, <2>5, ElementOfSeq DEF Tasks
      <4> QED
        BY <4>1 DEF Records
    <3> QED
      BY <2>2, <3>1, <3>3, <3>4
  <2>6. InOrder(t, new, sub)
    BY <1>2, <2>4, <2>5 DEF InOrder
  <2> QED
    BY <2>3, <2>6 DEF new
<1> QED
  BY <1>1, <1>2, <1>3 DEF t

\* A record that is handed over is the latest of its id.
LEMMA RecordQueued ==
  ASSUME NEW q \in Seq(Tasks), NEW rep \in [Ids -> Nat], NEW sub \in [Ids -> Nat],
         InOrder(q, rep, sub), NEW i \in Ids, NEW r \in Records,
         r = [id |-> i, version |-> sub[i] + 1]
  PROVE  /\ Append(q, r) \in Seq(Tasks)
         /\ InOrder(Append(q, r), rep, [sub EXCEPT ![i] = @ + 1])
<1> DEFINE t == Append(q, r)
           new == [sub EXCEPT ![i] = @ + 1]
<1>1. /\ t \in Seq(Tasks) /\ Len(t) = Len(q) + 1 /\ Len(q) \in Nat
      /\ \A k \in 1..Len(q) : t[k] = q[k]
      /\ t[Len(q) + 1] = r
  BY AppendFacts DEF Tasks
<1>2. new[i] = sub[i] + 1 /\ \A j \in Ids : j # i => new[j] = sub[j]
  OBVIOUS
<1> HIDE DEF t, new
<1>3. ASSUME NEW j \in Ids
      PROVE  rep[j] <= new[j] /\ sub[j] <= new[j]
  <2>1. rep[j] \in Nat /\ sub[j] \in Nat /\ rep[j] <= sub[j]
    BY DEF InOrder
  <2>2. new[j] = sub[j] \/ new[j] = sub[j] + 1
    BY <1>2
  <2> QED
    BY <2>1, <2>2
<1>4. ASSUME NEW k \in 1..Len(q), q[k] # Compact
      PROVE  /\ rep[q[k].id] < q[k].version /\ q[k].version <= new[q[k].id]
             /\ q[k].id = i => q[k].version < r.version
  <2>1. q[k].id \in Ids /\ q[k].version \in Int
    <3>1. q[k] \in Records
      BY <1>4, ElementOfSeq DEF Tasks
    <3> QED
      BY <3>1 DEF Records
  <2>2. rep[q[k].id] < q[k].version /\ q[k].version <= sub[q[k].id]
    BY <1>4 DEF InOrder
  <2>3. r.version = sub[i] + 1
    OBVIOUS
  <2> QED
    BY <1>2, <1>3, <2>1, <2>2, <2>3
<1>5. r.id = i /\ rep[i] < r.version /\ r.version <= new[i]
  BY <1>2 DEF InOrder
<1>6. ASSUME NEW k \in 1..Len(t), t[k] # Compact
      PROVE  rep[t[k].id] < t[k].version /\ t[k].version <= new[t[k].id]
  BY <1>1, <1>4, <1>5, <1>6
<1>7. ASSUME NEW k \in 1..Len(t), NEW m \in 1..Len(t), k < m,
             t[k] # Compact, t[m] # Compact, t[k].id = t[m].id
      PROVE  t[k].version < t[m].version
  <2>1. k \in 1..Len(q) /\ t[k] = q[k]
    BY <1>1, <1>7
  <2>2. CASE m = Len(q) + 1
    BY <1>1, <1>4, <1>5, <1>7, <2>1, <2>2
  <2>3. CASE m \in 1..Len(q)
    BY <1>1, <1>7, <2>1, <2>3 DEF InOrder
  <2> QED
    BY <1>1, <2>2, <2>3
<1>8. InOrder(t, rep, new)
  BY <1>3, <1>6, <1>7 DEF InOrder
<1> QED
  BY <1>1, <1>8 DEF t, new

-----------------------------------------------------------------------------
(* The steps.                                                              *)

LEMMA InitInvariant == Init => IInv
<1> SUFFICES ASSUME Init PROVE IInv
  OBVIOUS
<1>1. TypeOK
  BY SizesAssumption, EmptySeq DEF Init, TypeOK, Phases
<1>2. Len(chain) = 0 /\ Len(file) = 0 /\ 1..0 = {}
  BY EmptySeq DEF Init
<1>3. InOrder(chain, reported, submitted)
  BY <1>2 DEF Init, InOrder
<1>4. Staged /\ Counted
  BY <1>2 DEF Init, Staged, Counted, Lined
<1>5. Damaged(file, reported) = {}
  <2>1. \A i \in Ids : reported[i] = 0 /\ LatestIn(file, i) \in 0..MaxVersions
    BY <1>1, LatestFacts DEF Init, TypeOK
  <2>2. \A i \in Ids : ~ (LatestIn(file, i) < reported[i])
    BY <2>1, SizesAssumption
  <2> QED
    BY <2>2 DEF Damaged
<1>6. Owed = 0 /\ Nothing \notin Records
  BY MarksAssumption DEF Init, Owed
<1>7. Bounded
  <2>1. Cardinality(Damaged(file, reported)) = 0
    BY <1>5, FS_EmptySet
  <2>2. unfinished \notin Records /\ tears = 0
    BY <1>6 DEF Init
  <2> QED
    BY <1>6, <2>1, <2>2 DEF Bounded
<1> QED
  BY <1>1, <1>3, <1>4, <1>7 DEF IInv

\* The chain and the counts of records are of their types, seen as naturals.
LEMMA Numbers ==
  ASSUME TypeOK
  PROVE  /\ chain \in Seq(Tasks)
         /\ reported \in [Ids -> Nat] /\ submitted \in [Ids -> Nat]
         /\ \A r \in Records : /\ r # Compact /\ r.id \in Ids /\ r.version \in 1..MaxVersions
                               /\ [reported EXCEPT ![r.id] = r.version]
                                    \in [Ids -> 0..MaxVersions]
<1>1. chain \in Seq(Tasks)
  BY DEF TypeOK, Tasks
<1>2. reported \in [Ids -> Nat] /\ submitted \in [Ids -> Nat]
  BY SizesAssumption DEF TypeOK
<1>3. ASSUME NEW r \in Records
      PROVE  r # Compact /\ r.id \in Ids /\ r.version \in 1..MaxVersions
  BY MarksAssumption DEF Records
<1>4. \A r \in Records : [reported EXCEPT ![r.id] = r.version] \in [Ids -> 0..MaxVersions]
  BY <1>3, SizesAssumption DEF TypeOK
<1> QED
  BY <1>1, <1>2, <1>3, <1>4

\* What the actions share: the types of a task that ends.
LEMMA EndsFacts ==
  ASSUME TypeOK, InOrder(chain, reported, submitted), chain # <<>>, TaskEnds
  PROVE  /\ chain' \in Seq(Tasks) /\ InOrder(chain', reported, submitted)
         /\ phase' = "waiting" /\ snapshot' = <<>> /\ snapshot' \in Seq(Records)
<1>1. chain' = Tail(chain) /\ phase' = "waiting" /\ snapshot' = <<>>
  BY DEF TaskEnds
<1>2. chain \in Seq(Tasks) /\ reported \in [Ids -> Nat] /\ submitted \in [Ids -> Nat]
  BY Numbers
<1> QED
  BY <1>1, <1>2, HeadLeaves, EmptySeq

\* Type correctness and the order of the chain over a step.
LEMMA ChainStep ==
  ASSUME IInv, [Next]_vars
  PROVE  TypeOK' /\ InOrder(chain, reported, submitted)'
<1> USE DEF IInv
<1>n. /\ chain \in Seq(Tasks)
      /\ reported \in [Ids -> Nat] /\ submitted \in [Ids -> Nat]
      /\ \A r \in Records : /\ r # Compact /\ r.id \in Ids /\ r.version \in 1..MaxVersions
                            /\ [reported EXCEPT ![r.id] = r.version]
                                 \in [Ids -> 0..MaxVersions]
  BY Numbers
<1>c. MaxCrashes \in Nat /\ MaxTears \in Nat /\ MaxFaults \in Nat /\ MaxScheduled \in Nat
  BY SizesAssumption
<1>1. ASSUME NEW i \in Ids, Submit(i)
      PROVE  TypeOK' /\ InOrder(chain, reported, submitted)'
  <2> DEFINE r == [id |-> i, version |-> submitted[i] + 1]
  <2>1. r \in Records
    <3>1. submitted[i] \in 0..MaxVersions /\ submitted[i] < MaxVersions /\ MaxVersions \in Nat
      BY <1>1, SizesAssumption DEF TypeOK, Submit
    <3> QED
      BY <3>1 DEF Records
  <2>2. /\ chain' = Append(chain, r)
        /\ submitted' = [submitted EXCEPT ![i] = @ + 1]
        /\ UNCHANGED <<up, phase, snapshot, lineCount, disk, reported, counts>>
    BY <1>1 DEF Submit
  <2>3. chain' \in Seq(Tasks) /\ InOrder(chain', reported, submitted')
    BY <1>n, <2>1, <2>2, RecordQueued
  <2>4. submitted' \in [Ids -> 0..MaxVersions]
    BY <1>1, SizesAssumption DEF TypeOK, Submit
  <2> QED
    BY <2>2, <2>3, <2>4 DEF TypeOK, disk, counts, Tasks
<1>2. ASSUME NEW r \in Records, AppendLands(r)
      PROVE  TypeOK' /\ InOrder(chain, reported, submitted)'
  <2>1. (IF unfinished = Nothing THEN r ELSE Junk) \in Lines
    BY DEF Lines
  <2>2. file' \in Seq(Lines)
    BY <1>2, <2>1, AppendProperties DEF AppendLands, TypeOK
  <2> QED
    BY <1>2, <2>2 DEF AppendLands, TypeOK, counts, Phases
<1>3. ASSUME NEW r \in Records, AppendResolves(r)
      PROVE  TypeOK' /\ InOrder(chain, reported, submitted)'
  <2>1. /\ chain # <<>> /\ Head(chain) = r
        /\ reported' = [reported EXCEPT ![r.id] = r.version]
        /\ chain' = Tail(chain) \/ chain' = Append(Tail(chain), Compact)
        /\ UNCHANGED <<up, disk, submitted, counts>>
        /\ phase' = "waiting" /\ snapshot' = <<>> /\ lineCount' = lineCount + 1
    BY <1>3 DEF AppendResolves, Running
  <2>2. Tail(chain) \in Seq(Tasks) /\ InOrder(Tail(chain), reported', submitted)
    BY <1>n, <2>1, HeadLeaves
  <2>3. chain' \in Seq(Tasks) /\ InOrder(chain', reported', submitted)
    BY <2>1, <2>2, CompactQueued
  <2>4. reported' \in [Ids -> 0..MaxVersions] /\ snapshot' \in Seq(Records)
    BY <1>n, <2>1, EmptySeq
  <2> QED
    BY <2>1, <2>3, <2>4 DEF TypeOK, disk, counts, Tasks, Phases
<1>4. ASSUME NEW r \in Records, AppendFails(r)
      PROVE  TypeOK' /\ InOrder(chain, reported, submitted)'
  <2>1. chain # <<>> /\ TaskEnds
    BY <1>4 DEF AppendFails, Running
  <2>2. /\ chain' \in Seq(Tasks) /\ InOrder(chain', reported, submitted)
        /\ phase' = "waiting" /\ snapshot' \in Seq(Records)
    BY <2>1, EndsFacts
  <2> QED
    BY <1>4, <1>c, <2>2 DEF AppendFails, TypeOK, disk, Tasks, Phases
<1>5. ASSUME NEW r \in Records, AppendTears(r)
      PROVE  TypeOK' /\ InOrder(chain, reported, submitted)'
  <2>1. chain # <<>> /\ TaskEnds
    BY <1>5 DEF AppendTears, Running
  <2>2. /\ chain' \in Seq(Tasks) /\ InOrder(chain', reported, submitted)
        /\ phase' = "waiting" /\ snapshot' \in Seq(Records)
    BY <2>1, EndsFacts
  <2>3. unfinished' \in Lines
    BY <1>5 DEF AppendTears, Torn, Lines
  <2> QED
    BY <1>5, <1>c, <2>2, <2>3 DEF AppendTears, TypeOK, Tasks, Phases
<1>e. ASSUME ProcessEnds, crashes < MaxCrashes
      PROVE  /\ up' \in BOOLEAN /\ chain' \in Seq(Tasks) /\ phase' \in Phases
             /\ snapshot' \in Seq(Records) /\ lineCount' \in Nat /\ crashes' \in 0..MaxCrashes
             /\ UNCHANGED <<submitted, reported, faults, scheduled>>
             /\ InOrder(chain, reported, submitted)'
  <2>1. Len(<<>>) = 0 /\ 1..0 = {} /\ <<>> \in Seq(Tasks) /\ <<>> \in Seq(Records)
    BY EmptySeq
  <2>2. InOrder(<<>>, reported, submitted)
    BY <2>1 DEF InOrder
  <2>3. /\ chain' = <<>> /\ snapshot' = <<>> /\ UNCHANGED <<submitted, reported, faults, scheduled>>
        /\ up' = FALSE /\ phase' = "waiting" /\ lineCount' = 0 /\ crashes' = crashes + 1
    BY <1>e DEF ProcessEnds
  <2>4. InOrder(chain, reported, submitted)'
    BY <2>2, <2>3
  <2>5. crashes' \in 0..MaxCrashes
    BY <1>c, <1>e, <2>3 DEF TypeOK
  <2> QED
    BY <2>1, <2>3, <2>4, <2>5 DEF Phases
<1>6. ASSUME NEW r \in Records, CrashTears(r)
      PROVE  TypeOK' /\ InOrder(chain, reported, submitted)'
  <2>1. unfinished' \in Lines
    BY <1>6 DEF CrashTears, Torn, Lines
  <2>2. ProcessEnds /\ crashes < MaxCrashes /\ tears < MaxTears /\ tears' = tears + 1 /\ file' = file
    BY <1>6 DEF CrashTears
  <2> QED
    BY <1>c, <1>e, <2>1, <2>2 DEF TypeOK, Tasks
<1>7. CASE Schedule
  <2>1. chain' \in Seq(Tasks) /\ InOrder(chain', reported, submitted)
    BY <1>7, <1>n, CompactQueued DEF Schedule
  <2> QED
    BY <1>7, <1>c, <2>1 DEF Schedule, TypeOK, disk, Tasks
<1>8. CASE CompactReads
  <2>1. Pieces \in Seq(Lines)
    BY AppendProperties DEF Pieces, TypeOK
  <2>2. snapshot' \in Seq(Records)
    BY <1>8, <2>1, StatesFacts DEF CompactReads
  <2> QED
    BY <1>8, <2>2 DEF CompactReads, TypeOK, disk, counts, Phases
<1>9. CASE CompactSaves
  BY <1>9 DEF CompactSaves, TypeOK, disk, counts, Phases
<1>10. CASE CompactRenames
  <2>1. snapshot \in Seq(Lines)
    BY DEF TypeOK, Lines
  <2> QED
    BY <1>10, <2>1 DEF CompactRenames, TypeOK, counts, Phases
<1>11. CASE CompactResolves
  <2>1. chain # <<>> /\ TaskEnds
    BY <1>11 DEF CompactResolves, Running
  <2>2. /\ chain' \in Seq(Tasks) /\ InOrder(chain', reported, submitted)
        /\ phase' = "waiting" /\ snapshot' \in Seq(Records)
    BY <2>1, EndsFacts
  <2>3. Len(snapshot) \in Nat
    BY LenProperties DEF TypeOK
  <2> QED
    BY <1>11, <2>2, <2>3 DEF CompactResolves, TypeOK, disk, counts, Tasks, Phases
<1>12. CASE CompactFails
  <2>1. chain # <<>> /\ TaskEnds
    BY <1>12 DEF CompactFails, Running
  <2>2. /\ chain' \in Seq(Tasks) /\ InOrder(chain', reported, submitted)
        /\ phase' = "waiting" /\ snapshot' \in Seq(Records)
    BY <2>1, EndsFacts
  <2> QED
    BY <1>12, <1>c, <2>2 DEF CompactFails, TypeOK, disk, Tasks, Phases
<1>13. CASE Crash
  <2>1. ProcessEnds /\ crashes < MaxCrashes /\ UNCHANGED <<disk, tears>>
    BY <1>13 DEF Crash
  <2> QED
    BY <1>e, <2>1 DEF TypeOK, Tasks, disk
<1>14. CASE Restart
  <2>1. Len(Pieces) \in Nat
    BY AppendProperties, LenProperties DEF Pieces, TypeOK
  <2> QED
    BY <1>14, <2>1 DEF Restart, TypeOK, disk, counts
<1>15. CASE UNCHANGED vars
  BY <1>15 DEF vars, memory, disk, counts, TypeOK
<1> QED
  BY <1>1, <1>2, <1>3, <1>4, <1>5, <1>6, <1>7, <1>8, <1>9, <1>10, <1>11, <1>12, <1>13,
     <1>14, <1>15 DEF Next

\* The stages over a step.
LEMMA StagedStep ==
  ASSUME IInv, [Next]_vars
  PROVE  Staged'
<1> USE DEF IInv
<1>n. /\ chain \in Seq(Tasks)
      /\ \A r \in Records : r # Compact
  BY Numbers
<1>h. ASSUME NEW t \in Tasks
      PROVE  Append(chain, t) # <<>> /\ (chain # <<>> => Head(Append(chain, t)) = Head(chain))
  BY <1>n, AppendFacts
<1>1. ASSUME NEW i \in Ids, Submit(i)
      PROVE  Staged'
  <2> DEFINE r == [id |-> i, version |-> submitted[i] + 1]
  <2>1. r \in Tasks
    <3>1. submitted[i] \in 0..MaxVersions /\ submitted[i] < MaxVersions /\ MaxVersions \in Nat
      BY <1>1, SizesAssumption DEF TypeOK, Submit
    <3> QED
      BY <3>1 DEF Records, Tasks
  <2>2. /\ chain' = Append(chain, r) /\ up
        /\ UNCHANGED <<up, phase, snapshot, disk>>
    BY <1>1 DEF Submit
  <2>3. chain' # <<>> /\ (chain # <<>> => Head(chain') = Head(chain))
    BY <1>h, <2>1, <2>2
  <2> QED
    BY <2>2, <2>3 DEF Staged, disk, Pieces
<1>2. ASSUME NEW r \in Records, AppendLands(r)
      PROVE  Staged'
  <2>1. /\ up' /\ phase' = "written" /\ unfinished' = Nothing
        /\ chain' # <<>> /\ Head(chain') = r
    BY <1>2 DEF AppendLands, Running
  <2>2. file' # <<>>
    <3>1. (IF unfinished = Nothing THEN r ELSE Junk) \in Lines
      BY DEF Lines
    <3>2. file \in Seq(Lines) /\ file' = Append(file, IF unfinished = Nothing THEN r ELSE Junk)
      BY <1>2 DEF AppendLands, TypeOK
    <3> QED
      BY <3>1, <3>2, AppendFacts
  <2> QED
    BY <1>n, <2>1, <2>2 DEF Staged
<1>t. ASSUME up', phase' = "waiting"
      PROVE  Staged'
  BY <1>t DEF Staged
<1>3. ASSUME NEW r \in Records, AppendResolves(r) \/ AppendFails(r) \/ AppendTears(r)
      PROVE  Staged'
  BY <1>3, <1>t DEF AppendResolves, AppendFails, AppendTears, Running, TaskEnds
<1>6. ASSUME NEW r \in Records, CrashTears(r)
      PROVE  Staged'
  BY <1>6 DEF CrashTears, ProcessEnds, Staged
<1>7. CASE Schedule
  <2>1. chain' = Append(chain, Compact) /\ up /\ UNCHANGED <<up, phase, snapshot, disk>>
    BY <1>7 DEF Schedule
  <2>2. chain' # <<>> /\ (chain # <<>> => Head(chain') = Head(chain))
    BY <1>h, <2>1 DEF Tasks
  <2> QED
    BY <2>1, <2>2 DEF Staged, disk, Pieces
<1>8. CASE CompactReads
  BY <1>8 DEF CompactReads, Running, Staged, disk, Pieces
<1>9. CASE CompactSaves
  BY <1>9 DEF CompactSaves, Running, Staged, disk, Pieces
<1>10. CASE CompactRenames
  BY <1>10 DEF CompactRenames, Running, Staged
<1>11. CASE CompactResolves \/ CompactFails
  BY <1>11, <1>t DEF CompactResolves, CompactFails, Running, TaskEnds
<1>13. CASE Crash
  BY <1>13 DEF Crash, ProcessEnds, Staged
<1>14. CASE Restart
  BY <1>14 DEF Restart, Staged
<1>15. CASE UNCHANGED vars
  BY <1>15 DEF vars, memory, disk, Staged, Pieces
<1> QED
  BY <1>1, <1>2, <1>3, <1>6, <1>7, <1>8, <1>9, <1>10, <1>11, <1>13, <1>14, <1>15 DEF Next

\* The count of lines over a step.
LEMMA CountedStep ==
  ASSUME IInv, [Next]_vars
  PROVE  Counted'
<1> USE DEF IInv
<1>n. /\ lineCount \in Nat /\ tears \in Nat /\ Len(file) \in Nat
      /\ file \in Seq(Lines)
  BY SizesAssumption, LenProperties DEF TypeOK
<1>s. ASSUME UNCHANGED <<up, phase, lineCount, file, unfinished, tears>>
      PROVE  Counted'
  BY <1>s DEF Counted, Lined
<1>1. ASSUME NEW i \in Ids, Submit(i)
      PROVE  Counted'
  BY <1>1, <1>s DEF Submit, disk, counts
<1>2. ASSUME NEW r \in Records, AppendLands(r)
      PROVE  Counted'
  <2>1. (IF unfinished = Nothing THEN r ELSE Junk) \in Lines
    BY DEF Lines
  <2>2. /\ Len(file') = Len(file) + 1 /\ UNCHANGED <<up, lineCount, tears>> /\ up
        /\ phase = "waiting" /\ phase' = "written" /\ unfinished' = Nothing
    BY <1>2, <1>n, <2>1, AppendFacts DEF AppendLands, counts, Running
  <2> QED
    BY <1>n, <2>2 DEF Counted, Lined
<1>3. ASSUME NEW r \in Records, AppendResolves(r)
      PROVE  Counted'
  BY <1>3, <1>n DEF AppendResolves, disk, counts, Running, Counted, Lined
<1>4. ASSUME NEW r \in Records, AppendFails(r)
      PROVE  Counted'
  BY <1>4, <1>n DEF AppendFails, TaskEnds, disk, Running, Counted, Lined
<1>5. ASSUME NEW r \in Records, AppendTears(r)
      PROVE  Counted'
  BY <1>5, <1>n DEF AppendTears, TaskEnds, Running, Counted, Lined
<1>6. ASSUME NEW r \in Records, CrashTears(r)
      PROVE  Counted'
  BY <1>6, <1>n DEF CrashTears, ProcessEnds, Counted
<1>7. CASE Schedule
  BY <1>7, <1>s DEF Schedule, disk
<1>8. CASE CompactReads
  BY <1>8, <1>n DEF CompactReads, disk, counts, Running, Counted, Lined
<1>9. CASE CompactSaves
  BY <1>9, <1>n DEF CompactSaves, disk, counts, Running, Counted, Lined
<1>10. CASE CompactRenames
  BY <1>10, <1>n DEF CompactRenames, counts, Running, Counted
<1>11. CASE CompactResolves
  <2>1. /\ file' = snapshot /\ unfinished' = unfinished /\ tears' = tears
        /\ lineCount' = Len(snapshot) /\ phase' = "waiting" /\ unfinished = Nothing
    BY <1>11 DEF CompactResolves, TaskEnds, Running, disk, counts, Staged
  <2>2. Len(snapshot) \in Nat
    BY LenProperties DEF TypeOK
  <2> QED
    BY <2>1, <2>2 DEF Counted, Lined
<1>12. CASE CompactFails
  BY <1>12, <1>n DEF CompactFails, TaskEnds, disk, Running, Counted, Lined
<1>13. CASE Crash
  BY <1>13, <1>n DEF Crash, ProcessEnds, disk, Counted
<1>14. CASE Restart
  <2>1. Len(Pieces) = Len(file) + (IF unfinished = Nothing THEN 0 ELSE 1)
    <3>1. CASE unfinished = Nothing
      BY <1>n, <3>1 DEF Pieces
    <3>2. CASE unfinished # Nothing
      BY <1>n, <3>2, AppendFacts DEF Pieces, TypeOK
    <3> QED
      BY <3>1, <3>2
  <2>2. /\ lineCount' = Len(Pieces) /\ phase' = "waiting"
        /\ UNCHANGED <<file, unfinished, tears>>
    BY <1>14 DEF Restart, disk, counts, Staged
  <2> QED
    BY <1>n, <2>1, <2>2 DEF Counted, Lined
<1>15. CASE UNCHANGED vars
  BY <1>15, <1>s DEF vars, memory, disk, counts
<1> QED
  BY <1>1, <1>2, <1>3, <1>4, <1>5, <1>6, <1>7, <1>8, <1>9, <1>10, <1>11, <1>12, <1>13,
     <1>14, <1>15 DEF Next

\* An id stays damaged or not if no line of it is added and nothing of it is
\* reported; finitely many are.
LEMMA DamagedFacts ==
  ASSUME NEW f, NEW rep
  PROVE  /\ IsFiniteSet(Damaged(f, rep)) /\ Cardinality(Damaged(f, rep)) \in Nat
         /\ \A T \in SUBSET Damaged(f, rep) :
              /\ IsFiniteSet(T) /\ Cardinality(T) \in Nat
              /\ Cardinality(T) <= Cardinality(Damaged(f, rep))
         /\ \A i, T : T \in SUBSET (Damaged(f, rep) \cup {i}) =>
              /\ Cardinality(T) \in Nat
              /\ Cardinality(T) <= Cardinality(Damaged(f, rep)) + 1
<1> DEFINE D == Damaged(f, rep)
<1>1. IsFiniteSet(D) /\ Cardinality(D) \in Nat
  <2>1. D \in SUBSET Ids
    BY DEF Damaged
  <2> QED
    BY <2>1, IdsAssumption, FS_Subset, FS_CardinalityType
<1> HIDE DEF D
<1>2. ASSUME NEW T \in SUBSET D
      PROVE  IsFiniteSet(T) /\ Cardinality(T) \in Nat /\ Cardinality(T) <= Cardinality(D)
  BY <1>1, FS_Subset, FS_CardinalityType
<1>3. ASSUME NEW i, NEW T \in SUBSET (D \cup {i})
      PROVE  Cardinality(T) \in Nat /\ Cardinality(T) <= Cardinality(D) + 1
  <2>1. /\ IsFiniteSet(D \cup {i}) /\ Cardinality(D \cup {i}) \in Nat
        /\ Cardinality(D \cup {i}) <= Cardinality(D) + 1
    BY <1>1, FS_AddElement, FS_CardinalityType
  <2>2. IsFiniteSet(T) /\ Cardinality(T) <= Cardinality(D \cup {i})
    BY <2>1, FS_Subset
  <2>3. Cardinality(T) \in Nat
    BY <2>2, FS_CardinalityType
  <2> QED
    BY <1>1, <2>1, <2>2, <2>3
<1> QED
  BY <1>1, <1>2, <1>3 DEF D

\* What is read when the last piece counts as a line: of no id less.
LEMMA ReadFacts ==
  ASSUME TypeOK, Bounded
  PROVE  /\ Pieces \in Seq(Lines)
         /\ Damaged(Pieces, reported) \in SUBSET Damaged(file, reported)
<1>1. CASE unfinished = Nothing
  BY <1>1 DEF Pieces, TypeOK
<1>2. CASE unfinished # Nothing
  <2>1. unfinished \in Lines /\ file \in Seq(Lines) /\ Pieces = Append(file, unfinished)
    BY <1>2 DEF Pieces, TypeOK
  <2>2. Pieces \in Seq(Lines)
    BY <2>1, AppendProperties
  <2>3. ASSUME NEW i \in Ids, LatestIn(Pieces, i) < reported[i]
        PROVE  LatestIn(file, i) < reported[i]
    <3>1. CASE unfinished # Junk /\ unfinished.id = i
      <4>1. LatestIn(Pieces, i) = unfinished.version
        BY <2>1, <3>1, AppendedFacts
      <4>2. unfinished \in Records
        BY <2>1, <3>1 DEF Lines
      <4>3. reported[i] < unfinished.version /\ unfinished.version \in Int
        BY <3>1, <4>2 DEF Bounded, Records
      <4>4. reported[i] \in Int
        BY Numbers
      <4> QED
        BY <2>3, <4>1, <4>3, <4>4
    <3>2. CASE ~ (unfinished # Junk /\ unfinished.id = i)
      BY <2>1, <2>3, <3>2, AppendedFacts
    <3> QED
      BY <3>1, <3>2
  <2> QED
    BY <2>2, <2>3 DEF Damaged
<1> QED
  BY <1>1, <1>2

\* The number of losses over a step.
LEMMA BoundedStep ==
  ASSUME IInv, [Next]_vars
  PROVE  Bounded'
<1> USE DEF IInv
<1>n. /\ tears \in Nat /\ chain \in Seq(Tasks) /\ reported \in [Ids -> Nat]
      /\ \A r \in Records : r # Compact /\ r.id \in Ids /\ r.version \in 1..MaxVersions
  BY Numbers, SizesAssumption DEF TypeOK
<1>d. Cardinality(Damaged(file, reported)) \in Nat /\ Owed \in 0..2
  BY DamagedFacts DEF Owed
<1>m. Nothing \notin Records /\ Junk \notin Records /\ Junk # Nothing
  BY MarksAssumption
<1>s. ASSUME UNCHANGED <<disk, reported, tears>>,
             phase' = "written" => phase = "written" /\ Head(chain') = Head(chain)
      PROVE  Bounded'
  <2>1. Owed' \in 0..2 /\ Owed' <= Owed
    BY <1>s DEF Owed, disk
  <2>2. Cardinality(Damaged(file, reported))' = Cardinality(Damaged(file, reported))
    BY <1>s DEF disk
  <2> QED
    BY <1>s, <1>n, <1>d, <2>1, <2>2 DEF Bounded, disk
<1>q. ASSUME NEW t \in Tasks, chain' = Append(chain, t), phase' = phase
      PROVE  phase' = "written" => phase = "written" /\ Head(chain') = Head(chain)
  BY <1>n, <1>q, AppendFacts DEF Staged
<1>1. ASSUME NEW i \in Ids, Submit(i)
      PROVE  Bounded'
  <2> DEFINE r == [id |-> i, version |-> submitted[i] + 1]
  <2>1. r \in Tasks
    <3>1. submitted[i] \in 0..MaxVersions /\ submitted[i] < MaxVersions /\ MaxVersions \in Nat
      BY <1>1, SizesAssumption DEF TypeOK, Submit
    <3> QED
      BY <3>1 DEF Records, Tasks
  <2>2. chain' = Append(chain, r) /\ UNCHANGED <<phase, disk, reported, tears>>
    BY <1>1 DEF Submit, counts
  <2> HIDE DEF r
  <2> QED
    BY <2>1, <2>2, <1>q, <1>s
<1>2. ASSUME NEW r \in Records, AppendLands(r)
      PROVE  Bounded'
  <2>1. /\ chain # <<>> /\ Head(chain) = r /\ phase = "waiting" /\ phase' = "written"
        /\ file' = Append(file, IF unfinished = Nothing THEN r ELSE Junk)
        /\ unfinished' = Nothing /\ UNCHANGED <<chain, reported, tears>>
    BY <1>2 DEF AppendLands, Running, counts
  <2>2. reported[r.id] < r.version
    BY <1>n, <2>1, Numbers, HeadLeaves
  <2>3. file \in Seq(Lines) /\ Len(file) \in Nat
    BY LenProperties DEF TypeOK
  <2>4. CASE unfinished = Nothing
    <3>1. file' = Append(file, r) /\ r \in Lines /\ r # Junk
      BY <1>m, <2>1, <2>4 DEF Lines
    <3>2. Damaged(file', reported) \in SUBSET Damaged(file, reported)
      <4> SUFFICES ASSUME NEW i \in Ids, LatestIn(file', i) < reported[i]
                   PROVE  LatestIn(file, i) < reported[i]
        BY DEF Damaged
      <4>1. CASE i = r.id
        <5>1. LatestIn(file', i) = r.version
          BY <2>3, <3>1, <4>1, AppendedFacts
        <5>2. reported[i] < r.version /\ reported[i] \in Int /\ r.version \in Int
          BY <1>n, <2>2, <4>1
        <5> QED
          BY <5>1, <5>2
      <4>2. CASE i # r.id
        BY <2>3, <3>1, <4>2, AppendedFacts
      <4> QED
        BY <4>1, <4>2
    <3>3. file'[Len(file')] = r
      BY <2>3, <3>1, AppendFacts
    <3>4. Owed' = 0
      BY <2>1, <3>3 DEF Owed
    <3>5. /\ Cardinality(Damaged(file', reported)) \in Nat
          /\ Cardinality(Damaged(file', reported)) <= Cardinality(Damaged(file, reported))
      BY <3>2, DamagedFacts
    <3> QED
      BY <1>n, <1>d, <1>m, <2>1, <3>4, <3>5 DEF Bounded
  <2>5. CASE unfinished # Nothing
    <3>1. file' = Append(file, Junk) /\ Junk \in Lines
      BY <2>1, <2>5 DEF Lines
    <3>2. Damaged(file', reported) = Damaged(file, reported)
      <4>1. \A i \in Ids : LatestIn(file', i) = LatestIn(file, i)
        BY <2>3, <3>1, AppendedFacts
      <4> QED
        BY <4>1 DEF Damaged
    <3>3. Owed = 1 /\ Owed' \in 0..1
      BY <2>1, <2>5 DEF Owed
    <3> QED
      BY <1>n, <1>d, <1>m, <2>1, <3>2, <3>3 DEF Bounded
  <2> QED
    BY <2>4, <2>5
<1>3. ASSUME NEW r \in Records, AppendResolves(r)
      PROVE  Bounded'
  <2>1. /\ chain # <<>> /\ Head(chain) = r /\ phase = "written" /\ phase' = "waiting"
        /\ unfinished = Nothing /\ file # <<>>
        /\ reported' = [reported EXCEPT ![r.id] = r.version]
        /\ UNCHANGED <<file, unfinished, tears>>
    BY <1>3 DEF AppendResolves, Running, disk, counts, Staged
  <2>2. /\ Owed' = 0 /\ unfinished' \notin Records
        /\ Owed = IF file[Len(file)] # r THEN 1 ELSE 0
    BY <1>m, <2>1 DEF Owed
  <2>3. Damaged(file, reported') \in SUBSET (Damaged(file, reported) \cup {r.id})
    BY <1>n, <2>1 DEF Damaged
  <2>4. CASE file[Len(file)] # r
    <3>1. /\ Cardinality(Damaged(file, reported')) \in Nat
          /\ Cardinality(Damaged(file, reported')) <= Cardinality(Damaged(file, reported)) + 1
      BY <2>3, DamagedFacts
    <3> QED
      BY <1>n, <1>d, <2>1, <2>2, <2>4, <3>1 DEF Bounded
  <2>5. CASE file[Len(file)] = r
    <3>1. file \in Seq(Lines) /\ Len(file) \in Nat \ {0}
      BY <2>1, EmptySeq, LenProperties DEF TypeOK
    <3>2. Len(file) \in Mentions(file, r.id) /\ \A k \in Mentions(file, r.id) : k <= Len(file)
      BY <1>m, <2>5, <3>1 DEF Mentions
    <3>3. LatestIn(file, r.id) = r.version
      BY <1>n, <2>5, <3>1, <3>2, LatestFacts
    <3>4. r.id \notin Damaged(file, reported')
      BY <1>n, <2>1, <3>3 DEF Damaged
    <3>5. /\ Cardinality(Damaged(file, reported')) \in Nat
          /\ Cardinality(Damaged(file, reported')) <= Cardinality(Damaged(file, reported))
      <4>1. Damaged(file, reported') \in SUBSET Damaged(file, reported)
        BY <2>3, <3>4
      <4> QED
        BY <4>1, DamagedFacts
    <3> QED
      BY <1>n, <1>d, <2>1, <2>2, <2>5, <3>5 DEF Bounded
  <2> QED
    BY <2>4, <2>5
<1>4. ASSUME NEW r \in Records, AppendFails(r)
      PROVE  Bounded'
  BY <1>4, <1>s DEF AppendFails, TaskEnds
<1>5. ASSUME NEW r \in Records, AppendTears(r) \/ CrashTears(r)
      PROVE  Bounded'
  <2>1. /\ chain # <<>> /\ Head(chain) = r /\ phase = "waiting" /\ phase' = "waiting"
        /\ unfinished' \in Torn(r) /\ tears' = tears + 1 /\ UNCHANGED <<file, reported>>
    BY <1>5 DEF AppendTears, CrashTears, ProcessEnds, TaskEnds, Running
  <2>2. reported[r.id] < r.version
    BY <1>n, <2>1, Numbers, HeadLeaves
  <2>3. unfinished' = Junk \/ (unfinished' = r /\ unfinished = Nothing)
    BY <2>1 DEF Torn
  <2>4. Owed' \in 0..1
    BY <2>1 DEF Owed
  <2> QED
    BY <1>n, <1>d, <1>m, <2>1, <2>2, <2>3, <2>4 DEF Bounded
<1>7. CASE Schedule
  <2>1. chain' = Append(chain, Compact) /\ UNCHANGED <<phase, disk, reported, tears>>
    BY <1>7 DEF Schedule
  <2>2. Compact \in Tasks
    BY DEF Tasks
  <2> QED
    BY <2>1, <2>2, <1>q, <1>s
<1>8. CASE CompactReads \/ CompactSaves
  BY <1>8, <1>s DEF CompactReads, CompactSaves, counts
<1>10. CASE CompactRenames
  <2>1. /\ phase = "saved" /\ phase' = "renamed" /\ file' = snapshot /\ unfinished' = Nothing
        /\ UNCHANGED <<reported, tears>> /\ snapshot \in LatestStates(Pieces)
    BY <1>10 DEF CompactRenames, counts, Staged
  <2>2. Pieces \in Seq(Lines) /\ Damaged(Pieces, reported) \in SUBSET Damaged(file, reported)
    BY ReadFacts
  <2>3. \A i \in Ids : LatestIn(file', i) = LatestIn(Pieces, i)
    BY <2>1, <2>2, StatesFacts
  <2>4. Damaged(file', reported) \in SUBSET Damaged(file, reported)
    BY <2>2, <2>3 DEF Damaged
  <2>5. /\ Cardinality(Damaged(file', reported)) \in Nat
        /\ Cardinality(Damaged(file', reported)) <= Cardinality(Damaged(file, reported))
    BY <2>4, DamagedFacts
  <2>6. Owed' = 0
    BY <2>1 DEF Owed
  <2> QED
    BY <1>n, <1>d, <1>m, <2>1, <2>5, <2>6 DEF Bounded
<1>11. CASE CompactResolves \/ CompactFails
  BY <1>11, <1>s DEF CompactResolves, CompactFails, TaskEnds, counts
<1>13. CASE Crash
  BY <1>13, <1>s DEF Crash, ProcessEnds
<1>14. CASE Restart
  BY <1>14, <1>s DEF Restart, counts
<1>15. CASE UNCHANGED vars
  BY <1>15, <1>s DEF vars, memory, counts
<1> QED
  BY <1>1, <1>2, <1>3, <1>4, <1>5, <1>7, <1>8, <1>10, <1>11, <1>13, <1>14, <1>15 DEF Next

-----------------------------------------------------------------------------
(* The writes of a chain.                                                  *)

\* What holds of 0 and goes on from each number to the next holds up to n.
LEMMA Steps ==
  ASSUME NEW n \in Nat, NEW K, 0 \in K, \A k \in 0..(n - 1) : k \in K => k + 1 \in K
  PROVE  0..n \subseteq K
<1> DEFINE T == {k \in 0..n : k \notin K}
<1>1. SUFFICES ASSUME T # {}
               PROVE  FALSE
  OBVIOUS
<1>2. T \in SUBSET Nat
  OBVIOUS
<1> HIDE DEF T
<1>3. PICK x \in T : \A y \in T : x <= y
  BY <1>1, <1>2, LeastOne
<1>4. x \in 0..n /\ x \notin K
  BY DEF T
<1>5. x # 0 /\ x - 1 \in 0..(n - 1) /\ (x - 1) + 1 = x
  BY <1>4
<1>6. x - 1 \in K
  <2>1. ~ (x <= x - 1)
    BY <1>5
  <2>2. x - 1 \notin T
    BY <1>3, <2>1
  <2>3. x - 1 \in 0..n
    BY <1>5
  <2> QED
    BY <2>2, <2>3 DEF T
<1> QED
  BY <1>4, <1>5, <1>6

\* The writes among the first i tasks, for each i up to n.
WritesOf(q, n, f) ==
  f = [i \in 0..n |-> IF i = 0 THEN <<>>
                      ELSE IF q[i] = Compact THEN f[i - 1] ELSE Append(f[i - 1], q[i])]

\* The writes as they are found, task by task.
LEMMA WritesFound ==
  ASSUME NEW q \in Seq(Tasks)
  PROVE  \E f : /\ Writes(q) = f[Len(q)] /\ f[0] = <<>>
                /\ \A i \in 1..Len(q) :
                     f[i] = IF q[i] = Compact THEN f[i - 1] ELSE Append(f[i - 1], q[i])
<1> DEFINE K == {k \in 0..Len(q) : \E f : WritesOf(q, k, f)}
<1>1. Len(q) \in Nat
  BY LenProperties
<1>2. 0 \in K
  <2>1. WritesOf(q, 0, [i \in 0..0 |-> <<>>])
    BY DEF WritesOf
  <2> QED
    BY <1>1, <2>1
<1>3. ASSUME NEW k \in 0..(Len(q) - 1), k \in K
      PROVE  k + 1 \in K
  <2>1. PICK f : WritesOf(q, k, f)
    BY <1>3
  <2> DEFINE next == IF q[k + 1] = Compact THEN f[k] ELSE Append(f[k], q[k + 1])
             g == [i \in 0..(k + 1) |-> IF i <= k THEN f[i] ELSE next]
  <2>2. \A i \in 0..k : f[i] = IF i = 0 THEN <<>>
                               ELSE IF q[i] = Compact THEN f[i - 1] ELSE Append(f[i - 1], q[i])
    BY <2>1, Zenon DEF WritesOf
  <2>3. \A i \in 0..k : g[i] = f[i] /\ (i # 0 => g[i - 1] = f[i - 1])
    BY <1>1
  <2>4. g[k + 1] = next /\ g[(k + 1) - 1] = f[k] /\ k + 1 # 0
    BY <1>1
  <2>5. \A i \in 0..(k + 1) : i \in 0..k \/ i = k + 1
    BY <1>1
  <2>6. ASSUME NEW i \in 0..(k + 1)
        PROVE  g[i] = IF i = 0 THEN <<>>
                      ELSE IF q[i] = Compact THEN g[i - 1] ELSE Append(g[i - 1], q[i])
    <3> HIDE DEF g
    <3>1. CASE i \in 0..k
      BY <2>2, <2>3, <3>1
    <3>2. CASE i = k + 1
      BY <2>4, <3>2
    <3> QED
      BY <2>5, <3>1, <3>2
  <2>7. WritesOf(q, k + 1, g)
    BY <2>6, Zenon DEF WritesOf
  <2> QED
    BY <1>1, <2>7
<1>4. 0..Len(q) \subseteq K
  <2> HIDE DEF K
  <2> QED
    BY <1>1, <1>2, <1>3, Steps
<1>5. Writes(q) = (CHOOSE f : WritesOf(q, Len(q), f))[Len(q)]
  BY DEF Writes, WritesOf
<1>6. PICK f : WritesOf(q, Len(q), f) /\ Writes(q) = f[Len(q)]
  <2>1. \E f : WritesOf(q, Len(q), f)
    BY <1>1, <1>4
  <2> QED
    BY <1>5, <2>1
<1>7. \A i \in 0..Len(q) :
        f[i] = IF i = 0 THEN <<>>
               ELSE IF q[i] = Compact THEN f[i - 1] ELSE Append(f[i - 1], q[i])
  BY <1>6, Zenon DEF WritesOf
<1>8. /\ 0 \in 0..Len(q)
      /\ \A i \in 1..Len(q) : i \in 0..Len(q) /\ i # 0
  BY <1>1
<1>9. f[0] = <<>> /\ \A i \in 1..Len(q) :
        f[i] = IF q[i] = Compact THEN f[i - 1] ELSE Append(f[i - 1], q[i])
  BY <1>7, <1>8
<1> QED
  BY <1>6, <1>9

\* They are records.
LEMMA WritesType ==
  ASSUME NEW q \in Seq(Tasks), NEW f, f[0] = <<>>,
         \A i \in 1..Len(q) :
           f[i] = IF q[i] = Compact THEN f[i - 1] ELSE Append(f[i - 1], q[i])
  PROVE  \A i \in 0..Len(q) : f[i] \in Seq(Records)
<1> DEFINE K == {k \in 0..Len(q) : f[k] \in Seq(Records)}
<1>1. Len(q) \in Nat
  BY LenProperties
<1>2. 0 \in K
  <2>1. <<>> \in Seq(Records) /\ 0 \in 0..Len(q)
    BY <1>1, EmptySeq
  <2> QED
    BY <2>1
<1>3. ASSUME NEW k \in 0..(Len(q) - 1), k \in K
      PROVE  k + 1 \in K
  <2>1. k + 1 \in 1..Len(q) /\ (k + 1) - 1 = k /\ k + 1 \in 0..Len(q)
    BY <1>1
  <2>2. q[k + 1] \in Tasks
    BY <2>1, ElementOfSeq
  <2>3. f[k + 1] = IF q[k + 1] = Compact THEN f[k] ELSE Append(f[k], q[k + 1])
    BY <2>1
  <2>4. f[k] \in Seq(Records)
    BY <1>3
  <2>5. f[k + 1] \in Seq(Records)
    BY <2>2, <2>3, <2>4, AppendProperties DEF Tasks
  <2> QED
    BY <2>1, <2>5
<1> HIDE DEF K
<1>4. 0..Len(q) \subseteq K
  BY <1>1, <1>2, <1>3, Steps
<1> QED
  BY <1>4 DEF K

\* A task that is queued is the last of the writes, unless it is a compaction.
LEMMA WritesQueued ==
  ASSUME NEW q \in Seq(Tasks), NEW x \in Tasks
  PROVE  Writes(Append(q, x)) = IF x = Compact THEN Writes(q) ELSE Append(Writes(q), x)
<1> DEFINE p == Append(q, x)
<1>1. /\ Len(q) \in Nat /\ p \in Seq(Tasks) /\ Len(p) = Len(q) + 1 /\ p[Len(q) + 1] = x
      /\ \A i \in 1..Len(q) : p[i] = q[i]
  BY AppendProperties, LenProperties
<1> HIDE DEF p
<1>2. PICK f : /\ Writes(q) = f[Len(q)] /\ f[0] = <<>>
               /\ \A i \in 1..Len(q) :
                    f[i] = IF q[i] = Compact THEN f[i - 1] ELSE Append(f[i - 1], q[i])
  BY WritesFound
<1>3. PICK g : /\ Writes(p) = g[Len(p)] /\ g[0] = <<>>
               /\ \A i \in 1..Len(p) :
                    g[i] = IF p[i] = Compact THEN g[i - 1] ELSE Append(g[i - 1], p[i])
  BY <1>1, WritesFound
<1> DEFINE K == {k \in 0..Len(q) : f[k] = g[k]}
<1>4. 0 \in K
  BY <1>1, <1>2, <1>3
<1>5. ASSUME NEW k \in 0..(Len(q) - 1), k \in K
      PROVE  k + 1 \in K
  <2>1. k + 1 \in 1..Len(q) /\ k + 1 \in 1..Len(p) /\ (k + 1) - 1 = k /\ k + 1 \in 0..Len(q)
    BY <1>1
  <2>2. p[k + 1] = q[k + 1] /\ f[k] = g[k]
    BY <1>1, <1>5, <2>1
  <2>3. f[k + 1] = IF q[k + 1] = Compact THEN f[k] ELSE Append(f[k], q[k + 1])
    BY <1>2, <2>1
  <2>4. g[k + 1] = IF p[k + 1] = Compact THEN g[k] ELSE Append(g[k], p[k + 1])
    BY <1>3, <2>1
  <2> QED
    BY <2>1, <2>2, <2>3, <2>4
<1> HIDE DEF K
<1>6. 0..Len(q) \subseteq K
  BY <1>1, <1>4, <1>5, Steps
<1>7. f[Len(q)] = g[Len(q)]
  BY <1>1, <1>6 DEF K
<1>8. Len(q) + 1 \in 1..Len(p) /\ (Len(q) + 1) - 1 = Len(q)
  BY <1>1
<1>9. g[Len(q) + 1] = IF x = Compact THEN g[Len(q)] ELSE Append(g[Len(q)], x)
  BY <1>1, <1>3, <1>8
<1> QED
  BY <1>1, <1>2, <1>3, <1>7, <1>9 DEF p

\* What comes first stays first when something is appended.
LEMMA FirstStays ==
  ASSUME NEW h \in Records, NEW s \in Seq(Records), NEW x \in Records
  PROVE  Append(<<h>> \o s, x) = <<h>> \o Append(s, x)
<1> DEFINE a == <<h>> \o s
           b == Append(a, x)
           t == Append(s, x)
           c == <<h>> \o t
<1>1. <<h>> \in Seq(Records) /\ Len(<<h>>) = 1 /\ <<h>>[1] = h
  OBVIOUS
<1>2. Len(s) \in Nat
  BY LenProperties
<1>3. /\ t \in Seq(Records) /\ Len(t) = Len(s) + 1 /\ t[Len(s) + 1] = x
      /\ \A i \in 1..Len(s) : t[i] = s[i]
  BY AppendProperties
<1>4. /\ a \in Seq(Records) /\ Len(a) = 1 + Len(s)
      /\ \A i \in 1..(1 + Len(s)) : a[i] = IF i <= 1 THEN <<h>>[i] ELSE s[i - 1]
  BY <1>1, ConcatProperties
<1> HIDE DEF t
<1>5. /\ c \in Seq(Records) /\ Len(c) = 1 + Len(t)
      /\ \A i \in 1..(1 + Len(t)) : c[i] = IF i <= 1 THEN <<h>>[i] ELSE t[i - 1]
  BY <1>1, <1>3, ConcatProperties
<1> HIDE DEF a, c
<1>6. /\ b \in Seq(Records) /\ Len(b) = Len(a) + 1 /\ b[Len(a) + 1] = x
      /\ \A i \in 1..Len(a) : b[i] = a[i]
  BY <1>4, AppendProperties
<1> HIDE DEF b
<1>7. Len(b) = Len(s) + 2 /\ Len(c) = Len(s) + 2
  BY <1>2, <1>3, <1>4, <1>5, <1>6
<1>8. ASSUME NEW i \in 1..Len(b)
      PROVE  b[i] = c[i]
  <2>1. CASE i = 1
    <3>1. 1 \in 1..Len(a) /\ 1 \in 1..(1 + Len(s)) /\ 1 \in 1..(1 + Len(t)) /\ 1 <= 1
      BY <1>2, <1>3, <1>4
    <3>2. b[1] = a[1] /\ a[1] = h /\ c[1] = h
      BY <1>1, <1>4, <1>5, <1>6, <3>1
    <3> QED
      BY <2>1, <3>2
  <2>2. CASE i # 1 /\ i # Len(b)
    <3>1. /\ i \in 1..Len(a) /\ i \in 1..(1 + Len(s)) /\ i \in 1..(1 + Len(t)) /\ ~ (i <= 1)
          /\ i - 1 \in 1..Len(s)
      BY <1>2, <1>3, <1>4, <1>7, <2>2
    <3>2. b[i] = a[i] /\ a[i] = s[i - 1] /\ c[i] = t[i - 1]
      BY <1>4, <1>5, <1>6, <3>1
    <3> QED
      BY <1>3, <3>1, <3>2
  <2>3. CASE i # 1 /\ i = Len(b)
    <3>1. /\ i = Len(a) + 1 /\ i \in 1..(1 + Len(t)) /\ ~ (i <= 1)
          /\ i - 1 = Len(s) + 1
      BY <1>2, <1>3, <1>4, <1>7, <2>3
    <3> QED
      BY <1>3, <1>5, <1>6, <3>1
  <2> QED
    BY <2>1, <2>2, <2>3
<1>9. b = c
  BY <1>5, <1>6, <1>7, <1>8, SeqEqual
<1> QED
  BY <1>9 DEF b, c, a, t

\* What remains of a sequence that begins with h.
LEMMA FirstLeaves ==
  ASSUME NEW h \in Records, NEW s \in Seq(Records)
  PROVE  <<h>> \o s # <<>> /\ Head(<<h>> \o s) = h /\ Tail(<<h>> \o s) = s
<1> DEFINE a == <<h>> \o s
<1>1. <<h>> \in Seq(Records) /\ Len(<<h>>) = 1 /\ <<h>>[1] = h /\ Len(s) \in Nat
  BY LenProperties
<1>2. /\ a \in Seq(Records) /\ Len(a) = 1 + Len(s)
      /\ \A i \in 1..(1 + Len(s)) : a[i] = IF i <= 1 THEN <<h>>[i] ELSE s[i - 1]
  BY <1>1, ConcatProperties
<1> HIDE DEF a
<1>3. a # <<>>
  BY <1>1, <1>2, EmptySeq
<1>4. a[1] = h
  BY <1>1, <1>2
<1>5. /\ Head(a) = a[1] /\ Tail(a) \in Seq(Records) /\ Len(Tail(a)) = Len(a) - 1
      /\ \A i \in 1..Len(Tail(a)) : Tail(a)[i] = a[i + 1]
  BY <1>2, <1>3, HeadTailProperties
<1>6. Len(Tail(a)) = Len(s)
  BY <1>1, <1>2, <1>5
<1>7. ASSUME NEW i \in 1..Len(Tail(a))
      PROVE  Tail(a)[i] = s[i]
  <2>1. i + 1 \in 1..(1 + Len(s)) /\ ~ (i + 1 <= 1) /\ (i + 1) - 1 = i
    BY <1>1, <1>6
  <2> QED
    BY <1>2, <1>5, <2>1
<1>8. Tail(a) = s
  BY <1>5, <1>6, <1>7, SeqEqual
<1> QED
  BY <1>3, <1>4, <1>5, <1>8 DEF a

\* The task that leaves is the first of the writes, unless it is a compaction.
LEMMA WritesLeft ==
  ASSUME NEW q \in Seq(Tasks), q # <<>>
  PROVE  /\ Head(q) = Compact => Writes(Tail(q)) = Writes(q)
         /\ Head(q) # Compact => /\ Writes(q) # <<>> /\ Head(Writes(q)) = Head(q)
                                 /\ Tail(Writes(q)) = Writes(Tail(q))
<1> DEFINE h == Head(q)
           t == Tail(q)
<1>1. /\ Len(q) \in Nat \ {0} /\ h = q[1] /\ h \in Tasks
      /\ t \in Seq(Tasks) /\ Len(t) = Len(q) - 1
      /\ \A i \in 1..Len(t) : t[i] = q[i + 1]
  BY HeadTailProperties, EmptySeq, LenProperties
<1> HIDE DEF h, t
<1>2. PICK f : /\ Writes(q) = f[Len(q)] /\ f[0] = <<>>
               /\ \A i \in 1..Len(q) :
                    f[i] = IF q[i] = Compact THEN f[i - 1] ELSE Append(f[i - 1], q[i])
  BY WritesFound
<1>3. PICK g : /\ Writes(t) = g[Len(t)] /\ g[0] = <<>>
               /\ \A i \in 1..Len(t) :
                    g[i] = IF t[i] = Compact THEN g[i - 1] ELSE Append(g[i - 1], t[i])
  BY <1>1, WritesFound
<1>4. \A k \in 0..Len(t) : g[k] \in Seq(Records)
  BY <1>1, <1>3, WritesType
<1>5. f[1] = IF h = Compact THEN <<>> ELSE <<h>>
  <2>1. 1 \in 1..Len(q) /\ 1 - 1 = 0
    BY <1>1
  <2>2. f[1] = IF q[1] = Compact THEN f[0] ELSE Append(f[0], q[1])
    BY <1>2, <2>1
  <2>3. Append(<<>>, h) = <<h>>
    OBVIOUS
  <2> QED
    BY <1>1, <1>2, <2>2, <2>3
<1>6. ASSUME NEW k \in 0..(Len(t) - 1)
      PROVE  /\ (k + 1) + 1 \in 1..Len(q) /\ ((k + 1) + 1) - 1 = k + 1 /\ k \in 0..Len(t)
             /\ k + 1 \in 1..Len(t) /\ k + 1 \in 0..Len(t) /\ (k + 1) - 1 = k
             /\ t[k + 1] = q[(k + 1) + 1] /\ t[k + 1] \in Tasks
  <2>1. /\ (k + 1) + 1 \in 1..Len(q) /\ ((k + 1) + 1) - 1 = k + 1 /\ k \in 0..Len(t)
        /\ k + 1 \in 1..Len(t) /\ k + 1 \in 0..Len(t) /\ (k + 1) - 1 = k
    BY <1>1
  <2> QED
    BY <1>1, <2>1, ElementOfSeq
<1>7. 0 \in 0..Len(t) /\ 0 + 1 = 1 /\ Len(t) \in Nat /\ Len(t) + 1 = Len(q) /\ Len(t) \in 0..Len(t)
  BY <1>1
<1>8. CASE h = Compact
  <2> DEFINE K == {k \in 0..Len(t) : f[k + 1] = g[k]}
  <2>1. 0 \in K
    BY <1>3, <1>5, <1>7, <1>8
  <2>2. ASSUME NEW k \in 0..(Len(t) - 1), k \in K
        PROVE  k + 1 \in K
    <3>1. f[k + 1] = g[k]
      BY <2>2
    <3>2. f[(k + 1) + 1] = IF q[(k + 1) + 1] = Compact THEN f[k + 1]
                           ELSE Append(f[k + 1], q[(k + 1) + 1])
      BY <1>2, <1>6
    <3>3. g[k + 1] = IF t[k + 1] = Compact THEN g[k] ELSE Append(g[k], t[k + 1])
      BY <1>3, <1>6
    <3> QED
      BY <1>6, <3>1, <3>2, <3>3
  <2> HIDE DEF K
  <2>3. 0..Len(t) \subseteq K
    BY <1>7, <2>1, <2>2, Steps
  <2>4. f[Len(t) + 1] = g[Len(t)]
    BY <1>7, <2>3 DEF K
  <2>5. Writes(t) = Writes(q)
    BY <1>2, <1>3, <1>7, <2>4
  <2> QED
    BY <1>8, <2>5 DEF h, t
<1>9. CASE h # Compact
  <2>1. h \in Records
    BY <1>1, <1>9 DEF Tasks
  <2> DEFINE K == {k \in 0..Len(t) : f[k + 1] = <<h>> \o g[k]}
  <2>2. 0 \in K
    <3>1. <<h>> \o <<>> = <<h>>
      OBVIOUS
    <3> QED
      BY <1>3, <1>5, <1>7, <1>9, <3>1
  <2>3. ASSUME NEW k \in 0..(Len(t) - 1), k \in K
        PROVE  k + 1 \in K
    <3>1. f[k + 1] = <<h>> \o g[k]
      BY <2>3
    <3>2. f[(k + 1) + 1] = IF t[k + 1] = Compact THEN f[k + 1] ELSE Append(f[k + 1], t[k + 1])
      BY <1>2, <1>6
    <3>3. g[k + 1] = IF t[k + 1] = Compact THEN g[k] ELSE Append(g[k], t[k + 1])
      BY <1>3, <1>6
    <3>4. f[(k + 1) + 1] = <<h>> \o g[k + 1]
      <4>1. CASE t[k + 1] = Compact
        BY <3>1, <3>2, <3>3, <4>1
      <4>2. CASE t[k + 1] # Compact
        <5>1. t[k + 1] \in Records /\ g[k] \in Seq(Records)
          BY <1>4, <1>6, <4>2 DEF Tasks
        <5>2. Append(<<h>> \o g[k], t[k + 1]) = <<h>> \o Append(g[k], t[k + 1])
          BY <2>1, <5>1, FirstStays
        <5> QED
          BY <3>1, <3>2, <3>3, <4>2, <5>2
      <4> QED
        BY <4>1, <4>2
    <3> QED
      BY <1>6, <3>4
  <2> HIDE DEF K
  <2>4. 0..Len(t) \subseteq K
    BY <1>7, <2>2, <2>3, Steps
  <2>5. f[Len(t) + 1] = <<h>> \o g[Len(t)]
    BY <1>7, <2>4 DEF K
  <2>6. Writes(q) = <<h>> \o Writes(t) /\ Writes(t) \in Seq(Records)
    BY <1>2, <1>3, <1>4, <1>7, <2>5
  <2>7. Writes(q) # <<>> /\ Head(Writes(q)) = h /\ Tail(Writes(q)) = Writes(t)
    BY <2>1, <2>6, FirstLeaves
  <2> QED
    BY <1>9, <2>7 DEF h, t
<1> QED
  BY <1>8, <1>9

LEMMA NoWrites == Writes(<<>>) = <<>>
<1>1. <<>> \in Seq(Tasks) /\ Len(<<>>) = 0
  BY EmptySeq
<1> QED
  BY <1>1, WritesFound

-----------------------------------------------------------------------------
(* The durable log.                                                        *)

Content == [i \in Ids |-> Read(i)]

\* Without a write cut short every line is whole.
LEMMA WholeLines ==
  ASSUME IInv, tears = 0
  PROVE  unfinished = Nothing
BY DEF IInv, Counted

\* What leaves the file alone, and a compaction, change nothing that is read.
LEMMA ContentKept ==
  ASSUME IInv, UNCHANGED disk \/ CompactRenames
  PROVE  Content' = Content
<1>1. CASE UNCHANGED disk
  BY <1>1 DEF disk, Content, Read, Pieces
<1>2. CASE CompactRenames
  <2>1. Pieces' = snapshot /\ snapshot \in LatestStates(Pieces)
    BY <1>2 DEF CompactRenames, Pieces, IInv, Staged
  <2>2. Pieces \in Seq(Lines)
    BY ReadFacts DEF IInv
  <2>3. \A i \in Ids : LatestIn(Pieces', i) = LatestIn(Pieces, i)
    BY <2>1, <2>2, StatesFacts
  <2> QED
    BY <2>3 DEF Content, Read
<1> QED
  BY <1>1, <1>2

\* A record that lands behind a whole line is read for its id.
LEMMA ContentLands ==
  ASSUME IInv, NEW r \in Records, AppendLands(r), unfinished = Nothing
  PROVE  Content' = [Content EXCEPT ![r.id] = r.version]
<1>1. Pieces = file /\ Pieces' = Append(file, r) /\ file \in Seq(Lines) /\ r \in Lines
  BY DEF AppendLands, Pieces, IInv, TypeOK, Lines
<1>2. r # Junk
  BY MarksAssumption
<1>3. \A i \in Ids : LatestIn(Append(file, r), i) =
                       IF i = r.id THEN r.version ELSE LatestIn(file, i)
  BY <1>1, <1>2, AppendedFacts
<1>4. Content' = [i \in Ids |-> LatestIn(Append(file, r), i)]
  BY <1>1 DEF Content, Read
<1>5. Content = [i \in Ids |-> LatestIn(file, i)]
  BY <1>1 DEF Content, Read
<1>6. r.id \in Ids
  BY DEF Records
<1> QED
  BY <1>3, <1>4, <1>5, <1>6

\* The chain seen by the steps: what is appended, what is at its head.
LEMMA HeadIsWrite ==
  ASSUME IInv, NEW r \in Records, Running(r)
  PROVE  /\ chain \in Seq(Tasks) /\ Writes(chain) # <<>> /\ Head(Writes(chain)) = r
         /\ Writes(Tail(chain)) = Tail(Writes(chain)) /\ Tail(chain) \in Seq(Tasks)
<1>1. chain \in Seq(Tasks) /\ chain # <<>> /\ Head(chain) = r /\ r # Compact
  BY Numbers DEF Running, IInv
<1>2. Tail(chain) \in Seq(Tasks)
  BY <1>1, HeadTailProperties
<1> QED
  BY <1>1, <1>2, WritesLeft

LEMMA HeadIsCompact ==
  ASSUME IInv, Running(Compact)
  PROVE  Writes(Tail(chain)) = Writes(chain)
<1>1. chain \in Seq(Tasks) /\ chain # <<>> /\ Head(chain) = Compact
  BY Numbers DEF Running, IInv
<1> QED
  BY <1>1, WritesLeft

\* A step that hands a record over, or deals with the one at the head.
LEMMA WriteSteps ==
  ASSUME IInv, [Next]_vars, tears' = 0, NEW r \in Records,
         AppendLands(r) \/ AppendResolves(r) \/ AppendFails(r)
           \/ AppendTears(r) \/ CrashTears(r)
  PROVE  Log!Next
<1>1. /\ Writes(chain) # <<>> /\ Head(Writes(chain)) = r
      /\ Writes(Tail(chain)) = Tail(Writes(chain)) /\ Tail(chain) \in Seq(Tasks)
  <2>1. Running(r)
    BY DEF AppendLands, AppendResolves, AppendFails, AppendTears, CrashTears
  <2> QED
    BY <2>1, HeadIsWrite
<1>2. CASE AppendLands(r)
  <2>1. unfinished = Nothing
    BY <1>2, WholeLines DEF AppendLands, counts
  <2>2. Content' = [Content EXCEPT ![r.id] = r.version]
    BY <1>2, <2>1, ContentLands
  <2>3. phase = "waiting" /\ phase' = "written" /\ chain' = chain /\ reported' = reported
    BY <1>2 DEF AppendLands
  <2>4. Log!TakeEffect
    BY <1>1, <2>2, <2>3 DEF Log!TakeEffect, Content
  <2> QED
    BY <2>4 DEF Log!Next
<1>3. CASE AppendResolves(r)
  <2>1. Content' = Content
    BY <1>3, ContentKept DEF AppendResolves
  <2>2. /\ phase = "written" /\ phase' = "waiting"
        /\ reported' = [reported EXCEPT ![r.id] = r.version]
        /\ chain' = Tail(chain) \/ chain' = Append(Tail(chain), Compact)
    BY <1>3 DEF AppendResolves
  <2>3. Writes(chain') = Tail(Writes(chain))
    BY <1>1, <2>2, WritesQueued DEF Tasks
  <2>4. Log!ReportDone
    BY <1>1, <2>1, <2>2, <2>3 DEF Log!ReportDone, Content
  <2> QED
    BY <2>4 DEF Log!Next
<1>4. CASE AppendFails(r)
  <2>1. Content' = Content
    BY <1>4, ContentKept DEF AppendFails
  <2>2. phase = "waiting" /\ phase' = "waiting" /\ reported' = reported /\ chain' = Tail(chain)
    BY <1>4 DEF AppendFails, TaskEnds
  <2>3. Log!ReportFailed
    BY <1>1, <2>1, <2>2 DEF Log!ReportFailed, Content
  <2> QED
    BY <2>3 DEF Log!Next
<1>5. ~ (AppendTears(r) \/ CrashTears(r))
  <2>1. tears \in Nat
    BY SizesAssumption DEF IInv, TypeOK
  <2> QED
    BY <2>1 DEF AppendTears, CrashTears
<1> QED
  BY <1>2, <1>3, <1>4, <1>5

LEMMA SubmitStep ==
  ASSUME IInv, NEW i \in Ids, Submit(i)
  PROVE  Log!Next
<1> DEFINE r == [id |-> i, version |-> submitted[i] + 1]
<1>1. submitted[i] + 1 \in 1..MaxVersions
  BY SizesAssumption DEF Submit, IInv, TypeOK
<1>2. r \in Tasks /\ r # Compact /\ chain \in Seq(Tasks)
  <2>1. r \in Records
    BY <1>1 DEF Records
  <2> QED
    BY <2>1, Numbers DEF Tasks, IInv
<1>3. chain' = Append(chain, r) /\ UNCHANGED <<phase, reported, disk>>
  BY DEF Submit
<1>4. Writes(chain') = Append(Writes(chain), r)
  BY <1>2, <1>3, WritesQueued
<1>5. Content' = Content
  BY <1>3, ContentKept
<1>6. Log!Submit
  BY <1>1, <1>3, <1>4, <1>5 DEF Log!Submit, Content
<1> QED
  BY <1>6 DEF Log!Next

\* A step of a compaction, its scheduling and a start are not seen.
LEMMA HiddenSteps ==
  ASSUME IInv,
         Schedule \/ CompactReads \/ CompactSaves \/ CompactRenames \/ CompactResolves
           \/ CompactFails \/ Restart \/ UNCHANGED vars
  PROVE  UNCHANGED Log!lvars
<1>1. Content' = Content
  BY ContentKept DEF Schedule, CompactReads, CompactSaves, CompactRenames, CompactResolves,
                     CompactFails, Restart, vars
<1>2. reported' = reported
  BY DEF Schedule, CompactReads, CompactSaves, CompactRenames, CompactResolves,
         CompactFails, Restart, vars
<1>3. (phase' = "written") <=> (phase = "written")
  BY DEF Schedule, CompactReads, CompactSaves, CompactRenames, CompactResolves,
         CompactFails, TaskEnds, Restart, vars, memory
<1>4. Writes(chain') = Writes(chain)
  <2>1. CASE Schedule
    <3>1. chain' = Append(chain, Compact) /\ chain \in Seq(Tasks)
      BY <2>1, Numbers DEF Schedule, IInv
    <3> QED
      BY <3>1, WritesQueued DEF Tasks
  <2>2. CASE CompactResolves \/ CompactFails
    <3>1. chain' = Tail(chain) /\ Running(Compact)
      BY <2>2 DEF CompactResolves, CompactFails, TaskEnds
    <3> QED
      BY <3>1, HeadIsCompact
  <2>3. CASE CompactReads \/ CompactSaves \/ CompactRenames \/ Restart \/ UNCHANGED vars
    BY <2>3 DEF CompactReads, CompactSaves, CompactRenames, Restart, vars, memory
  <2> QED
    BY <2>1, <2>2, <2>3
<1> QED
  BY <1>1, <1>2, <1>3, <1>4 DEF Log!lvars, Content

LEMMA CrashStep ==
  ASSUME IInv, Crash
  PROVE  Log!Next
<1>1. chain' = <<>> /\ phase' = "waiting" /\ reported' = reported /\ UNCHANGED disk
  BY DEF Crash, ProcessEnds
<1>2. Content' = Content
  BY <1>1, ContentKept
<1>3. Log!ProcessEnds
  BY <1>1, <1>2, NoWrites DEF Log!ProcessEnds, Content
<1> QED
  BY <1>3 DEF Log!Next

-----------------------------------------------------------------------------
(* Sorted answers.                                                         *)

\* Each element of T once.
Lists(a, T) ==
  /\ Cardinality(T) \in Nat /\ a \in Seq(Records) /\ Len(a) = Cardinality(T)
  /\ \A j \in 1..Len(a) : a[j] \in T
  /\ \A r \in T : \E j \in 1..Len(a) : a[j] = r
  /\ \A i, j \in 1..Len(a) : a[i] = a[j] => i = j

Rising(a, key) == \A i, j \in 1..Len(a) : i < j => key[a[i]] <= key[a[j]]

\* What a sort of different records returns: those that are kept, each once, by
\* ascending key.
LEMMA Arranges ==
  ASSUME NEW s \in Seq(Records), \A k, m \in 1..Len(s) : s[k] = s[m] => k = m,
         NEW kept, NEW key \in [Records -> Int],
         NEW T, T = ToSet(s) \cap kept, NEW a, a = Arranged(s, kept, key)
  PROVE  Lists(a, T) /\ Rising(a, key)
<1> DEFINE at == {k \in 1..Len(s) : s[k] \in kept}
           up2(k) == {m \in at : key[s[m]] < key[s[k]] \/ (key[s[m]] = key[s[k]] /\ m <= k)}
           U == [k \in at |-> up2(k)]
           N == Cardinality(at)
           found(j) == s[CHOOSE k \in at : Cardinality(up2(k)) = j]
           v == [k \in at |-> key[s[k]]]
<1>1. /\ Len(s) \in Nat /\ DOMAIN s = 1..Len(s)
      /\ \A k \in 1..Len(s) : s[k] \in Records /\ key[s[k]] \in Int
  BY LenProperties
<1>2. /\ \A k \in at : k \in Nat /\ key[s[k]] \in Int /\ s[k] \in T /\ s[k] \in Records
      /\ \A r \in T : \E k \in at : s[k] = r
      /\ \A k, m \in at : s[k] = s[m] => k = m
  <2>1. \A r : r \in T <=> r \in kept /\ \E k \in 1..Len(s) : s[k] = r
    BY <1>1 DEF ToSet
  <2> QED
    BY <1>1, <2>1
<1>3. IsFiniteSet(at)
  <2>1. IsFiniteSet(1..Len(s)) /\ at \in SUBSET (1..Len(s))
    BY <1>1, FS_Interval
  <2> QED
    BY <2>1, FS_Subset
<1>4. /\ U \in [at -> SUBSET at]
      /\ \A k \in at : U[k] = up2(k)
      /\ \A k, m \in at : m \in U[k] <=> v[m] < v[k] \/ (v[m] = v[k] /\ m <= k)
  OBVIOUS
<1>5. a = [j \in 1..N |-> found(j)]
  BY DEF Arranged
<1>v. \A k \in at : v[k] = key[s[k]] /\ v[k] \in Int /\ k \in Nat
  BY <1>2
<1> HIDE DEF at, U, v
<1>6. /\ \A k \in at : k \in U[k]
      /\ \A k, m \in at : m \in U[k] \/ k \in U[m]
      /\ \A k, m \in at : m \in U[k] /\ k \in U[m] => k = m
  BY <1>4, <1>v
<1>7. \A k, m \in at : m \in U[k] => U[m] \subseteq U[k]
  <2> SUFFICES ASSUME NEW k \in at, NEW m \in at, m \in U[k], NEW x \in U[m]
               PROVE  x \in U[k]
    OBVIOUS
  <2>1. x \in at
    BY <1>4
  <2>2. v[m] < v[k] \/ (v[m] = v[k] /\ m <= k)
    BY <1>4
  <2>3. v[x] < v[m] \/ (v[x] = v[m] /\ x <= m)
    BY <1>4, <2>1
  <2>4. v[x] < v[k] \/ (v[x] = v[k] /\ x <= k)
    BY <1>v, <2>1, <2>2, <2>3
  <2> QED
    BY <1>4, <2>1, <2>4
<1>8. /\ N \in Nat
      /\ \A k \in at : Cardinality(U[k]) \in 1..N
      /\ \A k, m \in at : m \in U[k] <=> Cardinality(U[m]) <= Cardinality(U[k])
      /\ \A k, m \in at : Cardinality(U[k]) = Cardinality(U[m]) => k = m
      /\ \A j \in 1..N : \E k \in at : Cardinality(U[k]) = j
  BY <1>3, <1>4, <1>6, <1>7, Placed
<1> DEFINE pos == [j \in 1..N |-> CHOOSE k \in at : Cardinality(U[k]) = j]
<1>9. \A j \in 1..N : pos[j] \in at /\ Cardinality(U[pos[j]]) = j
  BY <1>8
<1>10. \A j \in 1..N : (CHOOSE k \in at : Cardinality(U[k]) = j)
                         = (CHOOSE k \in at : Cardinality(up2(k)) = j)
  <2>1. \A j \in 1..N, k \in at : (Cardinality(U[k]) = j) <=> (Cardinality(up2(k)) = j)
    <3> HIDE DEF up2
    <3> QED
      BY <1>4
  <2> HIDE DEF up2
  <2> QED
    BY <2>1
<1>11. \A j \in 1..N : found(j) = s[pos[j]]
  <2> HIDE DEF up2
  <2> QED
    BY <1>10
<1>12. \A k \in at : \E j \in 1..N : pos[j] = k
  BY <1>8, <1>9
<1> HIDE DEF pos, N, found
<1>13. a \in [1..N -> T] /\ a \in Seq(Records) /\ Len(a) = N
  <2>1. \A j \in 1..N : found(j) \in T /\ found(j) \in Records
    BY <1>2, <1>9, <1>11
  <2>2. a \in [1..N -> Records] /\ a \in [1..N -> T]
    BY <1>5, <2>1
  <2> QED
    BY <1>8, <2>2
<1>a. \A j \in 1..N : a[j] = s[pos[j]]
  BY <1>5, <1>11
<1>14. \A i, j \in 1..N : a[i] = a[j] => i = j
  BY <1>2, <1>9, <1>a
<1>15. \A r \in T : \E j \in 1..N : a[j] = r
  BY <1>2, <1>12, <1>a
<1>16. N = Cardinality(T)
  <2>1. a \in Injection(1..N, T) /\ a \in Surjection(1..N, T)
    BY <1>13, <1>14, <1>15 DEF Injection, IsInjective, Surjection
  <2>2. ExistsBijection(1..N, T)
    BY <2>1 DEF ExistsBijection, Bijection
  <2> QED
    BY <1>8, <2>2, FS_CountingElements
<1>17. \A i, j \in 1..N : i < j => key[a[i]] <= key[a[j]]
  <2> SUFFICES ASSUME NEW i \in 1..N, NEW j \in 1..N, i < j
               PROVE  key[s[pos[i]]] <= key[s[pos[j]]]
    BY <1>a
  <2>1. pos[i] \in at /\ pos[j] \in at /\ pos[i] \in U[pos[j]]
    BY <1>8, <1>9
  <2> QED
    <3>1. v[pos[i]] <= v[pos[j]]
      BY <1>4, <1>v, <2>1
    <3> QED
      BY <1>v, <2>1, <3>1
<1> QED
  BY <1>8, <1>13, <1>14, <1>15, <1>16, <1>17 DEF Lists, Rising

\* The first of what is kept, the latest first, are an answer of the table.
LEMMA Answered ==
  ASSUME called \in [Records -> Nat], NEW set, NEW f, NEW limit \in Nat,
         NEW kept \in SUBSET Records, kept = {r \in set : Selected(r, called[r], f)},
         NEW a, Lists(a, kept),
         \A i, j \in 1..Len(a) : i < j => called[a[i]] >= called[a[j]],
         NEW s, Len(s) = (IF limit < Len(a) THEN limit ELSE Len(a)),
         \A j \in 1..Len(s) : s[j] = a[j]
  PROVE  MayAnswer(s, set, limit, f)
<1>1. Len(a) \in Nat /\ Len(s) \in 0..Len(a) /\ Len(a) = Cardinality(kept)
  BY DEF Lists
<1>2. \A k \in 1..Len(s) : s[k] \in kept /\ k \in 1..Len(a)
  BY <1>1 DEF Lists
<1>3. ASSUME NEW k \in 1..Len(s), NEW m \in 1..Len(s), k < m
      PROVE  s[k] # s[m] /\ called[s[k]] >= called[s[m]]
  <2>1. k \in 1..Len(a) /\ m \in 1..Len(a) /\ s[k] = a[k] /\ s[m] = a[m]
    BY <1>2
  <2>2. a[k] # a[m]
    BY <1>3, <2>1 DEF Lists
  <2> QED
    BY <1>3, <2>1, <2>2
<1>4. ASSUME NEW r \in kept \ {s[k] : k \in 1..Len(s)}, NEW k \in 1..Len(s)
      PROVE  called[s[k]] >= called[r]
  <2>1. PICK j \in 1..Len(a) : a[j] = r
    BY DEF Lists
  <2>2. j \notin 1..Len(s)
    BY <2>1
  <2>3. k < j /\ k \in 1..Len(a)
    BY <1>1, <2>2
  <2> QED
    BY <2>1, <2>3
<1>5. \A r \in kept \ {s[k] : k \in 1..Len(s)} : \A k \in 1..Len(s) : called[s[k]] >= called[r]
  BY <1>4
<1> QED
  BY <1>1, <1>2, <1>3, <1>5 DEF MayAnswer

\* The history the file backend answers, from a log whose latest states are the
\* latest rows, is one the table may give.
LEMMA HistoryAnswers ==
  ASSUME called \in [Records -> Nat], stamps = called, Pieces \in Seq(Lines),
         LatestRows = LatestSet(Pieces), NEW f, NEW limit \in Nat
  PROVE  MayAnswer(FileHistory(limit, f), LatestRows, limit, f)
<1> DEFINE latest == CHOOSE s \in LatestStates(Pieces) : TRUE
           sel    == {r \in Records : Selected(r, stamps[r], f)}
           key    == NewestFirst(stamps)
           a      == Arranged(latest, sel, key)
           kept   == {r \in LatestRows : Selected(r, called[r], f)}
           top    == IF limit < Len(a) THEN limit ELSE Len(a)
           s      == SubSeq(a, 1, top)
<1>1. latest \in LatestStates(Pieces)
  BY StatesExist
<1> HIDE DEF latest
<1>2. /\ latest \in Seq(Records) /\ ToSet(latest) = LatestRows
      /\ \A k, m \in 1..Len(latest) : latest[k] = latest[m] => k = m
  BY <1>1, StatesRange
<1>3. LatestRows \in SUBSET Records
  BY LatestSetFacts
<1>4. key \in [Records -> Int] /\ \A r \in Records : key[r] = 0 - called[r]
  BY DEF NewestFirst
<1>5. kept = ToSet(latest) \cap sel /\ kept \in SUBSET Records
  BY <1>2, <1>3
<1>6. kept = {r \in LatestRows : Selected(r, called[r], f)} /\ a = Arranged(latest, sel, key)
  OBVIOUS
<1> HIDE DEF sel, key, kept, a
<1>7. Lists(a, kept) /\ Rising(a, key)
  BY <1>2, <1>4, <1>5, <1>6, Arranges
<1>8. ASSUME NEW i \in 1..Len(a), NEW j \in 1..Len(a), i < j
      PROVE  called[a[i]] >= called[a[j]]
  <2>1. a[i] \in Records /\ a[j] \in Records /\ key[a[i]] <= key[a[j]]
    BY <1>5, <1>7, <1>8 DEF Lists, Rising
  <2>2. /\ key[a[i]] = 0 - called[a[i]] /\ key[a[j]] = 0 - called[a[j]]
        /\ called[a[i]] \in Nat /\ called[a[j]] \in Nat
    BY <1>4, <2>1
  <2> QED
    BY <2>1, <2>2
<1>9. Len(a) \in Nat /\ top \in 0..Len(a) /\ \A j \in 1..Len(a) : a[j] \in Records
  <2>1. Len(a) \in Nat
    BY <1>7 DEF Lists
  <2>2. \A j \in 1..Len(a) : a[j] \in Records
    BY <1>5, <1>7 DEF Lists
  <2> QED
    BY <2>1, <2>2
<1>10. Len(s) = top /\ \A j \in 1..top : s[j] = a[j]
  <2> HIDE DEF top
  <2> QED
    BY <1>9, SubSeqProperties
<1> HIDE DEF s
<1>11. MayAnswer(s, LatestRows, limit, f)
  BY <1>5, <1>6, <1>7, <1>8, <1>10, Answered
<1>12. FileHistory(limit, f) = s
  BY DEF FileHistory, s, a, latest, sel, key
<1> QED
  BY <1>11, <1>12

\* A sequence turned round.
LEMMA Reversed ==
  ASSUME NEW a \in Seq(Records)
  PROVE  /\ Len(a) \in Nat /\ Reverse(a) \in Seq(Records) /\ Len(Reverse(a)) = Len(a)
         /\ \A j \in 1..Len(a) : /\ Reverse(a)[j] = a[(Len(a) - j) + 1]
                                 /\ (Len(a) - j) + 1 \in 1..Len(a)
<1>1. Len(a) \in Nat /\ \A j \in 1..Len(a) : a[j] \in Records /\ (Len(a) - j) + 1 \in 1..Len(a)
  BY LenProperties
<1>2. Reverse(a) \in [1..Len(a) -> Records]
  BY <1>1 DEF Reverse
<1>3. \A j \in 1..Len(a) : Reverse(a)[j] = a[(Len(a) - j) + 1]
  BY <1>1 DEF Reverse
<1> QED
  BY <1>1, <1>2, <1>3

\* The end of a log of different points, by ascending time and turned round, is
\* an answer of the table that holds them.
LEMMA TelemetryAnswers ==
  ASSUME called \in [Records -> Nat], rows \in Seq(Records),
         \A k, m \in 1..Len(rows) : rows[k] = rows[m] => k = m,
         NEW f, NEW limit \in Nat \ {0}
  PROVE  MayAnswer(FileTelemetry(rows, limit, f), ToSet(rows), limit, f)
<1> DEFINE sel  == {r \in Records : Selected(r, called[r], f)}
           a    == Arranged(rows, sel, called)
           b    == Reverse(a)
           t    == Slice(a, limit)
           s    == Reverse(t)
           kept == {r \in ToSet(rows) : Selected(r, called[r], f)}
<1>1. ToSet(rows) \in SUBSET Records
  BY LenProperties DEF ToSet
<1>2. kept = ToSet(rows) \cap sel /\ kept \in SUBSET Records
  BY <1>1
<1>3. kept = {r \in ToSet(rows) : Selected(r, called[r], f)} /\ a = Arranged(rows, sel, called)
  OBVIOUS
<1> HIDE DEF sel, kept, a
<1>4. called \in [Records -> Int]
  OBVIOUS
<1>5. Lists(a, kept) /\ Rising(a, called)
  BY <1>2, <1>3, <1>4, Arranges
<1>6. a \in Seq(Records) /\ Len(a) \in Nat
  BY <1>5, LenProperties DEF Lists
<1>7. /\ b \in Seq(Records) /\ Len(b) = Len(a)
      /\ \A j \in 1..Len(a) : b[j] = a[(Len(a) - j) + 1] /\ (Len(a) - j) + 1 \in 1..Len(a)
  BY <1>6, Reversed
<1> HIDE DEF b
<1>8. Lists(b, kept)
  <2>1. \A j \in 1..Len(b) : b[j] \in kept
    BY <1>5, <1>7 DEF Lists
  <2>2. ASSUME NEW r \in kept
        PROVE  \E j \in 1..Len(b) : b[j] = r
    <3>1. PICK k \in 1..Len(a) : a[k] = r
      BY <1>5 DEF Lists
    <3>2. (Len(a) - k) + 1 \in 1..Len(b) /\ (Len(a) - ((Len(a) - k) + 1)) + 1 = k
      BY <1>6, <1>7
    <3>3. b[(Len(a) - k) + 1] = r
      BY <1>7, <3>1, <3>2
    <3> QED
      BY <3>2, <3>3
  <2>3. ASSUME NEW i \in 1..Len(b), NEW j \in 1..Len(b), b[i] = b[j]
        PROVE  i = j
    <3>1. (Len(a) - i) + 1 = (Len(a) - j) + 1
      BY <1>5, <1>7, <2>3 DEF Lists
    <3> QED
      BY <1>6, <1>7, <3>1
  <2>4. Cardinality(kept) \in Nat /\ Len(b) = Cardinality(kept)
    BY <1>5, <1>7 DEF Lists
  <2> QED
    BY <1>7, <2>1, <2>2, <2>3, <2>4 DEF Lists
<1>9. ASSUME NEW i \in 1..Len(b), NEW j \in 1..Len(b), i < j
      PROVE  called[b[i]] >= called[b[j]]
  <2>1. (Len(a) - j) + 1 < (Len(a) - i) + 1
    BY <1>6, <1>7, <1>9
  <2>2. called[b[j]] <= called[b[i]]
    <3>1. /\ (Len(a) - j) + 1 \in 1..Len(a) /\ b[j] = a[(Len(a) - j) + 1]
          /\ (Len(a) - i) + 1 \in 1..Len(a) /\ b[i] = a[(Len(a) - i) + 1]
      BY <1>7
    <3>2. called[a[(Len(a) - j) + 1]] <= called[a[(Len(a) - i) + 1]]
      BY <1>5, <2>1, <3>1 DEF Rising
    <3> QED
      BY <3>1, <3>2
  <2>3. b[i] \in Records /\ b[j] \in Records
    BY <1>2, <1>8 DEF Lists
  <2>4. called[b[i]] \in Nat /\ called[b[j]] \in Nat
    BY <2>3
  <2> QED
    BY <2>2, <2>4
<1>10. /\ t \in Seq(Records) /\ Len(t) = (IF limit < Len(a) THEN limit ELSE Len(a))
       /\ \A j \in 1..Len(t) : t[j] = a[(Len(a) - Len(t)) + j]
  <2>1. CASE limit >= Len(a)
    <3>1. t = a
      BY <2>1 DEF Slice
    <3>2. \A j \in 1..Len(a) : (Len(a) - Len(a)) + j = j
      BY <1>6
    <3> HIDE DEF t
    <3> QED
      BY <1>6, <2>1, <3>1, <3>2
  <2>2. CASE limit < Len(a)
    <3>1. t = SubSeq(a, Len(a) - limit + 1, Len(a))
      BY <1>6, <2>2 DEF Slice
    <3>2. /\ Len(a) - limit + 1 \in Int
          /\ \A i \in (Len(a) - limit + 1)..Len(a) : a[i] \in Records
      <4>1. \A i \in 1..Len(a) : a[i] \in Records
        BY <1>6, LenProperties
      <4> QED
        BY <1>6, <2>2, <4>1
    <3>3. /\ t \in Seq(Records)
          /\ Len(t) = IF Len(a) - limit + 1 <= Len(a) THEN Len(a) - (Len(a) - limit + 1) + 1 ELSE 0
          /\ \A j \in 1..(Len(a) - (Len(a) - limit + 1) + 1) :
               t[j] = a[(Len(a) - limit + 1) + j - 1]
      BY <1>6, <3>1, <3>2, SubSeqProperties
    <3> HIDE DEF t
    <3>4. Len(t) = limit
      BY <1>6, <2>2, <3>3
    <3>5. \A j \in 1..limit : (Len(a) - limit + 1) + j - 1 = (Len(a) - limit) + j
      BY <1>6
    <3>6. Len(a) - (Len(a) - limit + 1) + 1 = limit
      BY <1>6
    <3> QED
      BY <2>2, <3>3, <3>4, <3>5, <3>6
  <2> QED
    BY <1>6, <2>1, <2>2
<1> HIDE DEF t
<1>11. Len(s) = Len(t) /\ \A j \in 1..Len(s) : s[j] = b[j]
  <2>1. /\ Len(t) \in Nat /\ Len(s) = Len(t)
        /\ \A j \in 1..Len(t) : s[j] = t[(Len(t) - j) + 1] /\ (Len(t) - j) + 1 \in 1..Len(t)
    BY <1>10, Reversed
  <2> HIDE DEF s
  <2>2. ASSUME NEW j \in 1..Len(t)
        PROVE  s[j] = b[j]
    <3>1. s[j] = a[(Len(a) - Len(t)) + ((Len(t) - j) + 1)]
      BY <1>10, <2>1
    <3>2. j \in 1..Len(a)
      BY <1>6, <1>10, <2>1
    <3>3. (Len(a) - Len(t)) + ((Len(t) - j) + 1) = (Len(a) - j) + 1
      BY <1>6, <2>1
    <3> QED
      BY <1>7, <3>1, <3>2, <3>3
  <2> QED
    BY <2>1, <2>2
<1> HIDE DEF s
<1>12. Len(s) = (IF limit < Len(b) THEN limit ELSE Len(b))
  BY <1>7, <1>10, <1>11
<1>13. MayAnswer(s, ToSet(rows), limit, f)
  BY <1>2, <1>3, <1>8, <1>9, <1>11, <1>12, Answered
<1>14. FileTelemetry(rows, limit, f) = s
  BY DEF FileTelemetry, s, t, a, sel
<1> QED
  BY <1>13, <1>14

-----------------------------------------------------------------------------
(* The table beside the file.                                              *)

\* The table holds the records of an id in the order of their numbers.
Numbered(t) == \A k, m \in 1..Len(t) : k < m /\ t[k].id = t[m].id => t[k].version < t[m].version

\* The number of the last row of each id.
LatestRow == [i \in Ids |-> LatestIn(rows, i)]

\* The tasks of the chain that have not reached the disk.
Ahead == IF phase = "written" THEN Tail(chain) ELSE chain

\* What the table has of an id precedes what is still to be written of it, and
\* while no write was cut short it is what is read from the file.
Tabled ==
  /\ rows \in Seq(Records) /\ Numbered(rows)
  /\ InOrder(Ahead, LatestRow, submitted)
  /\ tears = 0 => \A i \in Ids : LatestIn(rows, i) = Read(i)

\* Rows are records of their ids, and lines a log may hold.
LEMMA RowFacts ==
  ASSUME rows \in Seq(Records)
  PROVE  /\ rows \in Seq(Lines) /\ Len(rows) \in Nat
         /\ \A k \in 1..Len(rows) :
              /\ rows[k] \in Records /\ rows[k].id \in Ids
              /\ rows[k].version \in 1..MaxVersions /\ rows[k] # Junk
              /\ rows[k] = [id |-> rows[k].id, version |-> rows[k].version]
<1>1. rows \in Seq(Lines)
  BY SeqMonotonic DEF Lines
<1>2. Len(rows) \in Nat /\ \A k \in 1..Len(rows) : rows[k] \in Records
  BY LenProperties, ElementOfSeq
<1>3. \A r \in Records : /\ r.id \in Ids /\ r.version \in 1..MaxVersions /\ r # Junk
                         /\ r = [id |-> r.id, version |-> r.version]
  <2>1. Junk \notin Records
    BY MarksAssumption
  <2>2. \A r \in Records : /\ r.id \in Ids /\ r.version \in 1..MaxVersions
                           /\ r = [id |-> r.id, version |-> r.version]
    BY DEF Records
  <2> QED
    BY <2>1, <2>2
<1> QED
  BY <1>1, <1>2, <1>3

\* Rows are different, and the last of an id has its greatest number.
LEMMA NumberedFacts ==
  ASSUME rows \in Seq(Records), Numbered(rows)
  PROVE  /\ rows \in Seq(Lines)
         /\ \A k, m \in 1..Len(rows) : rows[k] = rows[m] => k = m
         /\ LatestRow \in [Ids -> Nat]
         /\ \A k \in 1..Len(rows) : rows[k].version <= LatestIn(rows, rows[k].id)
<1>1. rows \in Seq(Lines)
  BY RowFacts
<1>2. /\ Len(rows) \in Nat
      /\ \A k \in 1..Len(rows) : /\ rows[k] \in Records /\ rows[k].id \in Ids
                                 /\ rows[k].version \in 1..MaxVersions /\ rows[k] # Junk
  BY RowFacts
<1>3. ASSUME NEW k \in 1..Len(rows), NEW m \in 1..Len(rows), rows[k] = rows[m]
      PROVE  k = m
  <2>1. ~ (k < m) /\ ~ (m < k)
    BY <1>2, <1>3, SizesAssumption DEF Numbered
  <2> QED
    BY <1>2, <2>1
<1>4. LatestRow \in [Ids -> Nat]
  BY <1>1, LatestFacts, SizesAssumption DEF LatestRow
<1>5. ASSUME NEW k \in 1..Len(rows)
      PROVE  rows[k].version <= LatestIn(rows, rows[k].id)
  <2> DEFINE i == rows[k].id
             M == Mentions(rows, i)
             g == Max(M)
  <2>1. i \in Ids /\ k \in M /\ M \in SUBSET (1..Len(rows))
    BY <1>2 DEF Mentions
  <2>2. g \in M /\ \A y \in M : y <= g
    <3> HIDE DEF M
    <3> QED
      BY <1>2, <2>1, GreatestFacts
  <2>3. LatestIn(rows, i) = rows[g].version
    BY <2>1 DEF LatestIn
  <2>4. g \in 1..Len(rows) /\ rows[g].id = i /\ k <= g
    BY <2>1, <2>2 DEF Mentions
  <2> HIDE DEF g
  <2>5. k = g \/ rows[k].version < rows[g].version
    BY <1>2, <2>4 DEF Numbered
  <2> QED
    BY <1>2, <2>3, <2>4, <2>5, SizesAssumption
<1> QED
  BY <1>1, <1>3, <1>4, <1>5

\* The latest rows are the latest states of the table taken as a log.
LEMMA LatestRowsFacts ==
  ASSUME rows \in Seq(Records), Numbered(rows)
  PROVE  LatestRows = LatestSet(rows)
<1>1. /\ rows \in Seq(Lines) /\ Len(rows) \in Nat
      /\ \A k \in 1..Len(rows) : /\ rows[k] \in Records /\ rows[k].id \in Ids /\ rows[k] # Junk
                                 /\ rows[k] = [id |-> rows[k].id, version |-> rows[k].version]
  BY RowFacts
<1>2. ASSUME NEW k \in 1..Len(rows), \A m \in k + 1..Len(rows) : rows[m].id # rows[k].id
      PROVE  rows[k] \in LatestSet(rows)
  <2>1. k \in Mentions(rows, rows[k].id) /\ rows[k].id \in Known(rows)
    BY <1>1 DEF Mentions, Known
  <2>2. \A m \in Mentions(rows, rows[k].id) : m <= k
    BY <1>1, <1>2 DEF Mentions
  <2>3. LatestIn(rows, rows[k].id) = rows[k].version
    BY <1>1, <2>1, <2>2, LatestFacts
  <2> QED
    BY <1>1, <2>1, <2>3 DEF LatestSet
<1>3. ASSUME NEW r \in LatestSet(rows)
      PROVE  r \in LatestRows
  <2>1. PICK i \in Known(rows) : r = [id |-> i, version |-> LatestIn(rows, i)]
    BY DEF LatestSet
  <2> DEFINE M == Mentions(rows, i)
             g == Max(M)
  <2>2. i \in Ids /\ M # {} /\ M \in SUBSET (1..Len(rows))
    BY DEF Known, Mentions
  <2>3. g \in M /\ \A y \in M : y <= g
    <3> HIDE DEF M
    <3> QED
      BY <1>1, <2>2, GreatestFacts
  <2>4. LatestIn(rows, i) = rows[g].version /\ g \in 1..Len(rows) /\ rows[g].id = i
    BY <2>2, <2>3 DEF LatestIn, Mentions
  <2>5. r = rows[g]
    BY <1>1, <2>1, <2>4
  <2>6. \A m \in g + 1..Len(rows) : rows[m].id # rows[g].id
    <3> SUFFICES ASSUME NEW m \in g + 1..Len(rows), rows[m].id = i
                 PROVE  FALSE
      BY <2>4
    <3>1. m \in 1..Len(rows) /\ ~ (m <= g)
      BY <1>1, <2>4
    <3>2. m \in M
      BY <1>1, <3>1 DEF Mentions
    <3> QED
      BY <2>3, <3>1, <3>2
  <2> HIDE DEF g
  <2> QED
    BY <2>4, <2>5, <2>6 DEF LatestRows
<1>4. \A r \in LatestRows : r \in LatestSet(rows)
  BY <1>2 DEF LatestRows
<1> QED
  BY <1>3, <1>4

\* Two logs with the same latest record of every id have the same latest states.
LEMMA SameLatest ==
  ASSUME NEW p \in Seq(Lines), NEW q \in Seq(Lines),
         \A i \in Ids : LatestIn(p, i) = LatestIn(q, i)
  PROVE  LatestSet(p) = LatestSet(q)
<1>1. Known(p) = Known(q)
  BY LatestFacts DEF Known
<1>2. \A i \in Known(p) : i \in Ids
  BY DEF Known
<1> QED
  BY <1>1, <1>2 DEF LatestSet

\* While no write was cut short the table and the file hold the same latest
\* records.
LEMMA TablesAgree ==
  ASSUME IInv, Tabled, tears = 0
  PROVE  LatestRows = LatestSet(Pieces) /\ Pieces \in Seq(Lines)
<1>1. Pieces \in Seq(Lines)
  BY ReadFacts DEF IInv
<1>2. \A i \in Ids : LatestIn(rows, i) = LatestIn(Pieces, i)
  BY DEF Tabled, Read
<1> QED
  BY <1>1, <1>2, SameLatest, LatestRowsFacts, NumberedFacts DEF Tabled

\* The backends recover the same commands.
LEMMA PendingAgree ==
  ASSUME IInv, Tabled, tears = 0
  PROVE  FilePending = TablePending
<1>1. LatestRows = LatestSet(Pieces) /\ Pieces \in Seq(Lines)
  BY TablesAgree
<1>2. PICK s \in LatestStates(Pieces) : TRUE
  BY <1>1, StatesExist
<1>3. \A q \in LatestStates(Pieces) : ToSet(q) = LatestRows
  BY <1>1, StatesRange
<1>4. {Unsettled(ToSet(q)) : q \in LatestStates(Pieces)} = {Unsettled(LatestRows)}
  BY <1>2, <1>3
<1> QED
  BY <1>4 DEF FilePending, TablePending

\* What is ahead, while the chain grows at its end or its head leaves.
LEMMA AheadFacts ==
  ASSUME IInv
  PROVE  /\ Ahead \in Seq(Tasks) /\ chain \in Seq(Tasks)
         /\ \A x \in Tasks : chain' = Append(chain, x) /\ phase' = phase => Ahead' = Append(Ahead, x)
         /\ submitted \in [Ids -> Nat]
<1>1. chain \in Seq(Tasks) /\ submitted \in [Ids -> Nat]
  BY Numbers DEF IInv
<1>2. phase = "written" => chain # <<>>
  BY DEF IInv, Staged
<1>3. phase = "written" => Tail(chain) \in Seq(Tasks)
  BY <1>1, <1>2, HeadTailProperties
<1>4. ASSUME NEW x \in Tasks, chain' = Append(chain, x), phase' = phase
      PROVE  Ahead' = Append(Ahead, x)
  <2>1. phase = "written" => Tail(Append(chain, x)) = Append(Tail(chain), x)
    BY <1>1, <1>2, HeadTailAppend
  <2> QED
    BY <1>4, <2>1 DEF Ahead
<1> QED
  BY <1>1, <1>3, <1>4 DEF Ahead

\* A step that inserts nothing keeps the table beside the file if it keeps the
\* order of what is ahead.
LEMMA TabledKept ==
  ASSUME IInv, Tabled, rows' = rows, InOrder(Ahead', LatestRow, submitted'),
         tears' = 0 => tears = 0 /\ (UNCHANGED disk \/ CompactRenames)
  PROVE  Tabled'
<1>1. LatestRow' = LatestRow
  BY DEF LatestRow
<1>2. ASSUME tears' = 0
      PROVE  \A i \in Ids : LatestIn(rows', i) = Read(i)'
  <2>1. Content' = Content /\ tears = 0
    BY <1>2, ContentKept
  <2>2. \A i \in Ids : Read(i)' = Read(i)
    BY <2>1 DEF Content
  <2> QED
    BY <2>1, <2>2 DEF Tabled
<1> QED
  BY <1>1, <1>2 DEF Tabled

\* The insertion, as the record is appended to the file.
LEMMA TabledInsert ==
  ASSUME IInv, Tabled, NEW r \in Records, AppendLands(r), rows' = Append(rows, r)
  PROVE  Tabled'
<1>1. /\ chain \in Seq(Tasks) /\ chain # <<>> /\ Head(chain) = r /\ submitted \in [Ids -> Nat]
      /\ phase = "waiting" /\ phase' = "written" /\ chain' = chain /\ submitted' = submitted
      /\ tears' = tears
  BY AheadFacts DEF AppendLands, Running, counts
<1>2. /\ rows \in Seq(Lines) /\ LatestRow \in [Ids -> Nat]
      /\ \A k \in 1..Len(rows) : rows[k].version <= LatestIn(rows, rows[k].id)
  BY NumberedFacts DEF Tabled
<1>3. r \in Lines /\ r # Junk /\ r.id \in Ids
  BY MarksAssumption DEF Lines, Records
<1>4. /\ LatestRow[r.id] < r.version
      /\ InOrder(Tail(chain), [LatestRow EXCEPT ![r.id] = r.version], submitted)
  <2>1. InOrder(chain, LatestRow, submitted)
    BY <1>1 DEF Tabled, Ahead
  <2> QED
    BY <1>1, <1>2, <2>1, HeadLeaves
<1>5. \A i \in Ids : LatestIn(rows', i) = IF i = r.id THEN r.version ELSE LatestIn(rows, i)
  BY <1>2, <1>3, AppendedFacts
<1>6. LatestRow' = [LatestRow EXCEPT ![r.id] = r.version]
  BY <1>2, <1>5 DEF LatestRow
<1>7. InOrder(Ahead, LatestRow, submitted)'
  BY <1>1, <1>4, <1>6 DEF Ahead
<1>8. /\ Len(rows) \in Nat /\ rows' \in Seq(Records) /\ Len(rows') = Len(rows) + 1
      /\ \A k \in 1..Len(rows) : rows'[k] = rows[k]
      /\ rows'[Len(rows) + 1] = r
  BY AppendFacts DEF Tabled
<1>9. Numbered(rows')
  <2> SUFFICES ASSUME NEW k \in 1..Len(rows'), NEW m \in 1..Len(rows'),
                      k < m, rows'[k].id = rows'[m].id
               PROVE  rows'[k].version < rows'[m].version
    BY DEF Numbered
  <2>1. k \in 1..Len(rows) /\ rows'[k] = rows[k]
    BY <1>8
  <2>2. CASE m \in 1..Len(rows)
    BY <1>8, <2>1, <2>2 DEF Tabled, Numbered
  <2>3. CASE m = Len(rows) + 1
    <3>1. rows[k].id = r.id /\ rows'[m] = r
      BY <1>8, <2>1, <2>3
    <3>2. rows[k].version <= LatestRow[r.id]
      BY <1>2, <1>3, <2>1, <3>1 DEF LatestRow
    <3>3. rows[k].version \in Nat /\ r.version \in Nat /\ LatestRow[r.id] \in Nat
      <4>1. rows[k].version \in Nat
        <5>1. rows \in Seq(Records)
          BY DEF Tabled
        <5>2. rows[k].version \in 1..MaxVersions
          BY <2>1, <5>1, RowFacts
        <5> QED
          BY <5>2
      <4>2. r.version \in Nat
        BY DEF Records
      <4> QED
        BY <1>2, <1>3, <4>1, <4>2
    <3> QED
      BY <1>4, <2>1, <3>1, <3>2, <3>3
  <2> QED
    BY <1>8, <2>2, <2>3
<1>10. ASSUME tears' = 0
       PROVE  \A i \in Ids : LatestIn(rows', i) = Read(i)'
  <2>1. tears = 0 /\ unfinished = Nothing
    BY <1>1, <1>10, WholeLines
  <2>2. Content' = [Content EXCEPT ![r.id] = r.version]
    BY <2>1, ContentLands
  <2>3. \A i \in Ids : Read(i)' = IF i = r.id THEN r.version ELSE Read(i)
    BY <2>2 DEF Content
  <2> QED
    BY <1>5, <2>1, <2>3 DEF Tabled
<1> QED
  BY <1>7, <1>8, <1>9, <1>10 DEF Tabled

\* Every step of the backends keeps the table beside the file.
LEMMA TabledStep ==
  ASSUME IInv, Tabled, [BNext]_bvars
  PROVE  Tabled'
<1>1. /\ Ahead \in Seq(Tasks) /\ chain \in Seq(Tasks) /\ submitted \in [Ids -> Nat]
      /\ \A x \in Tasks : chain' = Append(chain, x) /\ phase' = phase => Ahead' = Append(Ahead, x)
  BY AheadFacts
<1>2. /\ LatestRow \in [Ids -> Nat] /\ InOrder(Ahead, LatestRow, submitted)
      /\ tears \in Nat
  BY NumberedFacts, SizesAssumption DEF Tabled, IInv, TypeOK
<1>3. chain # <<>> /\ phase # "written" => InOrder(Tail(chain), LatestRow, submitted)
  <2> SUFFICES ASSUME chain # <<>>, phase # "written"
               PROVE  InOrder(Tail(chain), LatestRow, submitted)
    OBVIOUS
  <2> QED
    BY <1>1, <1>2, HeadLeaves DEF Ahead
<1>4. InOrder(<<>>, LatestRow, submitted)
  <2>1. Len(<<>>) = 0 /\ 1..0 = {}
    BY EmptySeq
  <2> QED
    BY <1>2, <2>1 DEF InOrder
<1>5. ASSUME NEW i \in Ids, HandOver(i)
      PROVE  Tabled'
  <2> DEFINE r == [id |-> i, version |-> submitted[i] + 1]
  <2>1. submitted[i] + 1 \in 1..MaxVersions
    BY <1>5, SizesAssumption DEF HandOver, Submit, IInv, TypeOK
  <2>2. r \in Records /\ r \in Tasks
    BY <2>1 DEF Records, Tasks
  <2>3. /\ chain' = Append(chain, r) /\ phase' = phase /\ rows' = rows
        /\ submitted' = [submitted EXCEPT ![i] = @ + 1] /\ UNCHANGED disk /\ tears' = tears
    BY <1>5 DEF HandOver, Submit, counts
  <2>4. Ahead' = Append(Ahead, r)
    BY <1>1, <2>2, <2>3
  <2>5. InOrder(Append(Ahead, r), LatestRow, submitted')
    BY <1>1, <1>2, <2>2, <2>3, RecordQueued
  <2> QED
    BY <2>3, <2>4, <2>5, TabledKept
<1>6. ASSUME NEW r \in Records, Insert(r)
      PROVE  Tabled'
  BY <1>6, TabledInsert DEF Insert
<1>7. CASE Recover
  <2>1. UNCHANGED <<chain, phase, rows, disk, submitted, tears>>
    BY <1>7 DEF Recover, Restart, counts
  <2>2. Ahead' = Ahead
    BY <2>1 DEF Ahead
  <2> QED
    BY <1>2, <2>1, <2>2, TabledKept
<1>8. ASSUME NEW r \in Records, AppendResolves(r), rows' = rows
      PROVE  Tabled'
  <2>1. /\ phase = "written" /\ phase' = "waiting" /\ chain # <<>>
        /\ chain' = Tail(chain) \/ chain' = Append(Tail(chain), Compact)
        /\ UNCHANGED disk /\ submitted' = submitted /\ tears' = tears
    BY <1>8 DEF AppendResolves, Running, counts
  <2>2. Ahead = Tail(chain) /\ Ahead' = chain'
    BY <2>1 DEF Ahead
  <2>3. InOrder(Append(Ahead, Compact), LatestRow, submitted)
    BY <1>1, <1>2, CompactQueued
  <2>4. InOrder(Ahead', LatestRow, submitted')
    BY <1>2, <2>1, <2>2, <2>3
  <2> QED
    BY <1>8, <2>1, <2>4, TabledKept
<1>9. ASSUME NEW r \in Records, AppendFails(r) \/ AppendTears(r), rows' = rows
      PROVE  Tabled'
  <2>1. /\ phase = "waiting" /\ phase' = "waiting" /\ chain # <<>> /\ chain' = Tail(chain)
        /\ submitted' = submitted /\ ((tears' = tears /\ UNCHANGED disk) \/ tears' = tears + 1)
    BY <1>9 DEF AppendFails, AppendTears, Running, TaskEnds
  <2>2. InOrder(Ahead', LatestRow, submitted')
    BY <1>3, <2>1 DEF Ahead
  <2> QED
    BY <1>2, <1>9, <2>1, <2>2, TabledKept
<1>10. ASSUME Crash \/ \E r \in Records : CrashTears(r), rows' = rows
       PROVE  Tabled'
  <2>1. /\ phase' = "waiting" /\ chain' = <<>> /\ submitted' = submitted
        /\ ((tears' = tears /\ UNCHANGED disk) \/ tears' = tears + 1)
    BY <1>10 DEF Crash, CrashTears, ProcessEnds
  <2>2. InOrder(Ahead', LatestRow, submitted')
    BY <1>4, <2>1 DEF Ahead
  <2> QED
    BY <1>2, <1>10, <2>1, <2>2, TabledKept
<1>11. ASSUME Schedule, rows' = rows
       PROVE  Tabled'
  <2>1. /\ chain' = Append(chain, Compact) /\ phase' = phase /\ submitted' = submitted
        /\ UNCHANGED disk /\ tears' = tears
    BY <1>11 DEF Schedule
  <2>2. Ahead' = Append(Ahead, Compact)
    BY <1>1, <2>1 DEF Tasks
  <2>3. InOrder(Append(Ahead, Compact), LatestRow, submitted)
    BY <1>1, <1>2, CompactQueued
  <2>4. InOrder(Ahead', LatestRow, submitted')
    BY <2>1, <2>2, <2>3
  <2> QED
    BY <1>11, <2>1, <2>4, TabledKept
<1>12. ASSUME CompactReads \/ CompactSaves \/ CompactRenames, rows' = rows
       PROVE  Tabled'
  <2>1. /\ phase # "written" /\ phase' # "written" /\ chain' = chain /\ submitted' = submitted
        /\ tears' = tears /\ (UNCHANGED disk \/ CompactRenames)
    BY <1>12 DEF CompactReads, CompactSaves, CompactRenames, counts
  <2>2. Ahead' = Ahead
    BY <2>1 DEF Ahead
  <2> QED
    BY <1>2, <1>12, <2>1, <2>2, TabledKept
<1>13. ASSUME CompactResolves \/ CompactFails, rows' = rows
       PROVE  Tabled'
  <2>1. /\ phase # "written" /\ phase' = "waiting" /\ chain # <<>> /\ chain' = Tail(chain)
        /\ submitted' = submitted /\ tears' = tears /\ UNCHANGED disk
    BY <1>13 DEF CompactResolves, CompactFails, Running, TaskEnds, counts
  <2>2. InOrder(Ahead', LatestRow, submitted')
    BY <1>3, <2>1 DEF Ahead
  <2> QED
    BY <1>13, <2>1, <2>2, TabledKept
<1>14. CASE UNCHANGED bvars
  <2>1. UNCHANGED <<chain, phase, rows, disk, submitted, tears>>
    BY <1>14 DEF bvars, vars, memory, counts
  <2>2. Ahead' = Ahead
    BY <2>1 DEF Ahead
  <2> QED
    BY <1>2, <2>1, <2>2, TabledKept
<1> QED
  BY <1>5, <1>6, <1>7, <1>8, <1>9, <1>10, <1>11, <1>12, <1>13, <1>14 DEF BNext

\* Beside the tables the file takes the steps it takes by itself.
LEMMA FileSteps ==
  /\ BInit => Init
  /\ [BNext]_bvars => [Next]_vars
BY DEF BInit, BNext, HandOver, Insert, Recover, Next, bvars

\* The invariant of both backends.
BackendsInv == IInv /\ Tabled /\ called \in [Records -> Nat]

LEMMA BackendsInit == BInit => BackendsInv
<1> SUFFICES ASSUME BInit PROVE BackendsInv
  OBVIOUS
<1>1. IInv
  BY FileSteps, InitInvariant
<1>2. called \in [Records -> Nat]
  BY QueriesAssumption DEF BInit
<1>3. /\ rows = <<>> /\ Len(<<>>) = 0 /\ 1..0 = {} /\ <<>> \in Seq(Records) /\ chain = <<>>
      /\ phase = "waiting" /\ submitted = [i \in Ids |-> 0] /\ Pieces = <<>>
  BY EmptySeq DEF BInit, Init, Pieces
<1>4. \A i \in Ids : LatestIn(rows, i) = 0 /\ Read(i) = 0
  BY <1>3 DEF LatestIn, Mentions, Read
<1>5. Tabled
  BY <1>3, <1>4 DEF Tabled, Numbered, InOrder, Ahead, LatestRow
<1> QED
  BY <1>1, <1>2, <1>5 DEF BackendsInv

-----------------------------------------------------------------------------
(* The theorems.                                                           *)

\* The invariant holds in every reachable state.
THEOREM Invariance == Spec => []IInv
<1>1. Init => IInv
  BY InitInvariant
<1>2. IInv /\ [Next]_vars => IInv'
  <2> SUFFICES ASSUME IInv, [Next]_vars PROVE IInv'
    OBVIOUS
  <2> QED
    BY ChainStep, StagedStep, CountedStep, BoundedStep DEF IInv
<1> QED
  BY <1>1, <1>2, PTL DEF Spec

\* Type correctness of the log, its chain and what a compaction writes.
THEOREM TypeCorrect == Spec => []TypeOK
<1>1. IInv => TypeOK
  BY DEF IInv
<1> QED
  BY <1>1, Invariance, PTL

\* The line count that decides when _compactIdKeyedLog runs never runs away
\* from the file, for any threshold and any number of restarts and failures.
THEOREM CountIsKept == Spec => []CountFollowsFile
<1>1. IInv => CountFollowsFile
  <2> SUFFICES ASSUME IInv, up, phase \in {"waiting", "read", "saved"}
               PROVE  lineCount <= Len(Pieces) + tears /\ Len(Pieces) <= lineCount + tears
    BY DEF CountFollowsFile
  <2> USE DEF IInv
  <2>1. lineCount \in Nat /\ tears \in Nat /\ Len(file) \in Nat /\ file \in Seq(Lines)
    BY SizesAssumption, LenProperties DEF TypeOK
  <2>2. Len(Pieces) = Len(file) + (IF unfinished = Nothing THEN 0 ELSE 1)
    <3>1. CASE unfinished = Nothing
      BY <2>1, <3>1 DEF Pieces
    <3>2. CASE unfinished # Nothing
      BY <2>1, <3>2, AppendFacts DEF Pieces, TypeOK
    <3> QED
      BY <3>1, <3>2
  <2> QED
    BY <2>1, <2>2 DEF Counted, Lined
<1> QED
  BY <1>1, Invariance, PTL

\* A write cut short costs at most one record that was reported as written,
\* over any number of later appends, compactions and restarts.
THEOREM LossesAreBounded == Spec => []LossIsBounded
<1>1. IInv => LossIsBounded
  <2> SUFFICES ASSUME IInv PROVE Cardinality(Damaged(Pieces, reported)) <= tears
    BY DEF LossIsBounded, Read, Damaged
  <2> USE DEF IInv
  <2>1. Damaged(Pieces, reported) \in SUBSET Damaged(file, reported)
    BY ReadFacts
  <2>2. /\ Cardinality(Damaged(Pieces, reported)) \in Nat
        /\ Cardinality(Damaged(Pieces, reported)) <= Cardinality(Damaged(file, reported))
        /\ Cardinality(Damaged(file, reported)) \in Nat
    BY <2>1, DamagedFacts
  <2>3. Owed \in 0..2 /\ tears \in Nat
    BY SizesAssumption DEF Owed, TypeOK
  <2> QED
    BY <2>2, <2>3 DEF Bounded
<1> QED
  BY <1>1, Invariance, PTL

\* A reader cannot tell whether a compaction has run: the steps taken while
\* one is at the head of the chain leave the latest states and their order.
THEOREM CompactionIsHidden == Spec => CompactionIsInvisible
<1> DEFINE Hidden == chain # <<>> /\ Head(chain) = Compact
                       => LatestStates(Pieces') = LatestStates(Pieces)
<1>1. IInv /\ [Next]_vars => [Hidden]_vars
  <2> SUFFICES ASSUME IInv, Next, Head(chain) = Compact
               PROVE  LatestStates(Pieces') = LatestStates(Pieces)
    OBVIOUS
  <2> USE DEF IInv
  <2>0. \A r \in Records : Head(chain) # r
    BY Numbers
  <2>1. CASE UNCHANGED disk
    BY <2>1 DEF disk, Pieces
  <2>2. CASE CompactRenames
    <3>1. Pieces' = snapshot /\ snapshot \in LatestStates(Pieces)
      BY <2>2 DEF CompactRenames, Pieces, Staged
    <3> QED
      BY <3>1, ReadFacts, StatesFacts
  <2>3. ASSUME NEW r \in Records
        PROVE  /\ ~AppendLands(r) /\ ~AppendResolves(r) /\ ~AppendFails(r)
               /\ ~AppendTears(r) /\ ~CrashTears(r)
    BY <2>0 DEF AppendLands, AppendResolves, AppendFails, AppendTears, CrashTears, Running
  <2>4. UNCHANGED disk \/ CompactRenames
    BY <2>3 DEF Next, Submit, Schedule, CompactReads, CompactSaves, CompactResolves,
                CompactFails, Crash, Restart
  <2> QED
    BY <2>1, <2>2, <2>4
<1> QED
  BY <1>1, Invariance, PTL DEF Spec, CompactionIsInvisible

\* Every step of the file, its chain and its compaction is a step of the durable
\* log or none, as long as no write was cut short: writes take effect in the
\* order they were handed over, a write reported as done did, one reported as
\* failed never does, and a process end costs only what was outstanding.
THEOREM LogIsImplemented == Spec => ImplementsLog
<1>1. Init => Log!Init
  <2> SUFFICES ASSUME Init PROVE Log!Init
    OBVIOUS
  <2>1. Pieces = <<>> /\ Len(<<>>) = 0
    BY DEF Init, Pieces
  <2>2. \A i \in Ids : Mentions(Pieces, i) = {}
    BY <2>1 DEF Mentions
  <2>3. \A i \in Ids : Read(i) = 0
    BY <2>2 DEF Read, LatestIn
  <2> QED
    BY <2>3, NoWrites DEF Init, Log!Init
<1>2. IInv /\ [Next]_vars => [tears' = 0 => Log!Next]_(Log!lvars)
  <2> SUFFICES ASSUME IInv, [Next]_vars, tears' = 0
               PROVE  Log!Next \/ UNCHANGED Log!lvars
    OBVIOUS
  <2> QED
    BY WriteSteps, SubmitStep, HiddenSteps, CrashStep DEF Next
<1> QED
  BY <1>1, <1>2, Invariance, PTL DEF Spec, ImplementsLog

\* Beside the tables the file takes the steps it takes by itself, so the theorems
\* above hold of it there.
THEOREM FileAsBefore == BackendsSpec => Spec
BY FileSteps, PTL DEF BackendsSpec, Spec

\* Until a write is cut short, the commands recovered from either backend are
\* the same, for every set of ids and clocks and over any number of compactions,
\* failures and restarts.  As long as, besides, no process has gone on with a
\* recovered command, what the file answers to a query of a history the table
\* might have, for every filter and limit, and likewise of the telemetry unless
\* the limit is rounded down to zero.
THEOREM BackendsAgree == BackendsSpec => []AnswersAgree
<1>1. BInit => BackendsInv
  BY BackendsInit
<1>2. BackendsInv /\ [BNext]_bvars => BackendsInv'
  <2> SUFFICES ASSUME BackendsInv, [BNext]_bvars PROVE BackendsInv'
    OBVIOUS
  <2>1. IInv'
    BY FileSteps, ChainStep, StagedStep, CountedStep, BoundedStep DEF BackendsInv, IInv
  <2>2. called' = called
    BY DEF BNext, HandOver, Insert, Recover, bvars
  <2> QED
    BY <2>1, <2>2, TabledStep DEF BackendsInv
<1>3. BackendsInv => AnswersAgree
  <2> SUFFICES ASSUME BackendsInv, tears = 0
               PROVE  /\ FilePending = TablePending
                      /\ NoneContinued =>
                           \A f \in Questions, raw \in Limits :
                             LET limit == ClampLimit(raw)
                             IN  /\ MayAnswer(FileHistory(limit, f), LatestRows, limit, f)
                                 /\ limit > 0 => MayAnswer(FileTelemetry(rows, limit, f),
                                                           ToSet(rows), limit, f)
    BY DEF AnswersAgree
  <2>1. /\ rows \in Seq(Records) /\ Pieces \in Seq(Lines) /\ LatestRows = LatestSet(Pieces)
        /\ \A k, m \in 1..Len(rows) : rows[k] = rows[m] => k = m
        /\ called \in [Records -> Nat]
    BY TablesAgree, NumberedFacts DEF BackendsInv, Tabled
  <2>2. ASSUME NoneContinued, NEW f \in Questions, NEW raw \in Limits,
               NEW limit, limit = ClampLimit(raw)
        PROVE  /\ MayAnswer(FileHistory(limit, f), LatestRows, limit, f)
               /\ limit > 0 => MayAnswer(FileTelemetry(rows, limit, f), ToSet(rows), limit, f)
    <3>1. limit \in Nat
      BY <2>2, QueriesAssumption DEF ClampLimit
    <3>2. MayAnswer(FileHistory(limit, f), LatestRows, limit, f)
      BY <2>1, <2>2, <3>1, HistoryAnswers DEF NoneContinued
    <3>3. ASSUME limit > 0
          PROVE  MayAnswer(FileTelemetry(rows, limit, f), ToSet(rows), limit, f)
      <4>1. limit \in Nat \ {0}
        BY <3>1, <3>3
      <4> QED
        BY <2>1, <4>1, TelemetryAnswers
    <3> QED
      BY <3>2, <3>3
  <2>3. FilePending = TablePending
    BY PendingAgree DEF BackendsInv
  <2> QED
    BY <2>2, <2>3
<1> QED
  BY <1>1, <1>2, <1>3, PTL DEF BackendsSpec
=============================================================================
