-------------------------- MODULE ControlLoopProofs --------------------------
(***************************************************************************)
(* Proofs about ControlLoop, for every set of devices, every set of        *)
(* readings and every number of points, failed writes, sweeps and requests *)
(* of operators.                                                           *)
(*                                                                         *)
(* Types is inductive by itself; every further part speaks of one property *)
(* and is inductive together with Types.  The readings that wait, the mode *)
(* that readings lead to and the writes of a chain that hold up a command  *)
(* are given by recursion or by counting; what is needed of them is how an *)
(* append and a settled head change them, which the first sections prove   *)
(* from the least position at which a claim would fail (Steps).            *)
(***************************************************************************)
EXTENDS ControlLoop, SequenceTheorems, FunctionTheorems, FiniteSetTheorems,
        WellFoundedInduction, TLAPS

-----------------------------------------------------------------------------
(* Induction.                                                              *)

\* A set of numbers up to n that holds 0, and with each number the next, holds
\* all of them.
LEMMA Steps ==
  ASSUME NEW n \in Nat, NEW K, 0 \in K, \A k \in 0..(n - 1) : k \in K => k + 1 \in K
  PROVE  0..n \subseteq K
<1> DEFINE T == {k \in 0..n : k \notin K}
           Less == {p \in Nat \X Nat : p[1] < p[2]}
<1> SUFFICES ASSUME T # {}
             PROVE  FALSE
  OBVIOUS
<1>1. IsWellFoundedOn(Less, Nat)
  BY NatLessThanWellFounded DEF OpToRel
<1>2. PICK x \in T : \A y \in T : <<y, x>> \notin Less
  <2>1. T \in SUBSET Nat
    OBVIOUS
  <2> HIDE DEF T, Less
  <2> QED
    BY <1>1, <2>1, WFMin
<1>3. x \in 0..n /\ x # 0 /\ x \notin K
  BY <1>2
<1>4. x - 1 \in 0..(n - 1) /\ x - 1 \in K
  <2>1. x - 1 \in Nat /\ x - 1 < x /\ x \in Nat /\ x - 1 \in 0..(n - 1) /\ x - 1 \in 0..n
    BY <1>3
  <2>2. <<x - 1, x>> \in Less
    BY <2>1
  <2>3. x - 1 \notin T
    BY <1>2, <2>2
  <2>4. x - 1 \in K
    BY <2>1, <2>3
  <2> QED
    BY <1>3, <2>1, <2>4
<1>5. PICK k \in 0..(n - 1) : k = x - 1
  BY <1>4
<1>6. k + 1 \in K
  BY <1>4, <1>5
<1>7. k + 1 = x
  BY <1>3, <1>5
<1> QED
  BY <1>3, <1>6, <1>7

-----------------------------------------------------------------------------
(* The elements of a sequence that are in a set.                           *)

\* What is kept of the first i elements, for each i up to n.
KeptOf(s, T, n, f) ==
  f = [i \in 0..n |->
         IF i = 0 THEN <<>> ELSE IF s[i] \in T THEN Append(f[i - 1], s[i]) ELSE f[i - 1]]

LEMMA KeptExists ==
  ASSUME NEW S, NEW s \in Seq(S), NEW T
  PROVE  \E f : KeptOf(s, T, Len(s), f) /\ Selected(s, T) = f[Len(s)]
<1> DEFINE K == {k \in 0..Len(s) : \E f : KeptOf(s, T, k, f)}
<1>1. Len(s) \in Nat
  BY LenProperties
<1>2. 0 \in K
  <2>1. KeptOf(s, T, 0, [i \in 0..0 |-> <<>>])
    BY DEF KeptOf
  <2> QED
    BY <1>1, <2>1
<1>3. ASSUME NEW k \in 0..(Len(s) - 1), k \in K
      PROVE  k + 1 \in K
  <2>1. PICK f : KeptOf(s, T, k, f)
    BY <1>3
  <2> DEFINE next == IF s[k + 1] \in T THEN Append(f[k], s[k + 1]) ELSE f[k]
             g == [i \in 0..(k + 1) |-> IF i <= k THEN f[i] ELSE next]
  <2>2. k \in Nat /\ \A i \in 0..k : f[i] = IF i = 0 THEN <<>>
                          ELSE IF s[i] \in T THEN Append(f[i - 1], s[i]) ELSE f[i - 1]
    <3>1. \A i \in 0..k : f[i] = IF i = 0 THEN <<>>
                          ELSE IF s[i] \in T THEN Append(f[i - 1], s[i]) ELSE f[i - 1]
      BY <2>1, Zenon DEF KeptOf
    <3> QED
      BY <1>1, <3>1
  <2>3. \A i \in 0..k : g[i] = f[i] /\ (i # 0 => g[i - 1] = f[i - 1])
    BY <2>2
  <2>4. g[k + 1] = next /\ g[(k + 1) - 1] = f[k]
    BY <2>2
  <2>5. \A i \in 0..(k + 1) : i \in 0..k \/ i = k + 1
    BY <2>2
  <2>6. \A i \in 0..(k + 1) : g[i] = IF i = 0 THEN <<>>
                          ELSE IF s[i] \in T THEN Append(g[i - 1], s[i]) ELSE g[i - 1]
    <3> SUFFICES ASSUME NEW i \in 0..(k + 1)
                 PROVE  g[i] = IF i = 0 THEN <<>>
                          ELSE IF s[i] \in T THEN Append(g[i - 1], s[i]) ELSE g[i - 1]
      OBVIOUS
    <3>1. CASE i \in 0..k
      <4> HIDE DEF g
      <4> QED
        BY <2>2, <2>3, <3>1
    <3>2. CASE i = k + 1
      <4>1. k + 1 # 0
        BY <2>2
      <4> HIDE DEF g
      <4> QED
        BY <2>4, <3>2, <4>1
    <3> QED
      BY <2>5, <3>1, <3>2
  <2>7. KeptOf(s, T, k + 1, g)
    BY <2>6, Zenon DEF KeptOf
  <2> QED
    BY <1>1, <2>7
<1>4. \E f : KeptOf(s, T, Len(s), f)
  <2>1. 0..Len(s) \subseteq K
    <3> HIDE DEF K
    <3> QED
      BY <1>1, <1>2, <1>3, Steps
  <2> QED
    BY <1>1, <2>1
<1>5. Selected(s, T) = (CHOOSE f : KeptOf(s, T, Len(s), f))[Len(s)]
  BY DEF Selected, KeptOf
<1> QED
  BY <1>4, <1>5

Grows(s, T, f) ==
  /\ f[0] = <<>> /\ Selected(s, T) = f[Len(s)]
  /\ \A k \in 0..(Len(s) - 1) :
       f[k + 1] = IF s[k + 1] \in T THEN Append(f[k], s[k + 1]) ELSE f[k]

\* What is kept grows with the elements looked at.
LEMMA SelectedSteps ==
  ASSUME NEW S, NEW s \in Seq(S), NEW T
  PROVE  \E f : Grows(s, T, f)
<1> DEFINE n == Len(s)
<1>1. PICK f : KeptOf(s, T, n, f) /\ Selected(s, T) = f[n]
  BY KeptExists
<1>2. n \in Nat
  BY LenProperties
<1> HIDE DEF n
<1>3. \A i \in 0..n : f[i] = IF i = 0 THEN <<>>
                        ELSE IF s[i] \in T THEN Append(f[i - 1], s[i]) ELSE f[i - 1]
  BY <1>1, Zenon DEF KeptOf
<1>4. f[0] = <<>>
  BY <1>2, <1>3
<1>5. ASSUME NEW k \in 0..(n - 1)
      PROVE  f[k + 1] = IF s[k + 1] \in T THEN Append(f[k], s[k + 1]) ELSE f[k]
  <2>1. PICK i \in 0..n : i = k + 1 /\ i # 0 /\ i - 1 = k
    BY <1>2
  <2> QED
    BY <1>3, <2>1
<1> QED
  BY <1>1, <1>4, <1>5 DEF n, Grows

\* They are elements of the sequence and of the set.
LEMMA SelectedType ==
  ASSUME NEW S, NEW s \in Seq(S), NEW T
  PROVE  Selected(s, T) \in Seq(S \cap T)
<1>2. Len(s) \in Nat /\ \A k \in 1..Len(s) : s[k] \in S
  BY LenProperties, ElementOfSeq
<1>3. PICK f : Grows(s, T, f)
  BY SelectedSteps
<1> DEFINE K == {k \in 0..Len(s) : f[k] \in Seq(S \cap T)}
<1>4. 0 \in K
  <2>1. <<>> \in Seq(S \cap T)
    BY EmptySeq
  <2>2. 0 \in 0..Len(s) /\ f[0] \in Seq(S \cap T)
    BY <1>2, <1>3, <2>1 DEF Grows
  <2> QED
    BY <2>2, Zenon
<1>5. ASSUME NEW k \in 0..(Len(s) - 1), k \in K
      PROVE  k + 1 \in K
  <2>1. k + 1 \in 1..Len(s) /\ s[k + 1] \in S /\ f[k] \in Seq(S \cap T)
    BY <1>2, <1>5
  <2>2. CASE s[k + 1] \in T
    <3>1. f[k + 1] = Append(f[k], s[k + 1])
      BY <1>3, <2>2 DEF Grows
    <3>2. s[k + 1] \in S \cap T
      BY <2>1, <2>2
    <3>3. f[k + 1] \in Seq(S \cap T)
      BY <2>1, <3>1, <3>2, AppendProperties
    <3> QED
      BY <2>1, <3>3
  <2>3. CASE s[k + 1] \notin T
    BY <1>3, <2>1, <2>3 DEF Grows
  <2> QED
    BY <2>2, <2>3
<1>6. Len(s) \in K
  <2>1. 0..Len(s) \subseteq K
    <3> HIDE DEF K
    <3> QED
      BY <1>2, <1>4, <1>5, Steps
  <2> QED
    BY <1>2, <2>1
<1> QED
  BY <1>3, <1>6 DEF Grows

\* Of no element nothing is kept.
LEMMA SelectedEmpty ==
  ASSUME NEW T
  PROVE  Selected(<<>>, T) = <<>>
<1>1. <<>> \in Seq({}) /\ Len(<<>>) = 0
  BY EmptySeq
<1>2. \E f : f[0] = <<>> /\ Selected(<<>>, T) = f[Len(<<>>)]
  BY <1>1, SelectedSteps DEF Grows
<1> QED
  BY <1>1, <1>2

\* An element more at the end.
LEMMA SelectedAppend ==
  ASSUME NEW S, NEW s \in Seq(S), NEW x \in S, NEW T
  PROVE  Selected(Append(s, x), T) =
           IF x \in T THEN Append(Selected(s, T), x) ELSE Selected(s, T)
<1> DEFINE t == Append(s, x)
<1>1. /\ t \in Seq(S) /\ Len(t) = Len(s) + 1 /\ Len(s) \in Nat
      /\ \A k \in 1..Len(s) : t[k] = s[k]
      /\ t[Len(s) + 1] = x
  BY AppendProperties, LenProperties
<1> HIDE DEF t
<1>2. PICK f : Grows(s, T, f)
  BY SelectedSteps
<1>3. PICK g : Grows(t, T, g)
  BY <1>1, SelectedSteps
<1>4. /\ g[0] = <<>> /\ Selected(t, T) = g[Len(s) + 1]
      /\ \A k \in 0..Len(s) :
           g[k + 1] = IF t[k + 1] \in T THEN Append(g[k], t[k + 1]) ELSE g[k]
  <2>1. Len(t) - 1 = Len(s)
    BY <1>1
  <2> QED
    BY <1>1, <1>3, <2>1 DEF Grows
<1> DEFINE K == {k \in 0..Len(s) : g[k] = f[k]}
<1>6. 0 \in K
  BY <1>1, <1>2, <1>4 DEF Grows
<1>7. ASSUME NEW k \in 0..(Len(s) - 1), k \in K
      PROVE  k + 1 \in K
  <2>1. k \in 0..Len(s) /\ k + 1 \in 0..Len(s) /\ t[k + 1] = s[k + 1] /\ g[k] = f[k]
    BY <1>1, <1>7
  <2>2. g[k + 1] = f[k + 1]
    BY <1>2, <1>4, <2>1 DEF Grows
  <2> QED
    BY <2>1, <2>2
<1>8. g[Len(s)] = f[Len(s)]
  <2>1. 0..Len(s) \subseteq K
    <3> HIDE DEF K
    <3> QED
      BY <1>1, <1>6, <1>7, Steps
  <2> QED
    BY <1>1, <2>1
<1>9. Selected(t, T) = IF x \in T THEN Append(f[Len(s)], x) ELSE f[Len(s)]
  BY <1>1, <1>4, <1>8
<1> QED
  BY <1>2, <1>9 DEF t, Grows

\* An element less at the front.
LEMMA SelectedTail ==
  ASSUME NEW S, NEW s \in Seq(S), NEW T, s # <<>>
  PROVE  Selected(s, T) = IF Head(s) \in T THEN <<Head(s)>> \o Selected(Tail(s), T)
                                           ELSE Selected(Tail(s), T)
<1> DEFINE t == Tail(s)
           a == s[1]
<1>1. /\ t \in Seq(S) /\ Len(s) = Len(t) + 1 /\ Len(t) \in Nat
      /\ \A k \in 1..Len(t) : t[k] = s[k + 1] /\ s[k + 1] \in S
      /\ Head(s) = a /\ a \in S
  <2>1. Len(s) \in Nat \ {0}
    BY EmptySeq, SMT
  <2>2. /\ t \in Seq(S) /\ Len(t) = Len(s) - 1 /\ Head(s) \in S
        /\ \A k \in 1..Len(t) : t[k] = s[k + 1]
    BY HeadTailProperties
  <2>3. Head(s) = a
    BY <2>1, SMT
  <2>4. \A k \in 1..Len(s) : s[k] \in S
    BY ElementOfSeq
  <2> HIDE DEF t, a
  <2> QED
    BY <2>1, <2>2, <2>3, <2>4
<1> HIDE DEF t, a
<1>2. PICK f : Grows(s, T, f)
  BY SelectedSteps
<1>3. PICK g : Grows(t, T, g)
  BY <1>1, SelectedSteps
<1>4. /\ f[0] = <<>> /\ Selected(s, T) = f[Len(t) + 1]
      /\ \A k \in 0..Len(t) :
           f[k + 1] = IF s[k + 1] \in T THEN Append(f[k], s[k + 1]) ELSE f[k]
  <2>1. Len(s) - 1 = Len(t)
    BY <1>1
  <2> QED
    BY <1>1, <1>2, <2>1 DEF Grows
<1> DEFINE With(q) == IF a \in T THEN <<a>> \o q ELSE q
           K == {k \in 0..Len(t) : g[k] \in Seq(S) /\ f[k + 1] = With(g[k])}
<1>6. 0 \in K
  <2>1. s[0 + 1] = a /\ f[0 + 1] = f[1] /\ 0 \in 0..Len(t)
    BY <1>1 DEF a
  <2>2. f[1] = IF a \in T THEN Append(<<>>, a) ELSE <<>>
    BY <1>4, <2>1
  <2>3. Append(<<>>, a) = <<a>> \o <<>> /\ <<>> \in Seq(S)
    BY <1>1, EmptySeq, AppendIsConcat, ConcatEmptySeq
  <2> QED
    BY <1>3, <2>1, <2>2, <2>3 DEF Grows
<1>7. ASSUME NEW k \in 0..(Len(t) - 1), k \in K
      PROVE  k + 1 \in K
  <2>1. k + 1 \in 0..Len(t) /\ k + 1 \in 1..Len(t) /\ k \in 0..Len(t)
    BY <1>1
  <2>2. t[k + 1] = s[(k + 1) + 1] /\ t[k + 1] \in S
    BY <1>1, <2>1
  <2>3. g[k] \in Seq(S) /\ f[k + 1] = With(g[k])
    BY <1>7
  <2>4. f[(k + 1) + 1] = IF t[k + 1] \in T THEN Append(f[k + 1], t[k + 1]) ELSE f[k + 1]
    BY <1>4, <2>1, <2>2
  <2>5. g[k + 1] = IF t[k + 1] \in T THEN Append(g[k], t[k + 1]) ELSE g[k]
    BY <1>3 DEF Grows
  <2>6. Append(With(g[k]), t[k + 1]) = With(Append(g[k], t[k + 1]))
    <3> DEFINE y == t[k + 1]
               q == g[k]
    <3>1. q \in Seq(S) /\ y \in S /\ <<a>> \in Seq(S) /\ <<y>> \in Seq(S)
      BY <1>1, <2>2, <2>3
    <3> HIDE DEF y, q
    <3>2. <<a>> \o q \in Seq(S)
      BY <3>1, ConcatProperties
    <3>3. Append(<<a>> \o q, y) = (<<a>> \o q) \o <<y>>
      BY <3>1, <3>2, AppendIsConcat
    <3>4. Append(q, y) = q \o <<y>>
      BY <3>1, AppendIsConcat
    <3>5. (<<a>> \o q) \o <<y>> = <<a>> \o (q \o <<y>>)
      BY <3>1, ConcatAssociative
    <3>6. Append(With(q), y) = With(Append(q, y))
      BY <3>3, <3>4, <3>5
    <3> QED
      BY <3>6 DEF y, q
  <2>7. g[k + 1] \in Seq(S)
    BY <2>2, <2>3, <2>5, AppendProperties
  <2>8. f[(k + 1) + 1] = With(g[k + 1])
    <3> HIDE DEF With
    <3> QED
      BY <2>3, <2>4, <2>5, <2>6
  <2> HIDE DEF With
  <2> QED
    BY <2>1, <2>7, <2>8
<1>8. f[Len(t) + 1] = With(g[Len(t)])
  <2>1. 0..Len(t) \subseteq K
    <3> HIDE DEF K
    <3> QED
      BY <1>1, <1>6, <1>7, Steps
  <2> QED
    BY <1>1, <2>1
<1> QED
  BY <1>1, <1>3, <1>4, <1>8 DEF t, Grows

-----------------------------------------------------------------------------
(* The mode that some readings lead to.                                    *)

\* The mode after the first i readings, for each i up to n.
ReplayOf(r, n, f) ==
  f = [i \in 0..n |-> IF i = 0 THEN "NONE" ELSE NextMode(EntryOf(f[i - 1]), r[i])]

LEMMA ReplayExists ==
  ASSUME NEW S, NEW r \in Seq(S)
  PROVE  \E f : ReplayOf(r, Len(r), f) /\ Replay(r) = f[Len(r)]
<1> DEFINE K == {k \in 0..Len(r) : \E f : ReplayOf(r, k, f)}
<1>1. Len(r) \in Nat
  BY LenProperties
<1>2. 0 \in K
  <2>1. ReplayOf(r, 0, [i \in 0..0 |-> "NONE"])
    BY DEF ReplayOf
  <2> QED
    BY <1>1, <2>1
<1>3. ASSUME NEW k \in 0..(Len(r) - 1), k \in K
      PROVE  k + 1 \in K
  <2>1. PICK f : ReplayOf(r, k, f)
    BY <1>3
  <2> DEFINE next == NextMode(EntryOf(f[k]), r[k + 1])
             g == [i \in 0..(k + 1) |-> IF i <= k THEN f[i] ELSE next]
  <2>2. k \in Nat /\ \A i \in 0..k : f[i] = IF i = 0 THEN "NONE"
                                            ELSE NextMode(EntryOf(f[i - 1]), r[i])
    <3>1. \A i \in 0..k : f[i] = IF i = 0 THEN "NONE" ELSE NextMode(EntryOf(f[i - 1]), r[i])
      BY <2>1, Zenon DEF ReplayOf
    <3> QED
      BY <1>1, <3>1
  <2>3. \A i \in 0..k : g[i] = f[i] /\ (i # 0 => g[i - 1] = f[i - 1])
    <3> HIDE DEF next
    <3> QED
      BY <2>2
  <2>4. g[k + 1] = next /\ g[(k + 1) - 1] = f[k]
    <3> HIDE DEF next
    <3> QED
      BY <2>2
  <2>5. \A i \in 0..(k + 1) : i \in 0..k \/ i = k + 1
    BY <2>2
  <2>6. ASSUME NEW i \in 0..(k + 1)
        PROVE  g[i] = IF i = 0 THEN "NONE" ELSE NextMode(EntryOf(g[i - 1]), r[i])
    <3> HIDE DEF g
    <3>1. CASE i \in 0..k
      BY <2>2, <2>3, <3>1
    <3>2. CASE i = k + 1
      <4>1. k + 1 # 0
        BY <2>2
      <4> QED
        BY <2>4, <3>2, <4>1
    <3> QED
      BY <2>5, <3>1, <3>2
  <2>7. ReplayOf(r, k + 1, g)
    BY <2>6, Zenon DEF ReplayOf
  <2> QED
    BY <1>1, <2>7
<1>4. \E f : ReplayOf(r, Len(r), f)
  <2>1. 0..Len(r) \subseteq K
    <3> HIDE DEF K
    <3> QED
      BY <1>1, <1>2, <1>3, Steps
  <2> QED
    BY <1>1, <2>1
<1>5. Replay(r) = (CHOOSE f : ReplayOf(r, Len(r), f))[Len(r)]
  BY DEF Replay, ReplayOf
<1> QED
  BY <1>4, <1>5

\* One reading after the other.
Advances(r, f) ==
  /\ f[0] = "NONE" /\ Replay(r) = f[Len(r)]
  /\ \A k \in 0..(Len(r) - 1) : f[k + 1] = NextMode(EntryOf(f[k]), r[k + 1])

LEMMA ReplaySteps ==
  ASSUME NEW S, NEW r \in Seq(S)
  PROVE  \E f : Advances(r, f)
<1> DEFINE n == Len(r)
<1>1. PICK f : ReplayOf(r, n, f) /\ Replay(r) = f[n]
  BY ReplayExists
<1>2. n \in Nat
  BY LenProperties
<1> HIDE DEF n
<1>3. \A i \in 0..n : f[i] = IF i = 0 THEN "NONE" ELSE NextMode(EntryOf(f[i - 1]), r[i])
  BY <1>1, Zenon DEF ReplayOf
<1>4. f[0] = "NONE"
  BY <1>2, <1>3
<1>5. ASSUME NEW k \in 0..(n - 1)
      PROVE  f[k + 1] = NextMode(EntryOf(f[k]), r[k + 1])
  <2>1. PICK i \in 0..n : i = k + 1 /\ i # 0 /\ i - 1 = k
    BY <1>2
  <2> QED
    BY <1>3, <2>1
<1> QED
  BY <1>1, <1>4, <1>5 DEF n, Advances

\* No reading leads to no entry.
LEMMA ReplayEmpty == Replay(<<>>) = "NONE"
<1>1. <<>> \in Seq({}) /\ Len(<<>>) = 0
  BY EmptySeq
<1>2. \E f : Advances(<<>>, f)
  BY <1>1, ReplaySteps
<1> QED
  BY <1>1, <1>2 DEF Advances

\* A reading more.
LEMMA ReplayAppend ==
  ASSUME NEW S, NEW r \in Seq(S), NEW p \in S
  PROVE  Replay(Append(r, p)) = NextMode(EntryOf(Replay(r)), p)
<1> DEFINE t == Append(r, p)
<1>1. /\ t \in Seq(S) /\ Len(t) = Len(r) + 1 /\ Len(r) \in Nat
      /\ \A k \in 1..Len(r) : t[k] = r[k]
      /\ t[Len(r) + 1] = p
  BY AppendProperties, LenProperties
<1> HIDE DEF t
<1>2. PICK f : Advances(r, f)
  BY ReplaySteps
<1>3. PICK g : Advances(t, g)
  BY <1>1, ReplaySteps
<1>4. /\ g[0] = "NONE" /\ Replay(t) = g[Len(r) + 1]
      /\ \A k \in 0..Len(r) : g[k + 1] = NextMode(EntryOf(g[k]), t[k + 1])
  <2>1. Len(t) - 1 = Len(r)
    BY <1>1
  <2> QED
    BY <1>1, <1>3, <2>1 DEF Advances
<1> DEFINE K == {k \in 0..Len(r) : g[k] = f[k]}
<1>5. 0 \in K
  BY <1>1, <1>2, <1>4 DEF Advances
<1>6. ASSUME NEW k \in 0..(Len(r) - 1), k \in K
      PROVE  k + 1 \in K
  <2>1. k \in 0..Len(r) /\ k + 1 \in 0..Len(r) /\ t[k + 1] = r[k + 1] /\ g[k] = f[k]
    BY <1>1, <1>6
  <2>2. g[k + 1] = f[k + 1]
    BY <1>2, <1>4, <2>1 DEF Advances
  <2> QED
    BY <2>1, <2>2
<1>7. g[Len(r)] = f[Len(r)]
  <2>1. 0..Len(r) \subseteq K
    <3> HIDE DEF K
    <3> QED
      BY <1>1, <1>5, <1>6, Steps
  <2> QED
    BY <1>1, <2>1
<1>8. Replay(t) = NextMode(EntryOf(f[Len(r)]), p)
  BY <1>1, <1>4, <1>7
<1> QED
  BY <1>2, <1>8 DEF t, Advances

-----------------------------------------------------------------------------
(* Queues.                                                                 *)

\* The first element and the rest of a non-empty sequence.
LEMMA FrontOf ==
  ASSUME NEW S, NEW s \in Seq(S), s # <<>>
  PROVE  /\ Len(s) \in Nat \ {0} /\ s[1] \in S /\ Head(s) = s[1]
         /\ Tail(s) \in Seq(S) /\ Len(Tail(s)) = Len(s) - 1
         /\ \A i \in 1..Len(Tail(s)) : i + 1 \in 1..Len(s) /\ Tail(s)[i] = s[i + 1]
<1>1. Len(s) \in Nat \ {0}
  BY EmptySeq, SMT
<1>2. Head(s) = s[1] /\ Head(s) \in S
  BY <1>1, HeadTailProperties, SMT
<1>3. Tail(s) \in Seq(S) /\ Len(Tail(s)) = Len(s) - 1
  BY HeadTailProperties
<1>4. \A i \in 1..Len(Tail(s)) : i + 1 \in 1..Len(s) /\ Tail(s)[i] = s[i + 1]
  BY <1>1, <1>3, HeadTailProperties, SMT
<1> QED
  BY <1>1, <1>2, <1>3, <1>4, SMT

LEMMA FirstEffect ==
  ASSUME NEW effects \in Seq(1..MaxPoints), effects # <<>>
  PROVE  Head(effects) \in 1..MaxPoints
<1> DEFINE S == 1..MaxPoints
<1>1. effects \in Seq(S)
  OBVIOUS
<1> HIDE DEF S
<1>2. Head(effects) \in S
  BY <1>1, FrontOf
<1> QED
  BY <1>2 DEF S

\* An element more at the end.
LEMMA EndOf ==
  ASSUME NEW S, NEW s \in Seq(S), NEW x \in S
  PROVE  /\ Len(s) \in Nat /\ Append(s, x) \in Seq(S) /\ Append(s, x) # <<>>
         /\ Len(Append(s, x)) = Len(s) + 1
         /\ \A i \in 1..Len(s) : Append(s, x)[i] = s[i]
         /\ Append(s, x)[Len(s) + 1] = x
BY AppendProperties, LenProperties

\* The write that settles is the first of its chain.
LEMMA SettlesFirst ==
  ASSUME NEW S, NEW s \in Seq(S), NEW i \in InTurn(s)
  PROVE  i = 1 /\ s # <<>> /\ RemoveAt(s, i) = Tail(s)
<1>1. i = 1 /\ s # <<>>
  BY DEF InTurn
<1>2. Tail(s) = SubSeq(s, 2, Len(s)) /\ Tail(s) \in Seq(S)
  BY <1>1, TailIsSubSeq, HeadTailProperties
<1>3. SubSeq(s, 1, 0) = <<>>
  BY SubSeqEmpty
<1>4. RemoveAt(s, 1) = <<>> \o Tail(s)
  BY <1>2, <1>3 DEF RemoveAt
<1>5. <<>> \o Tail(s) = Tail(s)
  BY <1>2, ConcatEmptySeq
<1> QED
  BY <1>1, <1>4, <1>5

-----------------------------------------------------------------------------
(* Types.                                                                  *)

Writes    == [event : LogEvents, next : Seq(LogEvents), effects : Seq(1..MaxPoints)]
Requests  == [device : Devices, number : 0..MaxPoints]
Proposals == [type : {"CURTAIL", "STANDBY"}, events : Nat]
Checks    == [type : AlarmTypes, on : BOOLEAN]

\* The coroutines of a chain persist the events of one device each.
OneDevice(chain) ==
  \A i \in 1..Len(chain) : \A j \in 1..Len(chain[i].next) :
    chain[i].next[j].device = chain[i].event.device

EngineOK ==
  /\ active \in [Devices -> SUBSET AlarmTypes]
  /\ acknowledged \in [Devices -> SUBSET AlarmTypes]
  /\ \A d \in Devices : acknowledged[d] \subseteq active[d]
  /\ raised \in [Devices -> [AlarmTypes -> 0..MaxRaised]]

ChainsOK ==
  /\ telemetryChain \in Seq([device : Devices, reading : Readings])
  /\ alarmChain \in Seq(Writes) /\ OneDevice(alarmChain)
  /\ commandChain \in Seq(Requests)

LogOK ==
  alarmLog \in [Devices -> [AlarmTypes -> [1..MaxRaised ->
                 {"NONE", "ACTIVE", "ACKNOWLEDGED", "CLEARED"}]]]

RestOK ==
  /\ registered \in [Devices -> {"UNKNOWN", "PRESENT", "REMOVED"}]
  /\ tracked \in [Devices -> BOOLEAN]
  /\ mode \in [Devices -> Modes \cup {"NONE"}]
  /\ removals \in [Devices -> Nat]
  /\ queued \in [Devices -> Int] /\ refused \in [Devices -> Int]
  /\ points \in 0..MaxPoints /\ faults \in 0..MaxFaults /\ sweeps \in 0..MaxSweeps
  /\ operations \in 0..MaxOperations

LEMMA TypeParts == TypeOK <=> EngineOK /\ ChainsOK /\ LogOK /\ RestOK
BY DEF TypeOK, EngineOK, ChainsOK, LogOK, RestOK, Writes, Requests, OneDevice

Histories ==
  /\ proposed \in [Devices -> Seq(Proposals)]
  /\ entered \in [Devices -> Seq(1..MaxPoints)]
  /\ accepted \in [Devices -> Seq(Readings)]
  /\ earlier \in [Devices -> Nat]
  /\ \A d \in Devices : earlier[d] <= Len(proposed[d])

\* Each alarm is raised by a point or a staleness evaluation, and each effect is
\* one of a point; an active alarm was raised.
Room ==
  /\ \A d \in Devices, t \in AlarmTypes :
       /\ raised[d][t] + Len(telemetryChain) <= points + sweeps
       /\ t \in active[d] => raised[d][t] >= 1
  /\ \A d \in Devices : Len(proposed[d]) + Len(telemetryChain) <= points

Types == EngineOK /\ ChainsOK /\ LogOK /\ RestOK /\ Histories /\ Room

LEMMA MaxRaisedType == MaxRaised \in Nat
BY BoundsAssumption DEF MaxRaised

\* What is checked of a point, and of the age of the last one.
LEMMA ChecksType ==
  /\ \A p : TelemetryChecks(p) \in Seq(Checks)
  /\ \A age : StalenessChecks(age) \in Seq(Checks)
<1>1. ASSUME NEW p
      PROVE  TelemetryChecks(p) \in Seq(Checks)
  <2> DEFINE v == IF p.voltage = "absent" THEN <<>>
                  ELSE <<Check("OVER_VOLTAGE", p.voltage = "high"),
                         Check("UNDER_VOLTAGE", p.voltage = "low")>>
             f == IF p.frequency = "absent" THEN <<>>
                  ELSE <<Check("HIGH_FREQUENCY", p.frequency = "high")>>
             c == IF p.soc = "absent" THEN <<>>
                  ELSE <<Check("LOW_SOC", p.soc = "low")>>
  <2>1. /\ \A b \in BOOLEAN : /\ Check("OVER_VOLTAGE", b) \in Checks
                              /\ Check("UNDER_VOLTAGE", b) \in Checks
                              /\ Check("HIGH_FREQUENCY", b) \in Checks
                              /\ Check("LOW_SOC", b) \in Checks
        /\ <<>> \in Seq(Checks)
    BY EmptySeq DEF Check, Checks, AlarmTypes
  <2>2. v \in Seq(Checks) /\ f \in Seq(Checks) /\ c \in Seq(Checks)
    <3> DEFINE hi == Check("OVER_VOLTAGE", p.voltage = "high")
               lo == Check("UNDER_VOLTAGE", p.voltage = "low")
               hf == Check("HIGH_FREQUENCY", p.frequency = "high")
               ls == Check("LOW_SOC", p.soc = "low")
    <3>1. hi \in Checks /\ lo \in Checks /\ hf \in Checks /\ ls \in Checks
      BY <2>1
    <3> HIDE DEF hi, lo, hf, ls
    <3>2. <<hi, lo>> \in Seq(Checks) /\ <<hf>> \in Seq(Checks) /\ <<ls>> \in Seq(Checks)
      BY <3>1
    <3> QED
      BY <2>1, <3>2 DEF hi, lo, hf, ls
  <2> HIDE DEF v, f, c
  <2>3. v \o f \in Seq(Checks)
    BY <2>2, ConcatProperties
  <2>4. (v \o f) \o c \in Seq(Checks)
    BY <2>2, <2>3, ConcatProperties
  <2> QED
    BY <2>4 DEF TelemetryChecks, v, f, c
<1>2. ASSUME NEW age
      PROVE  StalenessChecks(age) \in Seq(Checks)
  <2> DEFINE o == Check("DEVICE_OFFLINE", age = "offline")
             c == Check("COMM_TIMEOUT", age # "fresh")
  <2>1. o \in Checks /\ c \in Checks
    BY DEF Check, Checks, AlarmTypes
  <2> HIDE DEF o, c
  <2>2. <<o, c>> \in Seq(Checks)
    BY <2>1
  <2> QED
    BY <2>2 DEF StalenessChecks, o, c
<1> QED
  BY <1>1, <1>2

-----------------------------------------------------------------------------
(* The alarm engine.                                                       *)

\* The events of checks report changes: an alarm raised, with the next number,
\* or an active one cleared.
LEMMA EventsFacts ==
  ASSUME EngineOK, NEW d \in Devices, NEW checks \in Seq(Checks),
         \A t \in AlarmTypes : /\ raised[d][t] < MaxRaised
                               /\ t \in active[d] => raised[d][t] >= 1
  PROVE  /\ Events(d, checks) \in Seq(LogEvents)
         /\ \A i \in 1..Len(Events(d, checks)) :
              \E c \in ToSet(checks) : /\ Triggers(d, c) \/ Clears(d, c)
                                       /\ Events(d, checks)[i] = EventOf(d, c)
                                       /\ Events(d, checks)[i].device = d
<1> DEFINE T == {c \in ToSet(checks) : Triggers(d, c) \/ Clears(d, c)}
           changed == Selected(checks, T)
<1>1. changed \in Seq(Checks \cap T)
  BY SelectedType
<1>2. \A i \in 1..Len(changed) : changed[i] \in Checks /\ changed[i] \in T
  <2> HIDE DEF changed, T
  <2> QED
    BY <1>1, ElementOfSeq
<1>3. Len(changed) \in Nat
  <2> HIDE DEF changed, T
  <2> QED
    BY <1>1, LenProperties
<1>4. ASSUME NEW c \in Checks, Triggers(d, c) \/ Clears(d, c)
      PROVE  EventOf(d, c) \in LogEvents /\ EventOf(d, c).device = d
  <2>1. c.type \in AlarmTypes /\ c.on \in BOOLEAN
    BY DEF Checks
  <2>2. /\ raised[d][c.type] \in Nat /\ raised[d][c.type] < MaxRaised
        /\ c.type \in active[d] => raised[d][c.type] >= 1
    BY <2>1, MaxRaisedType DEF EngineOK
  <2>3. CASE c.on
    <3>1. EventOf(d, c) = [device |-> d, type |-> c.type, number |-> raised[d][c.type] + 1,
                           status |-> "ACTIVE"]
      BY <2>3 DEF EventOf, Event
    <3>2. raised[d][c.type] + 1 \in 1..MaxRaised
      BY <2>2, MaxRaisedType
    <3> QED
      BY <2>1, <3>1, <3>2 DEF LogEvents
  <2>4. CASE ~c.on
    <3>1. EventOf(d, c) = [device |-> d, type |-> c.type, number |-> raised[d][c.type],
                           status |-> "CLEARED"]
      BY <2>4 DEF EventOf, Event
    <3>2. c.type \in active[d]
      BY <1>4, <2>4 DEF Triggers, Clears
    <3>3. raised[d][c.type] \in 1..MaxRaised
      BY <2>2, <3>2, MaxRaisedType
    <3> QED
      BY <2>1, <3>1, <3>3 DEF LogEvents
  <2> QED
    BY <2>1, <2>3, <2>4
<1>5. \A c \in T : c \in ToSet(checks) /\ (Triggers(d, c) \/ Clears(d, c))
  OBVIOUS
<1>6. Events(d, checks) = [i \in 1..Len(changed) |-> EventOf(d, changed[i])]
  BY DEF Events
<1> HIDE DEF changed, T
<1>7. \A i \in 1..Len(changed) :
        EventOf(d, changed[i]) \in LogEvents /\ EventOf(d, changed[i]).device = d
  BY <1>2, <1>4, <1>5
<1>8. Events(d, checks) \in [1..Len(changed) -> LogEvents]
  BY <1>6, <1>7
<1>9. Events(d, checks) \in Seq(LogEvents)
  BY <1>3, <1>8, SeqDef
<1>10. Len(Events(d, checks)) = Len(changed)
  BY <1>3, <1>8, <1>9, LenProperties, SMT
<1>11. \A i \in 1..Len(Events(d, checks)) :
         \E c \in ToSet(checks) : /\ Triggers(d, c) \/ Clears(d, c)
                                  /\ Events(d, checks)[i] = EventOf(d, c)
                                  /\ Events(d, checks)[i].device = d
  <2> SUFFICES ASSUME NEW i \in 1..Len(changed)
               PROVE  \E c \in ToSet(checks) : /\ Triggers(d, c) \/ Clears(d, c)
                                               /\ Events(d, checks)[i] = EventOf(d, c)
                                               /\ Events(d, checks)[i].device = d
    BY <1>10
  <2>1. Events(d, checks)[i] = EventOf(d, changed[i])
    BY <1>6
  <2> QED
    BY <1>2, <1>5, <1>7, <2>1
<1> QED
  BY <1>9, <1>11

\* How an alarm of a device may change: it is raised once more, it ends, or it
\* stays, and then stays acknowledged.
Progresses(e, t) ==
  \/ /\ raised'[e][t] = raised[e][t]
     /\ t \in active'[e] => t \in active[e]
     /\ t \in active'[e] /\ t \in acknowledged[e] => t \in acknowledged'[e]
  \/ raised'[e][t] = raised[e][t] + 1 /\ t \notin active[e]

\* What the checks of a device change in the map.
LEMMA EvaluateFacts ==
  ASSUME EngineOK, NEW d \in Devices, NEW checks \in Seq(Checks), Evaluate(d, checks),
         \A t \in AlarmTypes : raised[d][t] < MaxRaised
  PROVE  /\ EngineOK'
         /\ \A e \in Devices, t \in AlarmTypes : Progresses(e, t)
         /\ \A c \in ToSet(checks) :
              /\ c \in Checks
              /\ Triggers(d, c) => raised'[d][c.type] = raised[d][c.type] + 1
              /\ Clears(d, c) => /\ c.type \notin active'[d]
                                 /\ raised'[d][c.type] = raised[d][c.type]
<1> DEFINE A == Triggered(d, checks)
           C == Cleared(d, checks)
<1>1. /\ active' = [active EXCEPT ![d] = (active[d] \cup A) \ C]
      /\ acknowledged' = [acknowledged EXCEPT ![d] = acknowledged[d] \ C]
      /\ raised' = [raised EXCEPT ![d] =
                      [t \in AlarmTypes |-> IF t \in A THEN raised[d][t] + 1 ELSE raised[d][t]]]
  BY DEF Evaluate, ActiveAfter, AcknowledgedAfter, EngineOK
<1>2. \A c \in ToSet(checks) : c \in Checks /\ c.type \in AlarmTypes
  <2>1. \A i \in DOMAIN checks : checks[i] \in Checks
    BY LenProperties, ElementOfSeq
  <2> QED
    BY <2>1 DEF ToSet, Checks
<1>3. /\ \A c \in ToSet(checks) : /\ Triggers(d, c) => c.type \in A /\ c.type \notin active[d]
                                  /\ Clears(d, c) => c.type \in C /\ c.type \in active[d]
      /\ \A t \in A : t \notin active[d] /\ t \in AlarmTypes
      /\ \A t \in C : t \in active[d]
  BY <1>2 DEF Triggered, Cleared, Triggers, Clears
<1> HIDE DEF A, C
<1>4. /\ raised[d] \in [AlarmTypes -> 0..MaxRaised] /\ active[d] \in SUBSET AlarmTypes
      /\ acknowledged[d] \in SUBSET AlarmTypes /\ acknowledged[d] \subseteq active[d]
  BY DEF EngineOK
<1>5. /\ active'[d] = (active[d] \cup A) \ C
      /\ acknowledged'[d] = acknowledged[d] \ C
      /\ raised'[d] = [t \in AlarmTypes |->
                         IF t \in A THEN raised[d][t] + 1 ELSE raised[d][t]]
      /\ \A e \in Devices : e # d => /\ active'[e] = active[e]
                                     /\ acknowledged'[e] = acknowledged[e]
                                     /\ raised'[e] = raised[e]
  BY <1>1 DEF EngineOK
<1>6. EngineOK'
  <2>1. (active[d] \cup A) \ C \in SUBSET AlarmTypes
    BY <1>3, <1>4
  <2>2. active' \in [Devices -> SUBSET AlarmTypes]
    BY <1>1, <2>1 DEF EngineOK
  <2>3. acknowledged' \in [Devices -> SUBSET AlarmTypes]
    <3>1. acknowledged[d] \ C \in SUBSET AlarmTypes
      BY <1>4
    <3> QED
      BY <1>1, <3>1 DEF EngineOK
  <2>4. \A e \in Devices : acknowledged'[e] \subseteq active'[e]
    <3> SUFFICES ASSUME NEW e \in Devices
                 PROVE  acknowledged'[e] \subseteq active'[e]
      OBVIOUS
    <3>1. CASE e = d
      BY <1>4, <1>5, <3>1
    <3>2. CASE e # d
      BY <1>5, <3>2 DEF EngineOK
    <3> QED
      BY <3>1, <3>2
  <2>5. raised' \in [Devices -> [AlarmTypes -> 0..MaxRaised]]
    <3> DEFINE R == [t \in AlarmTypes |->
                       IF t \in A THEN raised[d][t] + 1 ELSE raised[d][t]]
    <3>1. R \in [AlarmTypes -> 0..MaxRaised]
      <4>1. \A t \in AlarmTypes : /\ raised[d][t] \in 0..MaxRaised
                                  /\ raised[d][t] + 1 \in 0..MaxRaised
        BY <1>4, MaxRaisedType
      <4> QED
        BY <4>1
    <3> HIDE DEF R
    <3>2. raised' = [raised EXCEPT ![d] = R]
      BY <1>1 DEF R
    <3> QED
      BY <3>1, <3>2 DEF EngineOK
  <2> QED
    BY <2>2, <2>3, <2>4, <2>5 DEF EngineOK
<1>7. ASSUME NEW e \in Devices, NEW t \in AlarmTypes
      PROVE  Progresses(e, t)
  <2>1. CASE e # d
    BY <1>5, <2>1 DEF Progresses
  <2>2. CASE e = d /\ t \in A
    <3>1. raised'[e][t] = raised[e][t] + 1 /\ t \notin active[e]
      BY <1>3, <1>5, <2>2
    <3> QED
      BY <3>1 DEF Progresses
  <2>3. CASE e = d /\ t \notin A
    <3>1. raised'[e][t] = raised[e][t]
      BY <1>5, <2>3
    <3>2. t \in active'[e] => t \in active[e] /\ t \notin C
      BY <1>5, <2>3
    <3>3. t \in acknowledged[e] /\ t \notin C => t \in acknowledged'[e]
      BY <1>5, <2>3
    <3> QED
      BY <3>1, <3>2, <3>3 DEF Progresses
  <2> QED
    BY <2>1, <2>2, <2>3
<1>8. ASSUME NEW c \in ToSet(checks)
      PROVE  /\ Triggers(d, c) => raised'[d][c.type] = raised[d][c.type] + 1
             /\ Clears(d, c) => /\ c.type \notin active'[d]
                                /\ raised'[d][c.type] = raised[d][c.type]
  <2>1. c.type \in AlarmTypes
    BY <1>2
  <2>2. Triggers(d, c) => c.type \in A
    BY <1>3
  <2>3. Clears(d, c) => c.type \in C /\ c.type \notin A
    BY <1>3
  <2>4. /\ c.type \in A => raised'[d][c.type] = raised[d][c.type] + 1
        /\ c.type \notin A => raised'[d][c.type] = raised[d][c.type]
    BY <1>5, <2>1
  <2>5. c.type \in C => c.type \notin active'[d]
    BY <1>5
  <2> QED
    BY <2>2, <2>3, <2>4, <2>5
<1> QED
  BY <1>2, <1>6, <1>7, <1>8

-----------------------------------------------------------------------------
(* Coroutines.                                                             *)

\* A coroutine hands its next event to the chain of alarms, or its command to
\* that of commands, or it ends.
LEMMA GoOnFacts ==
  ASSUME NEW d \in Devices, NEW events \in Seq(LogEvents), NEW effects \in Seq(1..MaxPoints),
         \A i \in 1..Len(events) : events[i].device = d,
         NEW alarms \in Seq(Writes), OneDevice(alarms), NEW commands \in Seq(Requests),
         entered \in [Devices -> Seq(1..MaxPoints)],
         GoOn(d, events, effects, alarms, commands)
  PROVE  /\ alarmChain' \in Seq(Writes) /\ OneDevice(alarmChain')
         /\ commandChain' \in Seq(Requests)
         /\ entered' \in [Devices -> Seq(1..MaxPoints)]
<1>1. CASE events # <<>>
  <2> DEFINE w == [event |-> Head(events), next |-> Tail(events), effects |-> effects]
  <2>1. /\ alarmChain' = Append(alarms, w) /\ commandChain' = commands /\ entered' = entered
    BY <1>1 DEF GoOn
  <2>2. /\ Len(events) \in Nat \ {0} /\ Head(events) = events[1] /\ events[1] \in LogEvents
        /\ Tail(events) \in Seq(LogEvents)
        /\ \A i \in 1..Len(Tail(events)) :
             i + 1 \in 1..Len(events) /\ Tail(events)[i] = events[i + 1]
    BY <1>1, FrontOf
  <2>3. w \in Writes
    BY <2>2 DEF Writes
  <2>4. \A j \in 1..Len(w.next) : w.next[j].device = w.event.device
    BY <2>2
  <2> HIDE DEF w
  <2>5. /\ Len(alarms) \in Nat /\ Append(alarms, w) \in Seq(Writes)
        /\ Len(Append(alarms, w)) = Len(alarms) + 1
        /\ \A i \in 1..Len(alarms) : Append(alarms, w)[i] = alarms[i]
        /\ Append(alarms, w)[Len(alarms) + 1] = w
    BY <2>3, EndOf
  <2>6. OneDevice(Append(alarms, w))
    <3> SUFFICES ASSUME NEW i \in 1..(Len(alarms) + 1)
                 PROVE  \A j \in 1..Len(Append(alarms, w)[i].next) :
                          Append(alarms, w)[i].next[j].device
                            = Append(alarms, w)[i].event.device
      BY <2>5 DEF OneDevice
    <3>1. CASE i \in 1..Len(alarms)
      BY <2>5, <3>1 DEF OneDevice
    <3>2. CASE i = Len(alarms) + 1
      BY <2>4, <2>5, <3>2
    <3> QED
      BY <2>5, <3>1, <3>2
  <2> QED
    BY <2>1, <2>5, <2>6
<1>2. CASE events = <<>> /\ effects # <<>>
  <2> DEFINE c == [device |-> d, number |-> Head(effects)]
  <2>1. /\ alarmChain' = alarms /\ commandChain' = Append(commands, c)
        /\ entered' = [entered EXCEPT ![d] = Append(entered[d], Head(effects))]
    BY <1>2 DEF GoOn
  <2>2. Head(effects) \in 1..MaxPoints
    BY <1>2, FirstEffect
  <2>3. c \in Requests
    BY <2>2, BoundsAssumption DEF Requests
  <2> HIDE DEF c
  <2>4. Append(commands, c) \in Seq(Requests)
    BY <2>3, EndOf
  <2>5. Append(entered[d], Head(effects)) \in Seq(1..MaxPoints)
    BY <2>2, AppendProperties
  <2> QED
    BY <2>1, <2>4, <2>5
<1>3. CASE events = <<>> /\ effects = <<>>
  BY <1>3 DEF GoOn
<1> QED
  BY <1>1, <1>2, <1>3

\* The chain of alarms without the write that has just settled.
LEMMA RestOfChain ==
  ASSUME NEW chain \in Seq(Writes), OneDevice(chain), chain # <<>>
  PROVE  /\ Tail(chain) \in Seq(Writes) /\ OneDevice(Tail(chain)) /\ chain[1] \in Writes
         /\ \A j \in 1..Len(chain[1].next) : chain[1].next[j].device = chain[1].event.device
<1>1. /\ Len(chain) \in Nat \ {0} /\ chain[1] \in Writes
      /\ Tail(chain) \in Seq(Writes) /\ Len(Tail(chain)) = Len(chain) - 1
      /\ \A i \in 1..Len(Tail(chain)) : i + 1 \in 1..Len(chain) /\ Tail(chain)[i] = chain[i + 1]
  BY FrontOf
<1>2. OneDevice(Tail(chain))
  BY <1>1 DEF OneDevice
<1>3. 1 \in 1..Len(chain)
  BY <1>1
<1> QED
  BY <1>1, <1>2, <1>3 DEF OneDevice

-----------------------------------------------------------------------------
(* What the steps of coroutines come to.                                   *)

\* The commands of a transition with the number of the alarm events of the
\* point, and their numbers.
Proposed(kinds, n) ==
  IF kinds = <<>> THEN <<>> ELSE <<[type |-> kinds[1], events |-> n]>>
Numbers(kinds, n) == IF kinds = <<>> THEN <<>> ELSE <<n + 1>>

\* The append of the point p of d settled and led to these alarm events and
\* commands.
PointLeads(d, p, events, kinds) ==
  /\ telemetryChain # <<>> /\ telemetryChain[1] = [device |-> d, reading |-> p]
  /\ telemetryChain' = Tail(telemetryChain)
  /\ Evaluate(d, TelemetryChecks(p)) /\ events = Events(d, TelemetryChecks(p))
  /\ kinds = Effects(EntryOf(mode[d]), p) /\ kinds \in {<<>>, <<"CURTAIL">>, <<"STANDBY">>}
  /\ mode' = [mode EXCEPT ![d] = NextMode(EntryOf(mode[d]), p)]
  /\ proposed' = [proposed EXCEPT ![d] = @ \o Proposed(kinds, Len(events))]
  /\ GoOn(d, events, Numbers(kinds, Len(proposed[d])), alarmChain, commandChain)

LEMMA PointFacts ==
  ASSUME ChainsOK, NEW i, PointSettles(i)
  PROVE  \E d \in Devices, p \in Readings : \E events, kinds : PointLeads(d, p, events, kinds)
<1> DEFINE d == telemetryChain[1].device
           p == telemetryChain[1].reading
           events == Events(d, TelemetryChecks(p))
           kinds == Effects(EntryOf(mode[d]), p)
           effects == [k \in DOMAIN kinds |-> [type |-> kinds[k], events |-> Len(events)]]
<1>1. /\ i = 1 /\ telemetryChain # <<>> /\ telemetryChain' = Tail(telemetryChain)
  BY SettlesFirst DEF PointSettles, ChainsOK
<1>2. /\ telemetryChain[1] \in [device : Devices, reading : Readings]
      /\ telemetryChain[1] = [device |-> d, reading |-> p]
      /\ d \in Devices /\ p \in Readings
  <2>1. telemetryChain[1] \in [device : Devices, reading : Readings]
    BY <1>1, FrontOf DEF ChainsOK
  <2> QED
    BY <2>1
<1>3. /\ mode' = [mode EXCEPT ![d] = NextMode(EntryOf(mode[d]), p)]
      /\ proposed' = [proposed EXCEPT ![d] = @ \o effects]
      /\ Evaluate(d, TelemetryChecks(p))
      /\ GoOn(d, events, [k \in DOMAIN effects |-> Len(proposed[d]) + k],
              alarmChain, commandChain)
  BY <1>1, Zenon DEF PointSettles
<1>4. kinds \in {<<>>, <<"CURTAIL">>, <<"STANDBY">>}
  BY DEF Effects
<1> HIDE DEF d, p, events, kinds
<1>5. effects = Proposed(kinds, Len(events))
  BY <1>4 DEF Proposed
<1>6. [k \in DOMAIN effects |-> Len(proposed[d]) + k] = Numbers(kinds, Len(proposed[d]))
  BY <1>4 DEF Numbers
<1> HIDE DEF effects
<1>7. PointLeads(d, p, events, kinds)
  BY <1>1, <1>2, <1>3, <1>4, <1>5, <1>6, Zenon DEF PointLeads, events, kinds
<1> QED
  BY <1>2, <1>7

-----------------------------------------------------------------------------
(* Every step keeps the types.                                             *)

LEMMA ProposedFacts ==
  ASSUME NEW kinds \in {<<>>, <<"CURTAIL">>, <<"STANDBY">>}, NEW n \in Nat
  PROVE  /\ Proposed(kinds, n) \in Seq(Proposals) /\ Len(Proposed(kinds, n)) \in 0..1
         /\ kinds = <<>> => Proposed(kinds, n) = <<>>
         /\ kinds # <<>> => /\ Len(Proposed(kinds, n)) = 1
                            /\ Proposed(kinds, n)[1] = [type |-> kinds[1], events |-> n]
<1>1. CASE kinds = <<>>
  BY <1>1, EmptySeq DEF Proposed
<1>2. CASE kinds # <<>>
  <2> DEFINE x == [type |-> kinds[1], events |-> n]
  <2>1. x \in Proposals
    BY <1>2 DEF Proposals
  <2>2. Proposed(kinds, n) = <<x>>
    BY <1>2 DEF Proposed
  <2> HIDE DEF x
  <2>3. <<x>> \in Seq(Proposals) /\ Len(<<x>>) = 1 /\ <<x>>[1] = x
    BY <2>1
  <2> QED
    BY <1>2, <2>2, <2>3 DEF x
<1> QED
  BY <1>1, <1>2

LEMMA NumbersFacts ==
  ASSUME NEW kinds, NEW n \in Nat, n + 1 <= MaxPoints
  PROVE  /\ Numbers(kinds, n) \in Seq(1..MaxPoints)
         /\ kinds = <<>> => Numbers(kinds, n) = <<>>
         /\ kinds # <<>> => /\ Numbers(kinds, n) # <<>> /\ Len(Numbers(kinds, n)) = 1
                            /\ Head(Numbers(kinds, n)) = n + 1
                            /\ Numbers(kinds, n)[1] = n + 1
<1>1. n + 1 \in 1..MaxPoints
  BY BoundsAssumption
<1>2. CASE kinds = <<>>
  BY <1>2, EmptySeq DEF Numbers
<1>3. CASE kinds # <<>>
  BY <1>1, <1>3 DEF Numbers
<1> QED
  BY <1>2, <1>3

\* Each step of the engine that keeps up with the chain of points keeps the
\* bounds.
LEMMA RoomFacts ==
  ASSUME Types
  PROVE  /\ Len(telemetryChain) \in Nat /\ points \in 0..MaxPoints /\ sweeps \in 0..MaxSweeps
         /\ MaxPoints \in Nat /\ MaxSweeps \in Nat /\ MaxRaised = MaxPoints + MaxSweeps
         /\ \A d \in Devices : /\ proposed[d] \in Seq(Proposals) /\ Len(proposed[d]) \in Nat
                               /\ Len(proposed[d]) + Len(telemetryChain) <= points
                               /\ earlier[d] \in Nat /\ earlier[d] <= Len(proposed[d])
         /\ \A d \in Devices, t \in AlarmTypes :
              /\ raised[d][t] \in Nat /\ raised[d][t] <= MaxRaised
              /\ raised[d][t] + Len(telemetryChain) <= points + sweeps
              /\ t \in active[d] => raised[d][t] >= 1
<1>1. /\ Len(telemetryChain) \in Nat /\ points \in 0..MaxPoints /\ sweeps \in 0..MaxSweeps
      /\ MaxPoints \in Nat /\ MaxSweeps \in Nat /\ MaxRaised = MaxPoints + MaxSweeps
  BY LenProperties, BoundsAssumption DEF Types, ChainsOK, RestOK, MaxRaised
<1>2. ASSUME NEW d \in Devices
      PROVE  /\ proposed[d] \in Seq(Proposals) /\ Len(proposed[d]) \in Nat
             /\ Len(proposed[d]) + Len(telemetryChain) <= points
             /\ earlier[d] \in Nat /\ earlier[d] <= Len(proposed[d])
  <2>1. proposed[d] \in Seq(Proposals)
    BY DEF Types, Histories
  <2> QED
    BY <2>1, LenProperties DEF Types, Histories, Room
<1>3. ASSUME NEW d \in Devices, NEW t \in AlarmTypes
      PROVE  /\ raised[d][t] \in Nat /\ raised[d][t] <= MaxRaised
             /\ raised[d][t] + Len(telemetryChain) <= points + sweeps
             /\ t \in active[d] => raised[d][t] >= 1
  <2>1. raised[d][t] \in 0..MaxRaised
    BY DEF Types, EngineOK
  <2> QED
    BY <1>1, <2>1 DEF Types, Room
<1> QED
  BY <1>1, <1>2, <1>3

\* The events of a point that settles.
LEMMA PointEvents ==
  ASSUME Types, NEW d \in Devices, NEW p \in Readings, NEW events, NEW kinds,
         PointLeads(d, p, events, kinds)
  PROVE  /\ events \in Seq(LogEvents) /\ Len(events) \in Nat
         /\ \A k \in 1..Len(events) : events[k].device = d
         /\ \A t \in AlarmTypes : /\ raised[d][t] < MaxRaised
                                  /\ t \in active[d] => raised[d][t] >= 1
<1>1. Len(telemetryChain) \in Nat \ {0}
  BY FrontOf DEF PointLeads, Types, ChainsOK
<1>2. \A t \in AlarmTypes : /\ raised[d][t] < MaxRaised
                            /\ t \in active[d] => raised[d][t] >= 1
  BY <1>1, RoomFacts
<1>3. EngineOK /\ TelemetryChecks(p) \in Seq(Checks)
  BY ChecksType DEF Types
<1>4. events = Events(d, TelemetryChecks(p))
  BY DEF PointLeads
<1>5. /\ Events(d, TelemetryChecks(p)) \in Seq(LogEvents)
      /\ \A k \in 1..Len(Events(d, TelemetryChecks(p))) :
           Events(d, TelemetryChecks(p))[k].device = d
  BY <1>2, <1>3, EventsFacts
<1> QED
  BY <1>2, <1>4, <1>5, LenProperties

LEMMA PointTypes ==
  ASSUME Types, NEW i, PointSettles(i)
  PROVE  Types'
<1>0. PICK d \in Devices, p \in Readings : \E events, kinds : PointLeads(d, p, events, kinds)
  BY PointFacts DEF Types
<1>1. PICK events, kinds : PointLeads(d, p, events, kinds)
  BY <1>0
<1>2. /\ UNCHANGED <<registered, tracked, removals, alarmLog, queued, refused, accepted,
                     earlier, points, faults, sweeps, operations>>
  BY DEF PointSettles, counts
<1>3. /\ Len(telemetryChain) \in Nat \ {0}
      /\ telemetryChain' \in Seq([device : Devices, reading : Readings])
      /\ Len(telemetryChain') = Len(telemetryChain) - 1
  BY <1>1, FrontOf DEF PointLeads, Types, ChainsOK
<1>4. /\ EngineOK /\ TelemetryChecks(p) \in Seq(Checks) /\ Evaluate(d, TelemetryChecks(p))
      /\ \A t \in AlarmTypes : raised[d][t] < MaxRaised
  BY <1>1, ChecksType, PointEvents DEF PointLeads, Types
<1>5. EngineOK' /\ \A e \in Devices, t \in AlarmTypes : Progresses(e, t)
  BY <1>4, EvaluateFacts
<1>6. /\ events \in Seq(LogEvents) /\ Len(events) \in Nat
      /\ \A k \in 1..Len(events) : events[k].device = d
  BY <1>1, PointEvents
<1>7. /\ Len(proposed[d]) \in Nat /\ Len(proposed[d]) + 1 <= MaxPoints
      /\ Numbers(kinds, Len(proposed[d])) \in Seq(1..MaxPoints)
  <2>1. Len(proposed[d]) \in Nat /\ Len(proposed[d]) + 1 <= MaxPoints
    BY <1>3, RoomFacts
  <2> QED
    BY <2>1, NumbersFacts
<1>8. /\ alarmChain' \in Seq(Writes) /\ OneDevice(alarmChain')
      /\ commandChain' \in Seq(Requests)
      /\ entered' \in [Devices -> Seq(1..MaxPoints)]
  BY <1>1, <1>6, <1>7, GoOnFacts DEF PointLeads, Types, ChainsOK, Histories
<1>9. /\ proposed' \in [Devices -> Seq(Proposals)]
      /\ Len(proposed'[d]) \in Len(proposed[d])..(Len(proposed[d]) + 1)
      /\ \A e \in Devices : e # d => proposed'[e] = proposed[e]
  <2> DEFINE more == Proposed(kinds, Len(events))
  <2>1. more \in Seq(Proposals) /\ Len(more) \in 0..1
    BY <1>1, <1>6, ProposedFacts DEF PointLeads
  <2>2. proposed' = [proposed EXCEPT ![d] = proposed[d] \o more]
    BY <1>1 DEF PointLeads
  <2> HIDE DEF more
  <2>3. proposed[d] \o more \in Seq(Proposals) /\ Len(proposed[d] \o more) = Len(proposed[d]) + Len(more)
    <3>1. proposed[d] \in Seq(Proposals)
      BY RoomFacts
    <3> QED
      BY <2>1, <3>1, ConcatProperties
  <2>4. Len(proposed[d] \o more) \in Len(proposed[d])..(Len(proposed[d]) + 1)
    <3>1. PICK k \in 0..1 : Len(more) = k
      BY <2>1
    <3>2. PICK n \in Nat : Len(proposed[d]) = n
      BY <1>7
    <3>3. n + k \in n..(n + 1)
      OBVIOUS
    <3> QED
      BY <2>3, <3>1, <3>2, <3>3
  <2>5. proposed \in [Devices -> Seq(Proposals)]
    BY DEF Types, Histories
  <2>6. proposed'[d] = proposed[d] \o more
    BY <2>2, <2>5
  <2> QED
    BY <2>2, <2>3, <2>4, <2>5, <2>6
<1>10. Histories'
  <2>1. \A e \in Devices : earlier[e] <= Len(proposed'[e])
    <3> SUFFICES ASSUME NEW e \in Devices
                 PROVE  earlier[e] <= Len(proposed'[e])
      OBVIOUS
    <3>1. earlier[e] \in Nat /\ Len(proposed[e]) \in Nat /\ earlier[e] <= Len(proposed[e])
      BY RoomFacts
    <3>2. CASE e = d
      BY <1>9, <3>1, <3>2
    <3>3. CASE e # d
      BY <1>9, <3>1, <3>3
    <3> QED
      BY <3>2, <3>3
  <2> QED
    BY <1>2, <1>8, <1>9, <2>1 DEF Types, Histories
<1>11. Room'
  <2>1. ASSUME NEW e \in Devices, NEW t \in AlarmTypes
        PROVE  /\ raised'[e][t] + Len(telemetryChain') <= points + sweeps
               /\ t \in active'[e] => raised'[e][t] >= 1
    <3>1. /\ Len(telemetryChain) \in Nat /\ points \in Nat /\ sweeps \in Nat
          /\ raised[e][t] \in Nat /\ raised[e][t] + Len(telemetryChain) <= points + sweeps
          /\ t \in active[e] => raised[e][t] >= 1
      BY RoomFacts
    <3>2. Progresses(e, t)
      BY <1>5
    <3> QED
      BY <1>3, <3>1, <3>2 DEF Progresses
  <2>2. ASSUME NEW e \in Devices
        PROVE  Len(proposed'[e]) + Len(telemetryChain') <= points
    <3>1. /\ Len(proposed[e]) \in Nat /\ points \in Nat
          /\ Len(proposed[e]) + Len(telemetryChain) <= points
      BY RoomFacts
    <3>2. CASE e = d
      BY <1>3, <1>9, <3>1, <3>2
    <3>3. CASE e # d
      BY <1>3, <1>9, <3>1, <3>3
    <3> QED
      BY <3>2, <3>3
  <2> QED
    BY <1>2, <2>1, <2>2 DEF Room
<1>12. RestOK'
  <2>1. NextMode(EntryOf(mode[d]), p) \in Modes
    BY DEF NextMode, Modes
  <2>2. mode' \in [Devices -> Modes \cup {"NONE"}]
    BY <1>1, <2>1 DEF PointLeads, Types, RestOK
  <2> QED
    BY <1>2, <2>2 DEF Types, RestOK
<1> QED
  BY <1>2, <1>3, <1>5, <1>8, <1>10, <1>11, <1>12 DEF Types, ChainsOK, LogOK

LEMMA AlarmTypesFinite == IsFiniteSet(AlarmTypes)
<1>1. /\ IsFiniteSet({"OVER_VOLTAGE"}) /\ IsFiniteSet({"UNDER_VOLTAGE"})
      /\ IsFiniteSet({"HIGH_FREQUENCY"}) /\ IsFiniteSet({"LOW_SOC"})
      /\ IsFiniteSet({"DEVICE_OFFLINE"}) /\ IsFiniteSet({"COMM_TIMEOUT"})
  BY FS_Singleton
<1>2. /\ IsFiniteSet({"OVER_VOLTAGE"} \cup {"UNDER_VOLTAGE"})
      /\ IsFiniteSet({"HIGH_FREQUENCY"} \cup {"LOW_SOC"})
      /\ IsFiniteSet({"DEVICE_OFFLINE"} \cup {"COMM_TIMEOUT"})
  BY <1>1, FS_Union
<1>3. IsFiniteSet(({"OVER_VOLTAGE"} \cup {"UNDER_VOLTAGE"})
                  \cup ({"HIGH_FREQUENCY"} \cup {"LOW_SOC"}))
  BY <1>2, FS_Union
<1>4. IsFiniteSet((({"OVER_VOLTAGE"} \cup {"UNDER_VOLTAGE"})
                   \cup ({"HIGH_FREQUENCY"} \cup {"LOW_SOC"}))
                  \cup ({"DEVICE_OFFLINE"} \cup {"COMM_TIMEOUT"}))
  BY <1>2, <1>3, FS_Union
<1>5. AlarmTypes = (({"OVER_VOLTAGE"} \cup {"UNDER_VOLTAGE"})
                    \cup ({"HIGH_FREQUENCY"} \cup {"LOW_SOC"}))
                   \cup ({"DEVICE_OFFLINE"} \cup {"COMM_TIMEOUT"})
  BY DEF AlarmTypes
<1> QED
  BY <1>4, <1>5

\* Active alarms of d are acknowledged, and these events report it.
Acknowledges(d, events) ==
  /\ events \in Seq(LogEvents) /\ Len(events) \in Nat
  /\ \A k \in 1..Len(events) : \E t \in active[d] :
       /\ events[k] = Event(d, t, raised[d][t], "ACKNOWLEDGED") /\ events[k].device = d
       /\ t \in AlarmTypes /\ t \in acknowledged'[d]
  /\ acknowledged' \in [Devices -> SUBSET AlarmTypes]
  /\ \A e \in Devices : acknowledged[e] \subseteq acknowledged'[e]
                        /\ acknowledged'[e] \subseteq active[e]

LEMMA AcknowledgedEvent ==
  ASSUME Types, NEW d \in Devices, NEW t \in active[d]
  PROVE  /\ Event(d, t, raised[d][t], "ACKNOWLEDGED") \in LogEvents
         /\ Event(d, t, raised[d][t], "ACKNOWLEDGED").device = d
         /\ t \in AlarmTypes
<1>1. t \in AlarmTypes
  BY DEF Types, EngineOK
<1>2. raised[d][t] \in 1..MaxRaised
  BY <1>1, RoomFacts
<1> QED
  BY <1>1, <1>2 DEF Event, LogEvents

LEMMA AcknowledgeAllFacts ==
  ASSUME Types, NEW d \in Devices, AcknowledgeAll(d)
  PROVE  \E events : /\ Acknowledges(d, events)
                     /\ GoOn(d, events, <<>>, alarmChain, Tail(commandChain))
<1> DEFINE open == active[d] \ acknowledged[d]
           n == Cardinality(open)
<1>1. /\ active[d] \subseteq AlarmTypes /\ acknowledged[d] \subseteq active[d]
      /\ acknowledged \in [Devices -> SUBSET AlarmTypes]
      /\ \A e \in Devices : acknowledged[e] \subseteq active[e]
  BY DEF Types, EngineOK
<1>2. n \in Nat
  <2>1. open \subseteq AlarmTypes
    BY <1>1
  <2>2. IsFiniteSet(open)
    BY <2>1, AlarmTypesFinite, FS_Subset
  <2> QED
    BY <2>2, FS_CardinalityType
<1>3. PICK order \in [1..n -> open] :
        /\ acknowledged' = [acknowledged EXCEPT ![d] = active[d]]
        /\ GoOn(d, [i \in DOMAIN order |->
                      Event(d, order[i], raised[d][order[i]], "ACKNOWLEDGED")],
                <<>>, alarmChain, Tail(commandChain))
  BY DEF AcknowledgeAll
<1> DEFINE events == [i \in DOMAIN order |->
                        Event(d, order[i], raised[d][order[i]], "ACKNOWLEDGED")]
<1>4. DOMAIN order = 1..n /\ \A i \in 1..n : order[i] \in active[d]
  OBVIOUS
<1>5. /\ acknowledged'[d] = active[d]
      /\ acknowledged' \in [Devices -> SUBSET AlarmTypes]
      /\ \A e \in Devices : acknowledged[e] \subseteq acknowledged'[e]
                            /\ acknowledged'[e] \subseteq active[e]
  BY <1>1, <1>3
<1>6. ASSUME NEW k \in 1..n
      PROVE  /\ order[k] \in active[d] /\ order[k] \in AlarmTypes
             /\ events[k] = Event(d, order[k], raised[d][order[k]], "ACKNOWLEDGED")
             /\ events[k] \in LogEvents /\ events[k].device = d
  BY <1>4, AcknowledgedEvent
<1>7. events \in [1..n -> LogEvents]
  BY <1>4, <1>6
<1> HIDE DEF events, n, open
<1>8. events \in Seq(LogEvents) /\ Len(events) = n
  BY <1>2, <1>7, SeqDef, LenProperties, SMT
<1>9. Acknowledges(d, events)
  <2>1. ASSUME NEW k \in 1..Len(events)
        PROVE  \E t \in active[d] :
                 /\ events[k] = Event(d, t, raised[d][t], "ACKNOWLEDGED")
                 /\ events[k].device = d /\ t \in AlarmTypes /\ t \in acknowledged'[d]
    <3>1. k \in 1..n
      BY <1>8
    <3> QED
      BY <1>5, <1>6, <3>1
  <2> QED
    BY <1>2, <1>5, <1>8, <2>1 DEF Acknowledges
<1> QED
  BY <1>3, <1>9 DEF events

LEMMA AcknowledgeFacts ==
  ASSUME Types, NEW d \in Devices, Acknowledge(d)
  PROVE  \E events : /\ Acknowledges(d, events)
                     /\ GoOn(d, events, <<>>, alarmChain, commandChain)
<1>1. PICK t \in active[d] :
        /\ acknowledged' = [acknowledged EXCEPT ![d] = acknowledged[d] \cup {t}]
        /\ GoOn(d, <<Event(d, t, raised[d][t], "ACKNOWLEDGED")>>, <<>>, alarmChain, commandChain)
  BY DEF Acknowledge, Types, EngineOK
<1> DEFINE e == Event(d, t, raised[d][t], "ACKNOWLEDGED")
<1>2. e \in LogEvents /\ e.device = d /\ t \in AlarmTypes
  BY AcknowledgedEvent
<1> HIDE DEF e
<1>3. /\ <<e>> \in Seq(LogEvents) /\ Len(<<e>>) = 1 /\ <<e>>[1] = e
  BY <1>2
<1>4. /\ active[d] \subseteq AlarmTypes /\ acknowledged[d] \subseteq active[d]
      /\ acknowledged \in [Devices -> SUBSET AlarmTypes]
      /\ \A x \in Devices : acknowledged[x] \subseteq active[x]
  BY DEF Types, EngineOK
<1>5. /\ t \in acknowledged'[d]
      /\ acknowledged' \in [Devices -> SUBSET AlarmTypes]
      /\ \A x \in Devices : acknowledged[x] \subseteq acknowledged'[x]
                            /\ acknowledged'[x] \subseteq active[x]
  <2>1. acknowledged[d] \cup {t} \in SUBSET AlarmTypes
    BY <1>2, <1>4
  <2> QED
    BY <1>1, <1>4, <2>1
<1>6. Acknowledges(d, <<e>>)
  <2>1. \A k \in 1..Len(<<e>>) : k = 1
    BY <1>3
  <2>2. <<e>>[1] = Event(d, t, raised[d][t], "ACKNOWLEDGED")
    BY <1>3 DEF e
  <2> QED
    BY <1>2, <1>3, <1>5, <2>1, <2>2 DEF Acknowledges
<1> QED
  BY <1>1, <1>6 DEF e

LEMMA AcknowledgesTypes ==
  ASSUME Types, NEW d \in Devices, NEW events, Acknowledges(d, events),
         NEW commands \in Seq(Requests), GoOn(d, events, <<>>, alarmChain, commands),
         UNCHANGED <<active, raised, telemetryChain>>
  PROVE  EngineOK' /\ ChainsOK' /\ entered' \in [Devices -> Seq(1..MaxPoints)]
<1>1. EngineOK'
  BY DEF Acknowledges, Types, EngineOK
<1>2. /\ events \in Seq(LogEvents) /\ \A k \in 1..Len(events) : events[k].device = d
      /\ <<>> \in Seq(1..MaxPoints)
  BY EmptySeq DEF Acknowledges
<1>3. /\ alarmChain' \in Seq(Writes) /\ OneDevice(alarmChain')
      /\ commandChain' \in Seq(Requests)
      /\ entered' \in [Devices -> Seq(1..MaxPoints)]
  BY <1>2, GoOnFacts DEF Types, ChainsOK, Histories
<1> QED
  BY <1>1, <1>3 DEF Types, ChainsOK

LEMMA HandleTypes ==
  ASSUME Types, NEW d \in Devices, HandlePoint(d)
  PROVE  Types'
<1>1. /\ points < MaxPoints /\ points' = points + 1
      /\ UNCHANGED <<mode, active, acknowledged, raised, alarmChain, commandChain, removals,
                     alarmLog, proposed, entered, queued, refused, earlier, faults, sweeps,
                     operations>>
  BY DEF HandlePoint, engine
<1>2. points' \in 0..MaxPoints /\ points \in Nat
  BY <1>1, RoomFacts
<1>3. /\ telemetryChain' \in Seq([device : Devices, reading : Readings])
      /\ Len(telemetryChain') \in Nat /\ Len(telemetryChain') <= Len(telemetryChain) + 1
      /\ accepted' \in [Devices -> Seq(Readings)]
      /\ registered' \in [Devices -> {"UNKNOWN", "PRESENT", "REMOVED"}]
      /\ tracked' \in [Devices -> BOOLEAN]
  <2>1. CASE registered[d] = "REMOVED"
    <3>1. UNCHANGED <<registered, tracked, telemetryChain, accepted>>
      BY <2>1 DEF HandlePoint
    <3>2. Len(telemetryChain) \in Nat
      BY RoomFacts
    <3>3. Len(telemetryChain) <= Len(telemetryChain) + 1
      BY <3>2
    <3> QED
      BY <3>1, <3>2, <3>3 DEF Types, ChainsOK, Histories, RestOK
  <2>2. CASE registered[d] # "REMOVED"
    <3>1. PICK p \in Readings :
            /\ telemetryChain' = Append(telemetryChain, [device |-> d, reading |-> p])
            /\ accepted' = [accepted EXCEPT ![d] = Append(accepted[d], p)]
      BY <2>2 DEF HandlePoint, Types, Histories
    <3>2. /\ registered' = [registered EXCEPT ![d] = IF @ = "UNKNOWN" THEN "PRESENT" ELSE @]
          /\ tracked' = [tracked EXCEPT ![d] = TRUE]
      BY <2>2 DEF HandlePoint
    <3>3. /\ telemetryChain' \in Seq([device : Devices, reading : Readings])
          /\ Len(telemetryChain') = Len(telemetryChain) + 1
      BY <3>1, EndOf DEF Types, ChainsOK
    <3>4. Append(accepted[d], p) \in Seq(Readings)
      BY EndOf DEF Types, Histories
    <3>5. accepted' \in [Devices -> Seq(Readings)]
      BY <3>1, <3>4 DEF Types, Histories
    <3>6. /\ registered' \in [Devices -> {"UNKNOWN", "PRESENT", "REMOVED"}]
          /\ tracked' \in [Devices -> BOOLEAN]
      BY <3>2 DEF Types, RestOK
    <3> QED
      BY <3>3, <3>5, <3>6, RoomFacts
  <2> QED
    BY <2>1, <2>2
<1>4. Room'
  <2>1. ASSUME NEW e \in Devices, NEW t \in AlarmTypes
        PROVE  /\ raised[e][t] + Len(telemetryChain') <= points' + sweeps
               /\ t \in active[e] => raised[e][t] >= 1
    <3>1. /\ Len(telemetryChain) \in Nat /\ points \in Nat /\ sweeps \in Nat
          /\ raised[e][t] \in Nat /\ raised[e][t] + Len(telemetryChain) <= points + sweeps
          /\ t \in active[e] => raised[e][t] >= 1
      BY RoomFacts
    <3> QED
      BY <1>1, <1>3, <3>1
  <2>2. ASSUME NEW e \in Devices
        PROVE  Len(proposed[e]) + Len(telemetryChain') <= points'
    BY <1>1, <1>3, RoomFacts
  <2> QED
    BY <1>1, <2>1, <2>2 DEF Room
<1> QED
  BY <1>1, <1>2, <1>3, <1>4 DEF Types, EngineOK, ChainsOK, LogOK, RestOK, Histories

LEMMA SweepTypes ==
  ASSUME Types, NEW d \in Devices, Sweep(d)
  PROVE  Types'
<1>1. /\ sweeps < MaxSweeps /\ sweeps' = sweeps + 1
      /\ UNCHANGED <<registered, tracked, mode, telemetryChain, removals, alarmLog, proposed,
                     queued, refused, accepted, earlier, points, faults, operations>>
  BY DEF Sweep
<1>2. PICK age : /\ Evaluate(d, StalenessChecks(age))
                 /\ GoOn(d, Events(d, StalenessChecks(age)), <<>>, alarmChain, commandChain)
  BY DEF Sweep
<1>3. /\ EngineOK /\ StalenessChecks(age) \in Seq(Checks)
      /\ \A t \in AlarmTypes : /\ raised[d][t] < MaxRaised
                               /\ t \in active[d] => raised[d][t] >= 1
  <2>1. \A t \in AlarmTypes : /\ raised[d][t] < MaxRaised
                              /\ t \in active[d] => raised[d][t] >= 1
    BY <1>1, RoomFacts
  <2> QED
    BY <2>1, ChecksType DEF Types
<1>4. EngineOK' /\ \A e \in Devices, t \in AlarmTypes : Progresses(e, t)
  BY <1>2, <1>3, EvaluateFacts
<1>5. /\ Events(d, StalenessChecks(age)) \in Seq(LogEvents)
      /\ \A k \in 1..Len(Events(d, StalenessChecks(age))) :
           Events(d, StalenessChecks(age))[k].device = d
  BY <1>3, EventsFacts
<1>6. /\ alarmChain' \in Seq(Writes) /\ OneDevice(alarmChain')
      /\ commandChain' \in Seq(Requests)
      /\ entered' \in [Devices -> Seq(1..MaxPoints)]
  <2>1. <<>> \in Seq(1..MaxPoints)
    BY EmptySeq
  <2> QED
    BY <1>2, <1>5, <2>1, GoOnFacts DEF Types, ChainsOK, Histories
<1>7. Room'
  <2>1. ASSUME NEW e \in Devices, NEW t \in AlarmTypes
        PROVE  /\ raised'[e][t] + Len(telemetryChain) <= points + sweeps'
               /\ t \in active'[e] => raised'[e][t] >= 1
    <3>1. /\ Len(telemetryChain) \in Nat /\ points \in Nat /\ sweeps \in Nat
          /\ raised[e][t] \in Nat /\ raised[e][t] + Len(telemetryChain) <= points + sweeps
          /\ t \in active[e] => raised[e][t] >= 1
      BY RoomFacts
    <3>2. Progresses(e, t)
      BY <1>4
    <3> QED
      BY <1>1, <3>1, <3>2 DEF Progresses
  <2> QED
    BY <1>1, <2>1 DEF Types, Room
<1>8. sweeps' \in 0..MaxSweeps
  BY <1>1, RoomFacts
<1> QED
  BY <1>1, <1>4, <1>6, <1>7, <1>8 DEF Types, ChainsOK, LogOK, RestOK, Histories

\* What the write that settles is followed by.
AlarmLeads(w, done) ==
  /\ alarmChain # <<>> /\ w = alarmChain[1] /\ w \in Writes
  /\ alarmLog' = IF done
                 THEN [alarmLog EXCEPT ![w.event.device][w.event.type][w.event.number]
                         = w.event.status]
                 ELSE alarmLog
  /\ GoOn(w.event.device, w.next, w.effects, Tail(alarmChain), commandChain)

LEMMA AlarmFacts ==
  ASSUME ChainsOK, NEW i, NEW done, AlarmSettles(i, done)
  PROVE  AlarmLeads(alarmChain[1], done)
<1>1. i \in InTurn(alarmChain)
  BY DEF AlarmSettles
<1>2. i = 1 /\ alarmChain # <<>> /\ RemoveAt(alarmChain, i) = Tail(alarmChain)
  BY <1>1, SettlesFirst DEF ChainsOK
<1>3. alarmChain[1] \in Writes
  BY <1>2, FrontOf DEF ChainsOK
<1>4. /\ alarmLog' = IF done
                     THEN [alarmLog EXCEPT ![alarmChain[i].event.device]
                                            [alarmChain[i].event.type]
                                            [alarmChain[i].event.number]
                             = alarmChain[i].event.status]
                     ELSE alarmLog
      /\ GoOn(alarmChain[i].event.device, alarmChain[i].next, alarmChain[i].effects,
              RemoveAt(alarmChain, i), commandChain)
  BY Zenon DEF AlarmSettles, RestAfter
<1> QED
  BY <1>2, <1>3, <1>4, Zenon DEF AlarmLeads

\* A record of an event in the log of alarms.
LEMMA LogType ==
  ASSUME LogOK, NEW e \in LogEvents
  PROVE  [alarmLog EXCEPT ![e.device][e.type][e.number] = e.status]
           \in [Devices -> [AlarmTypes -> [1..MaxRaised ->
                  {"NONE", "ACTIVE", "ACKNOWLEDGED", "CLEARED"}]]]
BY DEF LogOK, LogEvents

LEMMA AlarmSettlesTypes ==
  ASSUME Types, NEW i, NEW done, AlarmSettles(i, done)
  PROVE  Types'
<1>1. /\ done \/ faults < MaxFaults
      /\ faults' = IF done THEN faults ELSE faults + 1
      /\ UNCHANGED <<registered, tracked, mode, active, acknowledged, raised, telemetryChain,
                     removals, proposed, queued, refused, accepted, earlier, points, sweeps,
                     operations>>
  BY DEF AlarmSettles, engine
<1> DEFINE w == alarmChain[1]
<1>2. AlarmLeads(w, done)
  BY AlarmFacts DEF Types
<1>3. /\ w \in Writes /\ Tail(alarmChain) \in Seq(Writes) /\ OneDevice(Tail(alarmChain))
      /\ \A j \in 1..Len(w.next) : w.next[j].device = w.event.device
  BY <1>2, RestOfChain DEF AlarmLeads, Types, ChainsOK
<1> HIDE DEF w
<1>4. /\ w.event \in LogEvents /\ w.event.device \in Devices
      /\ w.next \in Seq(LogEvents) /\ w.effects \in Seq(1..MaxPoints)
  BY <1>3 DEF Writes, LogEvents
<1>5. /\ alarmChain' \in Seq(Writes) /\ OneDevice(alarmChain')
      /\ commandChain' \in Seq(Requests)
      /\ entered' \in [Devices -> Seq(1..MaxPoints)]
  BY <1>2, <1>3, <1>4, GoOnFacts DEF AlarmLeads, Types, ChainsOK, Histories
<1>6. LogOK'
  <2>1. CASE done
    BY <1>2, <1>4, <2>1, LogType DEF AlarmLeads, Types, LogOK
  <2>2. CASE ~done
    BY <1>2, <2>2 DEF AlarmLeads, Types, LogOK
  <2> QED
    BY <2>1, <2>2
<1>7. faults' \in 0..MaxFaults
  BY <1>1, BoundsAssumption DEF Types, RestOK
<1> QED
  BY <1>1, <1>5, <1>6, <1>7 DEF Types, EngineOK, ChainsOK, RestOK, Histories, Room

\* A command that settles is queued or refused, or it acknowledges the alarms of
\* its device.
CommandLeads(c, done) ==
  /\ commandChain # <<>> /\ c = commandChain[1] /\ c \in Requests
  /\ \/ /\ c.number = RESET /\ UNCHANGED <<queued, refused>>
        /\ \E events : /\ Acknowledges(c.device, events)
                       /\ GoOn(c.device, events, <<>>, alarmChain, Tail(commandChain))
     \/ /\ c.number = RESET /\ commandChain' = Tail(commandChain)
        /\ UNCHANGED <<acknowledged, alarmChain, entered, queued, refused>>
     \/ /\ c.number # RESET /\ commandChain' = Tail(commandChain)
        /\ queued' = [queued EXCEPT ![c.device] = IF done THEN @ + 1 ELSE @]
        /\ refused' = [refused EXCEPT ![c.device] = IF done THEN @ ELSE @ + 1]
        /\ UNCHANGED <<acknowledged, alarmChain, entered>>

LEMMA CommandFacts ==
  ASSUME Types, NEW done, CommandSettles(done)
  PROVE  CommandLeads(commandChain[1], done)
<1>1. /\ commandChain # <<>> /\ Head(commandChain) = commandChain[1]
      /\ commandChain[1] \in Requests
  BY FrontOf DEF CommandSettles, Types, ChainsOK
<1> DEFINE c == commandChain[1]
<1>2. c.device \in Devices
  BY <1>1 DEF Requests
<1>3. CASE c.number = RESET /\ done
  <2>1. AcknowledgeAll(c.device) /\ UNCHANGED <<queued, refused>>
    BY <1>1, <1>3 DEF CommandSettles
  <2>2. \E events : /\ Acknowledges(c.device, events)
                    /\ GoOn(c.device, events, <<>>, alarmChain, Tail(commandChain))
    BY <1>2, <2>1, AcknowledgeAllFacts
  <2> QED
    BY <1>1, <1>3, <2>1, <2>2 DEF CommandLeads
<1>4. CASE c.number = RESET /\ ~done
  BY <1>1, <1>4 DEF CommandSettles, CommandLeads
<1>5. CASE c.number # RESET
  BY <1>1, <1>5 DEF CommandSettles, CommandLeads
<1> QED
  BY <1>3, <1>4, <1>5

LEMMA CommandTypes ==
  ASSUME Types, NEW done, CommandSettles(done)
  PROVE  Types'
<1>1. /\ done \/ faults < MaxFaults
      /\ faults' = IF done THEN faults ELSE faults + 1
      /\ UNCHANGED <<registered, tracked, mode, active, raised, telemetryChain, removals,
                     alarmLog, proposed, accepted, earlier, points, sweeps, operations>>
  BY DEF CommandSettles
<1> DEFINE c == commandChain[1]
<1>2. CommandLeads(c, done)
  BY CommandFacts
<1>3. /\ c.device \in Devices /\ Tail(commandChain) \in Seq(Requests)
  BY <1>2, FrontOf DEF CommandLeads, Requests, Types, ChainsOK
<1>4. faults' \in 0..MaxFaults
  BY <1>1, BoundsAssumption DEF Types, RestOK
<1> HIDE DEF c
<1>5. /\ EngineOK' /\ ChainsOK' /\ entered' \in [Devices -> Seq(1..MaxPoints)]
      /\ queued' \in [Devices -> Int] /\ refused' \in [Devices -> Int]
  <2>1. CASE \E events : /\ Acknowledges(c.device, events)
                         /\ GoOn(c.device, events, <<>>, alarmChain, Tail(commandChain))
                         /\ UNCHANGED <<queued, refused>>
    <3>1. EngineOK' /\ ChainsOK' /\ entered' \in [Devices -> Seq(1..MaxPoints)]
      BY <1>1, <1>3, <2>1, AcknowledgesTypes
    <3> QED
      BY <2>1, <3>1 DEF Types, RestOK
  <2>2. CASE /\ commandChain' = Tail(commandChain)
             /\ UNCHANGED <<acknowledged, alarmChain, entered, queued, refused>>
    BY <1>1, <1>3, <2>2 DEF Types, EngineOK, ChainsOK, RestOK, Histories
  <2>3. CASE /\ commandChain' = Tail(commandChain)
             /\ queued' = [queued EXCEPT ![c.device] = IF done THEN @ + 1 ELSE @]
             /\ refused' = [refused EXCEPT ![c.device] = IF done THEN @ ELSE @ + 1]
             /\ UNCHANGED <<acknowledged, alarmChain, entered>>
    <3>1. queued' \in [Devices -> Int] /\ refused' \in [Devices -> Int]
      BY <1>3, <2>3 DEF Types, RestOK
    <3> QED
      BY <1>1, <1>3, <2>3, <3>1 DEF Types, EngineOK, ChainsOK, Histories
  <2> QED
    BY <1>2, <2>1, <2>2, <2>3 DEF CommandLeads
<1> QED
  BY <1>1, <1>4, <1>5 DEF Types, LogOK, RestOK, Histories, Room

\* The readings of a sequence of appends, of those of one device.
Of(d) == [device : {d}, reading : Readings]
ReadingsOf(s) == [i \in 1..Len(s) |-> s[i].reading]
Appends == [device : Devices, reading : Readings]

\* The readings of d in a chain of appends.
WaitingIn(chain, d) == ReadingsOf(Selected(chain, Of(d)))

LEMMA WaitingType ==
  ASSUME NEW d \in Devices, NEW chain \in Seq(Appends)
  PROVE  /\ Selected(chain, Of(d)) \in Seq(Of(d))
         /\ WaitingIn(chain, d) \in Seq(Readings)
<1> DEFINE its == Selected(chain, Of(d))
<1>1. its \in Seq(Appends \cap Of(d))
  BY SelectedType
<1>2. Appends \cap Of(d) = Of(d)
  BY DEF Appends, Of
<1>3. its \in Seq(Of(d))
  BY <1>1, <1>2
<1> HIDE DEF its
<1>4. /\ Len(its) \in Nat /\ \A i \in 1..Len(its) : its[i] \in Of(d)
  BY <1>3, ElementOfSeq, LenProperties
<1>5. ReadingsOf(its) \in [1..Len(its) -> Readings]
  BY <1>4 DEF ReadingsOf, Of
<1>6. ReadingsOf(its) \in Seq(Readings)
  BY <1>4, <1>5, SeqDef
<1> QED
  BY <1>3, <1>6 DEF its, WaitingIn

LEMMA RequestTypes ==
  ASSUME Types, NEW d \in Devices,
         Acknowledge(d) \/ Reset(d) \/ Restore(d) \/ RemoveDevice(d)
  PROVE  Types'
<1>1. ASSUME Requested
      PROVE  operations' \in 0..MaxOperations
  BY <1>1, BoundsAssumption DEF Requested, Types, RestOK
<1>2. CASE Acknowledge(d)
  <2>1. /\ Requested
        /\ UNCHANGED <<registered, tracked, mode, active, raised, telemetryChain, removals,
                       alarmLog, proposed, queued, refused, accepted, earlier, points, faults,
                       sweeps>>
    BY <1>2 DEF Acknowledge
  <2>2. PICK events : /\ Acknowledges(d, events)
                      /\ GoOn(d, events, <<>>, alarmChain, commandChain)
    BY <1>2, AcknowledgeFacts
  <2>3. EngineOK' /\ ChainsOK' /\ entered' \in [Devices -> Seq(1..MaxPoints)]
    <3>1. commandChain \in Seq(Requests)
      BY DEF Types, ChainsOK
    <3> QED
      BY <2>1, <2>2, <3>1, AcknowledgesTypes
  <2> QED
    BY <1>1, <2>1, <2>3 DEF Types, LogOK, RestOK, Histories, Room
<1>3. CASE Reset(d)
  <2>1. /\ Requested
        /\ UNCHANGED <<registered, tracked, mode, active, acknowledged, raised, telemetryChain,
                       alarmChain, removals, alarmLog, proposed, entered, queued, refused,
                       accepted, earlier, points, faults, sweeps>>
    BY <1>3 DEF Reset, engine, history
  <2> DEFINE c == [device |-> d, number |-> RESET]
  <2>2. c \in Requests
    BY BoundsAssumption DEF Requests, RESET
  <2>3. commandChain' = Append(commandChain, c)
    BY <1>3 DEF Reset
  <2> HIDE DEF c
  <2>4. commandChain' \in Seq(Requests)
    BY <2>2, <2>3, EndOf DEF Types, ChainsOK
  <2> QED
    BY <1>1, <2>1, <2>4 DEF Types, EngineOK, ChainsOK, LogOK, RestOK, Histories, Room
<1>4. CASE Restore(d)
  <2>1. /\ registered' \in [Devices -> {"UNKNOWN", "PRESENT", "REMOVED"}]
        /\ UNCHANGED <<tracked, mode, active, acknowledged, raised, telemetryChain, alarmChain,
                       commandChain, removals, alarmLog, proposed, entered, queued, refused,
                       accepted, earlier, points, faults, sweeps, operations>>
    BY <1>4 DEF Restore, engine, chains, history, counts, Types, RestOK
  <2> QED
    BY <2>1 DEF Types, EngineOK, ChainsOK, LogOK, RestOK, Histories, Room
<1>5. CASE RemoveDevice(d)
  <2>1. /\ Requested
        /\ registered' \in [Devices -> {"UNKNOWN", "PRESENT", "REMOVED"}]
        /\ removals' \in [Devices -> Nat]
        /\ UNCHANGED <<tracked, mode, active, acknowledged, raised, telemetryChain, alarmChain,
                       commandChain, alarmLog, proposed, entered, queued, refused, accepted,
                       earlier, points, faults, sweeps>>
    BY <1>5 DEF RemoveDevice, engine, chains, history, Types, RestOK
  <2> QED
    BY <1>1, <2>1 DEF Types, EngineOK, ChainsOK, LogOK, RestOK, Histories, Room
<1> QED
  BY <1>2, <1>3, <1>4, <1>5

LEMMA RemovalTypes ==
  ASSUME Types, NEW d \in Devices, NEW done, RemovalSettles(d, done)
  PROVE  Types'
<1>1. /\ done \/ faults < MaxFaults
      /\ faults' = IF done THEN faults ELSE faults + 1
      /\ removals[d] > 0 /\ removals' = [removals EXCEPT ![d] = @ - 1]
      /\ UNCHANGED <<registered, tracked, active, acknowledged, raised, telemetryChain,
                     alarmChain, commandChain, alarmLog, proposed, entered, queued, refused,
                     points, sweeps, operations>>
  BY DEF RemovalSettles, engine, chains
<1>2. faults' \in 0..MaxFaults /\ removals' \in [Devices -> Nat]
  BY <1>1, BoundsAssumption DEF Types, RestOK
<1>3. /\ mode' \in [Devices -> Modes \cup {"NONE"}]
      /\ accepted' \in [Devices -> Seq(Readings)]
      /\ earlier' \in [Devices -> Nat]
      /\ \A e \in Devices : earlier'[e] <= Len(proposed[e])
  <2>1. CASE done
    <3>1. /\ mode' = [mode EXCEPT ![d] = "NONE"]
          /\ accepted' = [accepted EXCEPT ![d] = Waiting(d)]
          /\ earlier' = [earlier EXCEPT ![d] = Len(proposed[d])]
      BY <2>1 DEF RemovalSettles
    <3>2. Waiting(d) \in Seq(Readings)
      <4>1. telemetryChain \in Seq(Appends)
        BY DEF Types, ChainsOK, Appends
      <4>2. Waiting(d) = WaitingIn(telemetryChain, d)
        BY DEF Waiting, WaitingIn, ReadingsOf, Of
      <4> QED
        BY <4>1, <4>2, WaitingType
    <3>3. \A e \in Devices : Len(proposed[e]) \in Nat /\ earlier[e] <= Len(proposed[e])
      BY RoomFacts
    <3>4. /\ mode' \in [Devices -> Modes \cup {"NONE"}]
          /\ accepted' \in [Devices -> Seq(Readings)]
      BY <3>1, <3>2 DEF Types, RestOK, Histories
    <3>5. earlier' \in [Devices -> Nat]
      BY <3>1, <3>3 DEF Types, Histories
    <3>6. ASSUME NEW e \in Devices
          PROVE  earlier'[e] <= Len(proposed[e])
      <4>1. earlier \in [Devices -> Nat] /\ Len(proposed[e]) \in Nat /\ earlier[e] <= Len(proposed[e])
        BY <3>3 DEF Types, Histories
      <4> HIDE DEF Types
      <4>2. CASE e = d
        BY <3>1, <4>1, <4>2
      <4>3. CASE e # d
        BY <3>1, <4>1, <4>3
      <4> QED
        BY <4>2, <4>3
    <3> QED
      BY <3>4, <3>5, <3>6
  <2>2. CASE ~done
    BY <2>2 DEF RemovalSettles, Types, RestOK, Histories
  <2> QED
    BY <2>1, <2>2
<1> QED
  BY <1>1, <1>2, <1>3 DEF Types, EngineOK, ChainsOK, LogOK, RestOK, Histories, Room

\* After a restart nothing is under way.
RestartEmpties ==
  /\ active' = [d \in Devices |-> {}] /\ acknowledged' = [d \in Devices |-> {}]
  /\ mode' = [d \in Devices |-> "NONE"]
  /\ telemetryChain' = <<>> /\ alarmChain' = <<>> /\ commandChain' = <<>>
  /\ accepted' = [d \in Devices |-> <<>>]
  /\ earlier' = [d \in Devices |-> Len(proposed[d])]
  /\ \E n \in [Devices -> Int] :
       queued' = n /\ refused' = [d \in Devices |-> Len(proposed[d]) - n[d]]
  /\ \/ alarmLog' = alarmLog
     \/ /\ alarmChain # <<>>
        /\ LET e == Head(alarmChain).event
           IN  alarmLog' = [alarmLog EXCEPT ![e.device][e.type][e.number] = e.status]
  /\ UNCHANGED <<raised, proposed, entered, points, faults, sweeps>>

LEMMA RestartFacts ==
  ASSUME Types, Restart
  PROVE  /\ RestartEmpties /\ Requested
         /\ registered' \in [Devices -> {"UNKNOWN", "PRESENT", "REMOVED"}]
         /\ tracked' = [d \in Devices |-> FALSE] /\ removals' = [d \in Devices |-> 0]
<1>1. PICK landed \in BOOLEAN :
       /\ registered' = [d \in Devices |->
                           IF removals[d] > 0 /\ ~landed THEN "PRESENT" ELSE registered[d]]
       /\ alarmLog' = IF landed /\ alarmChain # <<>>
                      THEN LET e == Head(alarmChain).event
                           IN  [alarmLog EXCEPT ![e.device][e.type][e.number] = e.status]
                      ELSE alarmLog
       /\ \E R : /\ queued' = [d \in Devices |-> queued[d] + IF d \in R THEN 1 ELSE 0]
                 /\ refused' = [d \in Devices |-> Len(proposed[d]) - queued'[d]]
  BY DEF Restart
<1>2. PICK R : /\ queued' = [d \in Devices |-> queued[d] + IF d \in R THEN 1 ELSE 0]
               /\ refused' = [d \in Devices |-> Len(proposed[d]) - queued'[d]]
  BY <1>1
<1>3. queued' \in [Devices -> Int]
  BY <1>2 DEF Types, RestOK
<1>4. \E n \in [Devices -> Int] :
       queued' = n /\ refused' = [d \in Devices |-> Len(proposed[d]) - n[d]]
  BY <1>2, <1>3
<1>5. \/ alarmLog' = alarmLog
      \/ /\ alarmChain # <<>>
         /\ LET e == Head(alarmChain).event
            IN  alarmLog' = [alarmLog EXCEPT ![e.device][e.type][e.number] = e.status]
  BY <1>1
<1>6. registered' \in [Devices -> {"UNKNOWN", "PRESENT", "REMOVED"}]
  BY <1>1 DEF Types, RestOK
<1>7. RestartEmpties
  BY <1>4, <1>5 DEF Restart, RestartEmpties
<1> QED
  BY <1>6, <1>7 DEF Restart

LEMMA RestartTypes ==
  ASSUME Types, Restart
  PROVE  Types'
<1>1. /\ RestartEmpties /\ Requested
      /\ registered' \in [Devices -> {"UNKNOWN", "PRESENT", "REMOVED"}]
      /\ tracked' = [d \in Devices |-> FALSE] /\ removals' = [d \in Devices |-> 0]
  BY RestartFacts
<1>2. /\ UNCHANGED <<raised, proposed, entered, points, faults, sweeps>>
      /\ telemetryChain' = <<>> /\ alarmChain' = <<>> /\ commandChain' = <<>>
      /\ active' = [d \in Devices |-> {}] /\ acknowledged' = [d \in Devices |-> {}]
      /\ mode' = [d \in Devices |-> "NONE"]
      /\ accepted' = [d \in Devices |-> <<>>]
      /\ earlier' = [d \in Devices |-> Len(proposed[d])]
  BY <1>1 DEF RestartEmpties
<1>3. EngineOK'
  BY <1>2 DEF Types, EngineOK
<1>4. ChainsOK'
  <2>1. <<>> \in Seq([device : Devices, reading : Readings]) /\ <<>> \in Seq(Writes)
        /\ <<>> \in Seq(Requests) /\ Len(<<>>) = 0
    BY EmptySeq
  <2> QED
    BY <1>2, <2>1 DEF ChainsOK, OneDevice
<1>5. LogOK'
  <2>1. CASE alarmLog' = alarmLog
    BY <2>1 DEF Types, LogOK
  <2>2. CASE alarmChain # <<>> /\ LET e == Head(alarmChain).event
             IN  alarmLog' = [alarmLog EXCEPT ![e.device][e.type][e.number] = e.status]
    <3>1. Head(alarmChain) \in Writes
      BY <2>2, FrontOf DEF Types, ChainsOK
    <3>2. Head(alarmChain).event \in LogEvents
      BY <3>1 DEF Writes
    <3> DEFINE e == Head(alarmChain).event
    <3>3. alarmLog' = [alarmLog EXCEPT ![e.device][e.type][e.number] = e.status]
      BY <2>2
    <3> HIDE DEF e
    <3>4. alarmLog' \in [Devices -> [AlarmTypes -> [1..MaxRaised ->
                           {"NONE", "ACTIVE", "ACKNOWLEDGED", "CLEARED"}]]]
      BY <3>2, <3>3, LogType DEF e, Types
    <3> QED
      BY <3>4 DEF LogOK
  <2> QED
    BY <1>1, <2>1, <2>2 DEF RestartEmpties
<1>6. /\ queued' \in [Devices -> Int] /\ refused' \in [Devices -> Int]
  <2>1. PICK n \in [Devices -> Int] :
          queued' = n /\ refused' = [d \in Devices |-> Len(proposed[d]) - n[d]]
    BY <1>1 DEF RestartEmpties
  <2>2. \A d \in Devices : Len(proposed[d]) \in Int
    BY RoomFacts
  <2> QED
    BY <2>1, <2>2
<1>7. RestOK'
  <2>1. operations' \in 0..MaxOperations
    BY <1>1, BoundsAssumption DEF Requested, Types, RestOK
  <2> QED
    BY <1>1, <1>2, <1>6, <2>1 DEF Types, RestOK
<1>8. Histories'
  <2>1. <<>> \in Seq(Readings)
    BY EmptySeq
  <2>2. \A d \in Devices : Len(proposed[d]) \in Nat
    BY RoomFacts
  <2> QED
    BY <1>2, <2>1, <2>2 DEF Types, Histories
<1>9. Room'
  <2>1. Len(telemetryChain') = 0
    BY <1>2
  <2>2. ASSUME NEW d \in Devices, NEW t \in AlarmTypes
        PROVE  raised[d][t] + 0 <= points + sweeps /\ t \notin active'[d]
    BY <1>2, RoomFacts
  <2>3. ASSUME NEW d \in Devices
        PROVE  Len(proposed[d]) + 0 <= points
    BY RoomFacts
  <2> QED
    BY <1>2, <2>1, <2>2, <2>3 DEF Room
<1> QED
  BY <1>3, <1>4, <1>5, <1>7, <1>8, <1>9 DEF Types

LEMMA TypesNext ==
  ASSUME Types, [Next]_vars
  PROVE  Types'
<1>1. CASE UNCHANGED vars
  BY <1>1 DEF vars, engine, chains, history, counts, Types, EngineOK, ChainsOK, LogOK, RestOK,
              Histories, Room
<1>2. CASE Next
  BY <1>2, HandleTypes, SweepTypes, PointTypes, AlarmSettlesTypes, CommandTypes, RequestTypes,
     RemovalTypes, RestartTypes DEF Next
<1> QED
  BY <1>1, <1>2

LEMMA TypesInit == Init => Types
<1> SUFFICES ASSUME Init
             PROVE  Types
  OBVIOUS
<1>1. /\ <<>> \in Seq([device : Devices, reading : Readings]) /\ <<>> \in Seq(Writes)
      /\ <<>> \in Seq(Requests) /\ Len(<<>>) = 0 /\ <<>> \in Seq(Proposals)
      /\ <<>> \in Seq(1..MaxPoints) /\ <<>> \in Seq(Readings)
  BY EmptySeq
<1>2. EngineOK /\ LogOK
  BY MaxRaisedType DEF Init, EngineOK, LogOK
<1>3. ChainsOK /\ Histories
  BY <1>1 DEF Init, ChainsOK, Histories, OneDevice
<1>4. RestOK
  BY BoundsAssumption DEF Init, RestOK, Modes
<1>5. Room
  BY <1>1 DEF Init, Room
<1> QED
  BY <1>2, <1>3, <1>4, <1>5 DEF Types

LEMMA TypesAlways == Spec => []Types
BY TypesInit, TypesNext, PTL DEF Spec

\* Every coroutine under way holds the events and commands of its own device,
\* an alarm that is acknowledged is active, and no alarm or command is numbered
\* beyond what points and staleness evaluations account for.
THEOREM TypeCorrect == Spec => []TypeOK
<1>1. Types => TypeOK
  BY TypeParts DEF Types
<1> QED
  BY <1>1, TypesAlways, PTL

-----------------------------------------------------------------------------
(* The state machine sees the points in the order in which they came.      *)

LEMMA ReadingsElements ==
  ASSUME NEW S, NEW s \in Seq(S), \A x \in S : x.reading \in Readings
  PROVE  /\ ReadingsOf(s) \in Seq(Readings) /\ Len(ReadingsOf(s)) = Len(s) /\ Len(s) \in Nat
         /\ \A i \in 1..Len(s) : ReadingsOf(s)[i] = s[i].reading
<1>1. Len(s) \in Nat /\ \A i \in 1..Len(s) : s[i] \in S
  BY ElementOfSeq, LenProperties
<1>2. ReadingsOf(s) \in [1..Len(s) -> Readings]
  BY <1>1 DEF ReadingsOf
<1>3. ReadingsOf(s) \in Seq(Readings)
  BY <1>1, <1>2, SeqDef
<1>4. Len(ReadingsOf(s)) = Len(s)
  BY <1>1, <1>2, <1>3, LenProperties, SMT
<1> QED
  BY <1>1, <1>3, <1>4 DEF ReadingsOf

LEMMA ReadingsAppend ==
  ASSUME NEW S, NEW s \in Seq(S), NEW x \in S, \A y \in S : y.reading \in Readings
  PROVE  ReadingsOf(Append(s, x)) = Append(ReadingsOf(s), x.reading)
<1> DEFINE t == Append(s, x)
           r == ReadingsOf(s)
           u == Append(r, x.reading)
<1>1. /\ t \in Seq(S) /\ Len(t) = Len(s) + 1 /\ Len(s) \in Nat
      /\ \A i \in 1..Len(s) : t[i] = s[i]
      /\ t[Len(s) + 1] = x
  BY EndOf
<1>2. /\ r \in Seq(Readings) /\ Len(r) = Len(s)
      /\ \A i \in 1..Len(s) : r[i] = s[i].reading
  BY ReadingsElements
<1> HIDE DEF t, r
<1>3. /\ u \in Seq(Readings) /\ Len(u) = Len(s) + 1
      /\ \A i \in 1..Len(s) : u[i] = r[i]
      /\ u[Len(s) + 1] = x.reading
  BY <1>2, EndOf
<1>4. /\ ReadingsOf(t) \in Seq(Readings) /\ Len(ReadingsOf(t)) = Len(t)
      /\ \A i \in 1..Len(t) : ReadingsOf(t)[i] = t[i].reading
  BY <1>1, ReadingsElements
<1> HIDE DEF u
<1>5. ASSUME NEW i \in 1..Len(ReadingsOf(t))
      PROVE  ReadingsOf(t)[i] = u[i]
  <2>1. i \in 1..(Len(s) + 1)
    BY <1>1, <1>4
  <2>2. CASE i \in 1..Len(s)
    BY <1>1, <1>2, <1>3, <1>4, <2>1, <2>2
  <2>3. CASE i = Len(s) + 1
    BY <1>1, <1>3, <1>4, <2>3
  <2> QED
    BY <1>1, <2>1, <2>2, <2>3
<1>6. Len(ReadingsOf(t)) = Len(u)
  BY <1>1, <1>3, <1>4
<1>7. ReadingsOf(t) = u
  BY <1>3, <1>4, <1>5, <1>6, SeqEqual
<1> QED
  BY <1>7 DEF t, r, u

LEMMA ReadingsFront ==
  ASSUME NEW S, NEW s \in Seq(S), NEW x \in S, \A y \in S : y.reading \in Readings
  PROVE  ReadingsOf(<<x>> \o s) = <<x.reading>> \o ReadingsOf(s)
<1> DEFINE t == <<x>> \o s
           r == ReadingsOf(s)
           u == <<x.reading>> \o r
<1>0. /\ <<x>> \in Seq(S) /\ Len(<<x>>) = 1 /\ <<x>>[1] = x
      /\ x.reading \in Readings /\ <<x.reading>> \in Seq(Readings)
      /\ Len(<<x.reading>>) = 1 /\ <<x.reading>>[1] = x.reading
  OBVIOUS
<1>1. /\ t \in Seq(S) /\ Len(t) = 1 + Len(s) /\ Len(s) \in Nat
      /\ \A i \in 1..(1 + Len(s)) : t[i] = IF i <= 1 THEN <<x>>[i] ELSE s[i - 1]
  BY <1>0, ConcatProperties, LenProperties
<1>2. /\ r \in Seq(Readings) /\ Len(r) = Len(s)
      /\ \A i \in 1..Len(s) : r[i] = s[i].reading
  BY ReadingsElements
<1> HIDE DEF t, r
<1>3. /\ u \in Seq(Readings) /\ Len(u) = 1 + Len(s)
      /\ \A i \in 1..(1 + Len(s)) : u[i] = IF i <= 1 THEN <<x.reading>>[i] ELSE r[i - 1]
  BY <1>0, <1>2, ConcatProperties
<1>4. /\ ReadingsOf(t) \in Seq(Readings) /\ Len(ReadingsOf(t)) = Len(t)
      /\ \A i \in 1..Len(t) : ReadingsOf(t)[i] = t[i].reading
  BY <1>1, ReadingsElements
<1> HIDE DEF u
<1>5. ASSUME NEW i \in 1..Len(ReadingsOf(t))
      PROVE  ReadingsOf(t)[i] = u[i]
  <2>1. i \in 1..(1 + Len(s))
    BY <1>1, <1>4
  <2>2. CASE i = 1
    BY <1>0, <1>1, <1>3, <1>4, <2>1, <2>2
  <2>3. CASE i # 1
    <3>1. i - 1 \in 1..Len(s) /\ ~(i <= 1)
      BY <1>1, <2>1, <2>3
    <3> QED
      BY <1>1, <1>2, <1>3, <1>4, <2>1, <3>1
  <2> QED
    BY <2>2, <2>3
<1>6. Len(ReadingsOf(t)) = Len(u)
  BY <1>1, <1>3, <1>4
<1>7. ReadingsOf(t) = u
  BY <1>3, <1>4, <1>5, <1>6, SeqEqual
<1> QED
  BY <1>7 DEF t, r, u

LEMMA ReadingsEmpty == ReadingsOf(<<>>) = <<>>
BY DEF ReadingsOf

\* A point of d joins the readings of d in the chain, no others.
LEMMA WaitingAppend ==
  ASSUME NEW d \in Devices, NEW chain \in Seq(Appends), NEW e \in Devices, NEW p \in Readings
  PROVE  WaitingIn(Append(chain, [device |-> e, reading |-> p]), d) =
           IF e = d THEN Append(WaitingIn(chain, d), p) ELSE WaitingIn(chain, d)
<1> DEFINE x == [device |-> e, reading |-> p]
           its == Selected(chain, Of(d))
<1>1. x \in Appends /\ (x \in Of(d) <=> e = d) /\ x.reading = p
  BY DEF Appends, Of
<1>2. its \in Seq(Of(d)) /\ \A y \in Of(d) : y.reading \in Readings
  BY WaitingType DEF Of
<1> HIDE DEF x
<1>3. Selected(Append(chain, x), Of(d)) = IF x \in Of(d) THEN Append(its, x) ELSE its
  BY <1>1, SelectedAppend
<1> HIDE DEF its
<1>4. CASE e = d
  <2>1. ReadingsOf(Append(its, x)) = Append(ReadingsOf(its), p)
    BY <1>1, <1>2, <1>4, ReadingsAppend
  <2> QED
    BY <1>1, <1>3, <1>4, <2>1 DEF WaitingIn, its, x
<1>5. CASE e # d
  BY <1>1, <1>3, <1>5 DEF WaitingIn, its, x
<1> QED
  BY <1>4, <1>5

\* The point that settles was the first of its device.
LEMMA WaitingTail ==
  ASSUME NEW d \in Devices, NEW chain \in Seq(Appends), chain # <<>>,
         NEW e \in Devices, NEW p \in Readings, chain[1] = [device |-> e, reading |-> p]
  PROVE  WaitingIn(chain, d) =
           IF e = d THEN <<p>> \o WaitingIn(Tail(chain), d) ELSE WaitingIn(Tail(chain), d)
<1> DEFINE x == [device |-> e, reading |-> p]
           its == Selected(Tail(chain), Of(d))
<1>1. x \in Appends /\ (x \in Of(d) <=> e = d) /\ x.reading = p
  BY DEF Appends, Of
<1>2. Tail(chain) \in Seq(Appends) /\ Head(chain) = x
  BY FrontOf
<1>3. its \in Seq(Of(d)) /\ \A y \in Of(d) : y.reading \in Readings
  BY <1>2, WaitingType DEF Of
<1> HIDE DEF x
<1>4. Selected(chain, Of(d)) = IF x \in Of(d) THEN <<x>> \o its ELSE its
  BY <1>2, SelectedTail
<1> HIDE DEF its
<1>5. CASE e = d
  <2>1. ReadingsOf(<<x>> \o its) = <<p>> \o ReadingsOf(its)
    BY <1>1, <1>3, <1>5, ReadingsFront
  <2> QED
    BY <1>1, <1>4, <1>5, <2>1 DEF WaitingIn, its
<1>6. CASE e # d
  BY <1>1, <1>4, <1>6 DEF WaitingIn, its
<1> QED
  BY <1>5, <1>6

\* Of the readings accepted, a, those that do not wait were handled.
Arrived(a, w, m) == \E h \in Seq(Readings) : a = h \o w /\ m = Replay(h)

LEMMA ArrivedForm ==
  ASSUME NEW a \in Seq(Readings), NEW w \in Seq(Readings), NEW m, Arrived(a, w, m)
  PROVE  /\ Len(a) - Len(w) >= 0
         /\ SubSeq(a, Len(a) - Len(w) + 1, Len(a)) = w
         /\ m = Replay(SubSeq(a, 1, Len(a) - Len(w)))
<1>1. PICK h \in Seq(Readings) : a = h \o w /\ m = Replay(h)
  BY DEF Arrived
<1>2. /\ Len(h) \in Nat /\ Len(w) \in Nat /\ Len(a) = Len(h) + Len(w)
      /\ \A i \in 1..(Len(h) + Len(w)) : a[i] = IF i <= Len(h) THEN h[i] ELSE w[i - Len(h)]
  BY <1>1, LenProperties, ConcatProperties
<1>3. Len(a) - Len(w) = Len(h)
  BY <1>2
<1>4. \A i \in 1..Len(a) : a[i] \in Readings
  BY ElementOfSeq
<1>5. SubSeq(a, 1, Len(h)) = h
  <2> DEFINE s == SubSeq(a, 1, Len(h))
  <2>1. \A i \in 1..Len(h) : a[i] \in Readings
    BY <1>2, <1>4
  <2>2. /\ s \in Seq(Readings) /\ Len(s) = IF 1 <= Len(h) THEN Len(h) - 1 + 1 ELSE 0
        /\ \A i \in 1..(Len(h) - 1 + 1) : s[i] = a[1 + i - 1]
    <3>1. 1 \in Int /\ Len(h) \in Int
      BY <1>2
    <3> QED
      BY <2>1, <3>1, SubSeqProperties
  <2> HIDE DEF s
  <2>3. Len(s) = Len(h)
    BY <1>2, <2>2
  <2>4. \A i \in 1..Len(s) : s[i] = h[i]
    BY <1>2, <2>2, <2>3
  <2> QED
    BY <2>2, <2>3, <2>4, SeqEqual DEF s
<1>6. SubSeq(a, Len(h) + 1, Len(a)) = w
  <2> DEFINE s == SubSeq(a, Len(h) + 1, Len(a))
  <2>1. \A i \in (Len(h) + 1)..Len(a) : a[i] \in Readings
    BY <1>2, <1>4
  <2>2. /\ s \in Seq(Readings)
        /\ Len(s) = IF Len(h) + 1 <= Len(a) THEN Len(a) - (Len(h) + 1) + 1 ELSE 0
        /\ \A i \in 1..(Len(a) - (Len(h) + 1) + 1) : s[i] = a[Len(h) + 1 + i - 1]
    <3>1. Len(h) + 1 \in Int /\ Len(a) \in Int
      BY <1>2
    <3> QED
      BY <2>1, <3>1, SubSeqProperties
  <2> HIDE DEF s
  <2>3. Len(s) = Len(w)
    BY <1>2, <2>2
  <2>4. ASSUME NEW i \in 1..Len(s)
        PROVE  s[i] = w[i]
    <3>1. /\ i \in 1..(Len(a) - (Len(h) + 1) + 1) /\ Len(h) + 1 + i - 1 = Len(h) + i
          /\ Len(h) + i \in 1..(Len(h) + Len(w)) /\ ~(Len(h) + i <= Len(h))
          /\ Len(h) + i - Len(h) = i
      BY <1>2, <2>3
    <3>2. s[i] = a[Len(h) + i]
      BY <2>2, <3>1
    <3> QED
      BY <1>2, <3>1, <3>2
  <2> QED
    BY <2>2, <2>3, <2>4, SeqEqual DEF s
<1>7. Len(a) - Len(w) >= 0
  BY <1>2, <1>3
<1>8. SubSeq(a, Len(a) - Len(w) + 1, Len(a)) = w
  BY <1>3, <1>6, Zenon
<1>9. m = Replay(SubSeq(a, 1, Len(a) - Len(w)))
  BY <1>1, <1>3, <1>5, Zenon
<1> QED
  BY <1>7, <1>8, <1>9

\* The points of a device that were accepted since its entry was made.
Arrival == \A d \in Devices : Arrived(accepted[d], WaitingIn(telemetryChain, d), mode[d])

LEMMA NoneWaiting ==
  ASSUME NEW w \in Seq(Readings)
  PROVE  Arrived(w, w, "NONE")
<1>1. <<>> \in Seq(Readings)
  BY EmptySeq
<1>2. w = <<>> \o w
  BY ConcatEmptySeq
<1> QED
  BY <1>1, <1>2, ReplayEmpty DEF Arrived

LEMMA ArrivalHandle ==
  ASSUME Types, Arrival, NEW d \in Devices, HandlePoint(d)
  PROVE  Arrival'
<1>1. telemetryChain \in Seq(Appends) /\ accepted \in [Devices -> Seq(Readings)]
  BY DEF Types, ChainsOK, Histories, Appends
<1>2. CASE registered[d] = "REMOVED"
  BY <1>2 DEF HandlePoint, Arrival
<1>3. CASE registered[d] # "REMOVED"
  <2>1. PICK p \in Readings :
          /\ telemetryChain' = Append(telemetryChain, [device |-> d, reading |-> p])
          /\ accepted' = [accepted EXCEPT ![d] = Append(accepted[d], p)]
    BY <1>1, <1>3 DEF HandlePoint
  <2>2. mode' = mode
    BY DEF HandlePoint
  <2>3. ASSUME NEW e \in Devices
        PROVE  Arrived(accepted'[e], WaitingIn(telemetryChain', e), mode[e])
    <3>1. WaitingIn(telemetryChain', e) = IF d = e THEN Append(WaitingIn(telemetryChain, e), p)
                                                   ELSE WaitingIn(telemetryChain, e)
      BY <1>1, <2>1, WaitingAppend
    <3>2. PICK h \in Seq(Readings) :
            accepted[e] = h \o WaitingIn(telemetryChain, e) /\ mode[e] = Replay(h)
      BY DEF Arrival, Arrived
    <3>3. CASE d # e
      BY <1>1, <2>1, <3>1, <3>2, <3>3 DEF Arrived
    <3>4. CASE d = e
      <4> DEFINE w == WaitingIn(telemetryChain, e)
      <4>1. w \in Seq(Readings)
        BY <1>1, WaitingType
      <4>2. accepted'[e] = Append(accepted[e], p)
        BY <1>1, <2>1, <3>4
      <4> HIDE DEF w
      <4>3. h \o w \in Seq(Readings) /\ <<p>> \in Seq(Readings)
        BY <4>1, ConcatProperties
      <4>4. Append(h \o w, p) = (h \o w) \o <<p>> /\ Append(w, p) = w \o <<p>>
        BY <4>1, <4>3, AppendIsConcat
      <4>5. (h \o w) \o <<p>> = h \o (w \o <<p>>)
        BY <4>1, <4>3, ConcatAssociative
      <4>6. accepted'[e] = h \o Append(w, p)
        BY <3>2, <4>2, <4>4, <4>5 DEF w
      <4> QED
        BY <3>1, <3>2, <3>4, <4>6 DEF w, Arrived
    <3> QED
      BY <3>3, <3>4
  <2> QED
    BY <2>2, <2>3 DEF Arrival
<1> QED
  BY <1>2, <1>3

LEMMA ArrivalPoint ==
  ASSUME Types, Arrival, NEW i, PointSettles(i)
  PROVE  Arrival'
<1>0. PICK d \in Devices, p \in Readings : \E events, kinds : PointLeads(d, p, events, kinds)
  BY PointFacts DEF Types
<1>1. PICK events, kinds : PointLeads(d, p, events, kinds)
  BY <1>0
<1>2. /\ telemetryChain \in Seq(Appends) /\ telemetryChain # <<>>
      /\ telemetryChain[1] = [device |-> d, reading |-> p]
      /\ telemetryChain' = Tail(telemetryChain)
      /\ mode \in [Devices -> Modes \cup {"NONE"}]
      /\ mode' = [mode EXCEPT ![d] = NextMode(EntryOf(mode[d]), p)]
  BY <1>1 DEF PointLeads, Types, ChainsOK, RestOK, Appends
<1>3. accepted' = accepted
  BY DEF PointSettles
<1>4. ASSUME NEW e \in Devices
      PROVE  Arrived(accepted[e], WaitingIn(telemetryChain', e), mode'[e])
  <2> DEFINE w == WaitingIn(telemetryChain', e)
  <2>1. WaitingIn(telemetryChain, e) = IF d = e THEN <<p>> \o w ELSE w
    BY <1>2, WaitingTail
  <2>2. w \in Seq(Readings)
    BY <1>2, FrontOf, WaitingType
  <2>3. PICK h \in Seq(Readings) :
          accepted[e] = h \o WaitingIn(telemetryChain, e) /\ mode[e] = Replay(h)
    BY DEF Arrival, Arrived
  <2> HIDE DEF w
  <2>4. CASE d # e
    BY <1>2, <2>1, <2>3, <2>4 DEF Arrived, w
  <2>5. CASE d = e
    <3>1. <<p>> \in Seq(Readings) /\ Append(h, p) \in Seq(Readings)
      BY EndOf
    <3>2. h \o (<<p>> \o w) = (h \o <<p>>) \o w /\ Append(h, p) = h \o <<p>>
      BY <2>2, <3>1, ConcatAssociative, AppendIsConcat
    <3>3. accepted[e] = Append(h, p) \o w
      BY <2>1, <2>3, <2>5, <3>2
    <3>4. mode'[e] = NextMode(EntryOf(Replay(h)), p)
      BY <1>2, <2>3, <2>5
    <3>5. mode'[e] = Replay(Append(h, p))
      BY <3>4, ReplayAppend
    <3> QED
      BY <3>1, <3>3, <3>5 DEF Arrived, w
  <2> QED
    BY <2>4, <2>5
<1> QED
  BY <1>3, <1>4 DEF Arrival

LEMMA ArrivalRemoval ==
  ASSUME Types, Arrival, NEW d \in Devices, NEW done, RemovalSettles(d, done)
  PROVE  Arrival'
<1>1. telemetryChain' = telemetryChain
  BY DEF RemovalSettles, chains
<1>2. CASE ~done
  BY <1>1, <1>2 DEF RemovalSettles, Arrival
<1>3. CASE done
  <2>1. /\ telemetryChain \in Seq(Appends) /\ accepted \in [Devices -> Seq(Readings)]
        /\ mode \in [Devices -> Modes \cup {"NONE"}]
    BY DEF Types, ChainsOK, Histories, RestOK, Appends
  <2>2. Waiting(d) = WaitingIn(telemetryChain, d)
    BY DEF Waiting, WaitingIn, ReadingsOf, Of
  <2>3. /\ mode' = [mode EXCEPT ![d] = "NONE"]
        /\ accepted' = [accepted EXCEPT ![d] = WaitingIn(telemetryChain, d)]
    BY <1>3, <2>2 DEF RemovalSettles
  <2>4. ASSUME NEW e \in Devices
        PROVE  Arrived(accepted'[e], WaitingIn(telemetryChain, e), mode'[e])
    <3>1. CASE e = d
      <4>1. WaitingIn(telemetryChain, d) \in Seq(Readings)
        BY <2>1, WaitingType
      <4> QED
        BY <2>1, <2>3, <3>1, <4>1, NoneWaiting
    <3>2. CASE e # d
      BY <2>1, <2>3, <3>2 DEF Arrival
    <3> QED
      BY <3>1, <3>2
  <2> QED
    BY <1>1, <2>4 DEF Arrival
<1> QED
  BY <1>2, <1>3

LEMMA NothingArrived ==
  ASSUME NEW d
  PROVE  Arrived(<<>>, WaitingIn(<<>>, d), "NONE")
<1>1. WaitingIn(<<>>, d) = <<>> /\ <<>> \in Seq(Readings)
  BY SelectedEmpty, ReadingsEmpty, EmptySeq DEF WaitingIn
<1> QED
  BY <1>1, NoneWaiting

LEMMA ArrivalNext ==
  ASSUME Types, Arrival, [Next]_vars
  PROVE  Arrival'
<1>1. CASE UNCHANGED <<telemetryChain, accepted, mode>>
  BY <1>1 DEF Arrival
<1>2. CASE Restart
  <2>1. /\ telemetryChain' = <<>> /\ accepted' = [d \in Devices |-> <<>>]
        /\ mode' = [d \in Devices |-> "NONE"]
    BY <1>2 DEF Restart
  <2> QED
    BY <2>1, NothingArrived DEF Arrival
<1>3. CASE UNCHANGED vars
  BY <1>1, <1>3 DEF vars, chains, history
<1>4. ASSUME NEW d \in Devices,
             Sweep(d) \/ Acknowledge(d) \/ Reset(d) \/ Restore(d) \/ RemoveDevice(d)
      PROVE  Arrival'
  BY <1>1, <1>4 DEF Sweep, Acknowledge, Reset, Restore, RemoveDevice, chains, history
<1>5. ASSUME NEW i, NEW done, AlarmSettles(i, done)
      PROVE  Arrival'
  BY <1>1, <1>5 DEF AlarmSettles
<1>6. ASSUME NEW done, CommandSettles(done)
      PROVE  Arrival'
  BY <1>1, <1>6 DEF CommandSettles
<1>7. CASE Next
  BY <1>2, <1>4, <1>5, <1>6, <1>7, ArrivalHandle, ArrivalPoint, ArrivalRemoval DEF Next
<1> QED
  BY <1>3, <1>7

\* Although the handlers of a device's points run together, its state machine
\* sees the points in the order in which they came, and is in the mode they lead
\* to one by one.
THEOREM ArrivalOrder == Spec => []InArrivalOrder
<1>1. Init => Arrival
  BY NothingArrived DEF Init, Arrival
<1>2. Types /\ Arrival /\ [Next]_vars => Arrival'
  BY ArrivalNext
<1>3. Types /\ Arrival => InArrivalOrder
  <2> SUFFICES ASSUME Types, Arrival, NEW d \in Devices
               PROVE  /\ Len(accepted[d]) - Len(Waiting(d)) >= 0
                      /\ SubSeq(accepted[d], Len(accepted[d]) - Len(Waiting(d)) + 1,
                                Len(accepted[d])) = Waiting(d)
                      /\ mode[d] = Replay(SubSeq(accepted[d], 1,
                                                 Len(accepted[d]) - Len(Waiting(d))))
    BY Zenon DEF InArrivalOrder
  <2>1. Waiting(d) = WaitingIn(telemetryChain, d)
    BY DEF Waiting, WaitingIn, ReadingsOf, Of
  <2>2. accepted[d] \in Seq(Readings) /\ telemetryChain \in Seq(Appends)
    BY DEF Types, ChainsOK, Histories, Appends
  <2>3. Waiting(d) \in Seq(Readings)
    BY <2>1, <2>2, WaitingType
  <2>4. Arrived(accepted[d], Waiting(d), mode[d])
    BY <2>1 DEF Arrival
  <2> QED
    BY <2>2, <2>3, <2>4, ArrivedForm
<1> QED
  BY <1>1, <1>2, <1>3, TypesAlways, PTL DEF Spec

-----------------------------------------------------------------------------
(* A device is curtailed once and released once.                           *)

\* The effects s of a device after the first e alternate, and the mode m is that
\* after the last.
Alternates(s, e, m) ==
  /\ \A k \in (e + 1)..Len(s) : s[k].type = IF (k - e) % 2 = 1 THEN "CURTAIL" ELSE "STANDBY"
  /\ (m = "CURTAILED") <=> ((Len(s) - e) % 2 = 1)

Alternation == \A d \in Devices : Alternates(proposed[d], earlier[d], mode[d])

\* A transition proposes CURTAIL as it enters CURTAILED and STANDBY as it leaves
\* it, and nothing else.
LEMMA EffectsFacts ==
  ASSUME NEW m, NEW p
  PROVE  \/ /\ Effects(m, p) # <<>> /\ Effects(m, p)[1] = "CURTAIL"
            /\ m # "CURTAILED" /\ NextMode(m, p) = "CURTAILED"
         \/ /\ Effects(m, p) # <<>> /\ Effects(m, p)[1] = "STANDBY"
            /\ m = "CURTAILED" /\ NextMode(m, p) # "CURTAILED"
         \/ /\ Effects(m, p) = <<>>
            /\ (m = "CURTAILED") <=> (NextMode(m, p) = "CURTAILED")
<1>1. p.voltage = "high" => InViolation(p)
  BY DEF InViolation
<1> QED
  BY <1>1 DEF Effects, NextMode

LEMMA AlternatesFresh ==
  ASSUME NEW s, Len(s) \in Nat
  PROVE  Alternates(s, Len(s), "NONE")
<1>1. (Len(s) + 1)..Len(s) = {} /\ (Len(s) - Len(s)) % 2 = 0
  BY SMT
<1> QED
  BY <1>1 DEF Alternates

LEMMA AlternatesMore ==
  ASSUME NEW s \in Seq(Proposals), NEW e \in Nat, e <= Len(s), NEW m, Alternates(s, e, m),
         NEW x \in Proposals, NEW n,
         \/ x.type = "CURTAIL" /\ m # "CURTAILED" /\ n = "CURTAILED"
         \/ x.type = "STANDBY" /\ m = "CURTAILED" /\ n # "CURTAILED"
  PROVE  Alternates(s \o <<x>>, e, n)
<1>1. s \o <<x>> = Append(s, x)
  BY AppendIsConcat
<1> DEFINE t == Append(s, x)
<1>2. /\ Len(s) \in Nat /\ Len(t) = Len(s) + 1
      /\ \A k \in 1..Len(s) : t[k] = s[k]
      /\ t[Len(s) + 1] = x
  BY EndOf
<1> HIDE DEF t
<1>3. (Len(s) - e) % 2 = 1 <=> (Len(s) + 1 - e) % 2 # 1
  BY <1>2, SMT
<1>4. (m = "CURTAILED") <=> ((Len(s) - e) % 2 = 1)
  BY DEF Alternates
<1>5. (n = "CURTAILED") <=> ((Len(t) - e) % 2 = 1)
  BY <1>2, <1>3, <1>4
<1>6. ASSUME NEW k \in (e + 1)..Len(t)
      PROVE  t[k].type = IF (k - e) % 2 = 1 THEN "CURTAIL" ELSE "STANDBY"
  <2>1. CASE k \in (e + 1)..Len(s)
    <3>1. k \in 1..Len(s)
      BY <1>2, <2>1
    <3> QED
      BY <1>2, <2>1, <3>1 DEF Alternates
  <2>2. CASE k = Len(s) + 1
    <3>1. x.type = IF (Len(s) + 1 - e) % 2 = 1 THEN "CURTAIL" ELSE "STANDBY"
      BY <1>3, <1>4
    <3> QED
      BY <1>2, <2>2, <3>1
  <2> QED
    BY <1>2, <2>1, <2>2
<1> QED
  BY <1>1, <1>5, <1>6 DEF Alternates, t

LEMMA AlternationPoint ==
  ASSUME Types, Alternation, NEW i, PointSettles(i)
  PROVE  Alternation'
<1>0. PICK d \in Devices, p \in Readings : \E events, kinds : PointLeads(d, p, events, kinds)
  BY PointFacts DEF Types
<1>1. PICK events, kinds : PointLeads(d, p, events, kinds)
  BY <1>0
<1> DEFINE m == EntryOf(mode[d])
           more == Proposed(kinds, Len(events))
<1>2. /\ kinds = Effects(m, p) /\ kinds \in {<<>>, <<"CURTAIL">>, <<"STANDBY">>}
      /\ mode' = [mode EXCEPT ![d] = NextMode(m, p)]
      /\ proposed' = [proposed EXCEPT ![d] = proposed[d] \o more]
      /\ mode \in [Devices -> Modes \cup {"NONE"}]
      /\ proposed \in [Devices -> Seq(Proposals)]
  BY <1>1 DEF PointLeads, Types, RestOK, Histories
<1>3. earlier' = earlier /\ (m = "CURTAILED" <=> mode[d] = "CURTAILED")
  BY DEF PointSettles, EntryOf
<1>4. proposed[d] \in Seq(Proposals) /\ earlier[d] \in Nat /\ earlier[d] <= Len(proposed[d])
  BY RoomFacts
<1>5. Alternates(proposed[d], earlier[d], mode[d])
  BY DEF Alternation
<1> HIDE DEF m, more
<1>6. proposed'[d] = proposed[d] \o more /\ mode'[d] = NextMode(m, p)
  BY <1>2
<1>7. CASE kinds = <<>>
  <2>1. more = <<>>
    BY <1>7 DEF more, Proposed
  <2>2. proposed'[d] = proposed[d]
    BY <1>4, <1>6, <2>1, ConcatEmptySeq
  <2>3. m = "CURTAILED" <=> NextMode(m, p) = "CURTAILED"
    BY <1>2, <1>7, EffectsFacts
  <2>4. Alternates(proposed'[d], earlier[d], mode'[d])
    BY <1>3, <1>5, <1>6, <2>2, <2>3 DEF Alternates
  <2> QED
    BY <1>2, <1>3, <2>4 DEF Alternation
<1>8. CASE kinds # <<>>
  <2> DEFINE x == [type |-> kinds[1], events |-> Len(events)]
  <2>1. more = <<x>>
    BY <1>8 DEF more, Proposed
  <2>2. \/ kinds[1] = "CURTAIL" /\ m # "CURTAILED" /\ NextMode(m, p) = "CURTAILED"
        \/ kinds[1] = "STANDBY" /\ m = "CURTAILED" /\ NextMode(m, p) # "CURTAILED"
    BY <1>2, <1>8, EffectsFacts
  <2>3. x.type = kinds[1]
    OBVIOUS
  <2>4. x \in Proposals
    <3>1. Len(events) \in Nat
      <4>1. <<>> # <<x>> /\ events = Events(d, TelemetryChecks(p))
        BY <1>1 DEF PointLeads
      <4> QED
        BY <1>1, PointEvents
    <3> QED
      BY <1>2, <1>8, <3>1 DEF Proposals
  <2> HIDE DEF x
  <2>5. Alternates(proposed[d] \o <<x>>, earlier[d], NextMode(m, p))
    BY <1>3, <1>4, <1>5, <2>2, <2>3, <2>4, AlternatesMore
  <2> QED
    BY <1>2, <1>3, <1>6, <2>1, <2>5 DEF Alternation
<1> QED
  BY <1>7, <1>8

LEMMA AlternationNext ==
  ASSUME Types, Alternation, [Next]_vars
  PROVE  Alternation'
<1>1. CASE UNCHANGED <<proposed, earlier, mode>>
  BY <1>1 DEF Alternation
<1>2. CASE Restart
  <2>1. /\ earlier' = [d \in Devices |-> Len(proposed[d])] /\ proposed' = proposed
        /\ mode' = [d \in Devices |-> "NONE"]
    BY <1>2 DEF Restart
  <2>2. \A d \in Devices : Len(proposed[d]) \in Nat
    BY RoomFacts
  <2> QED
    BY <2>1, <2>2, AlternatesFresh DEF Alternation
<1>3. CASE UNCHANGED vars
  BY <1>1, <1>3 DEF vars, history
<1>4. ASSUME NEW d \in Devices, HandlePoint(d) \/ Sweep(d) \/ Acknowledge(d) \/ Reset(d)
                                \/ Restore(d) \/ RemoveDevice(d)
      PROVE  Alternation'
  BY <1>1, <1>4 DEF HandlePoint, Sweep, Acknowledge, Reset, Restore, RemoveDevice, history
<1>5. ASSUME NEW i, NEW done, AlarmSettles(i, done)
      PROVE  Alternation'
  BY <1>1, <1>5 DEF AlarmSettles
<1>6. ASSUME NEW done, CommandSettles(done)
      PROVE  Alternation'
  BY <1>1, <1>6 DEF CommandSettles
<1>7. ASSUME NEW d \in Devices, NEW done, RemovalSettles(d, done)
      PROVE  Alternation'
  <2>1. CASE ~done
    BY <1>1, <1>7, <2>1 DEF RemovalSettles
  <2>2. CASE done
    <3>1. /\ mode' = [mode EXCEPT ![d] = "NONE"]
          /\ earlier' = [earlier EXCEPT ![d] = Len(proposed[d])] /\ proposed' = proposed
      BY <1>7, <2>2 DEF RemovalSettles
    <3>2. /\ mode \in [Devices -> Modes \cup {"NONE"}] /\ earlier \in [Devices -> Nat]
          /\ Len(proposed[d]) \in Nat
      BY RoomFacts DEF Types, RestOK, Histories
    <3>3. Alternates(proposed[d], Len(proposed[d]), "NONE")
      BY <3>2, AlternatesFresh
    <3> QED
      BY <3>1, <3>2, <3>3 DEF Alternation
  <2> QED
    BY <2>1, <2>2
<1>8. CASE Next
  BY <1>2, <1>4, <1>5, <1>6, <1>7, <1>8, AlternationPoint DEF Next
<1> QED
  BY <1>3, <1>8

\* While the entry of a device lives, its state machine proposes CURTAIL and
\* STANDBY by turns, and the device is in CURTAILED exactly after a CURTAIL.
THEOREM OnceEach == Spec => []CurtailedOnceReleasedOnce
<1>1. Init => Alternation
  <2>1. Len(<<>>) = 0 /\ 0 \in Nat
    BY EmptySeq
  <2>2. Alternates(<<>>, 0, "NONE")
    BY <2>1, AlternatesFresh
  <2> QED
    BY <2>2 DEF Init, Alternation
<1>2. Types /\ Alternation /\ [Next]_vars => Alternation'
  BY AlternationNext
<1>3. Types /\ Alternation => CurtailedOnceReleasedOnce
  <2> SUFFICES ASSUME Types, Alternation, NEW d \in Devices
               PROVE  LET effects == SubSeq(proposed[d], earlier[d] + 1, Len(proposed[d]))
                      IN  /\ \A i \in 1..Len(effects) :
                               effects[i].type = IF i % 2 = 1 THEN "CURTAIL" ELSE "STANDBY"
                          /\ (mode[d] = "CURTAILED") <=> (Len(effects) % 2 = 1)
    BY Zenon DEF CurtailedOnceReleasedOnce
  <2> DEFINE s == proposed[d]
             e == earlier[d]
             effects == SubSeq(s, e + 1, Len(s))
  <2>1. s \in Seq(Proposals) /\ e \in Nat /\ e <= Len(s) /\ Len(s) \in Nat
    BY RoomFacts
  <2>2. Alternates(s, e, mode[d])
    BY DEF Alternation
  <2> HIDE DEF s, e
  <2>3. /\ Len(effects) = IF e + 1 <= Len(s) THEN Len(s) - (e + 1) + 1 ELSE 0
        /\ \A i \in 1..(Len(s) - (e + 1) + 1) : effects[i] = s[e + 1 + i - 1]
    <3>1. /\ e + 1 \in Int /\ Len(s) \in Int
          /\ \A i \in (e + 1)..Len(s) : i \in 1..Len(s)
      BY <2>1
    <3>2. \A i \in (e + 1)..Len(s) : s[i] \in Proposals
      BY <2>1, <3>1, ElementOfSeq
    <3> QED
      BY <3>1, <3>2, SubSeqProperties
  <2> HIDE DEF effects
  <2>4. Len(effects) = Len(s) - e
    BY <2>1, <2>3
  <2>5. ASSUME NEW i \in 1..Len(effects)
        PROVE  effects[i].type = IF i % 2 = 1 THEN "CURTAIL" ELSE "STANDBY"
    <3>1. /\ i \in 1..(Len(s) - (e + 1) + 1) /\ e + 1 + i - 1 = e + i
          /\ e + i \in (e + 1)..Len(s) /\ e + i - e = i
      BY <2>1, <2>4
    <3>2. effects[i] = s[e + i]
      <4>1. effects[i] = s[e + 1 + i - 1]
        BY <2>3, <3>1
      <4> QED
        BY <3>1, <4>1
    <3>3. PICK k \in (e + 1)..Len(s) : k = e + i
      BY <3>1
    <3>4. s[k].type = IF (k - e) % 2 = 1 THEN "CURTAIL" ELSE "STANDBY"
      BY <2>2 DEF Alternates
    <3>5. k - e = i
      BY <2>1, <3>1, <3>3
    <3> QED
      BY <3>2, <3>3, <3>4, <3>5
  <2>6. (mode[d] = "CURTAILED") <=> (Len(effects) % 2 = 1)
    BY <2>2, <2>4 DEF Alternates
  <2> QED
    BY <2>5, <2>6 DEF effects, s, e
<1> QED
  BY <1>1, <1>2, <1>3, TypesAlways, PTL DEF Spec

-----------------------------------------------------------------------------
(* The log of alarms is never ahead of the engine.                         *)

Statuses == {"ACTIVE", "ACKNOWLEDGED", "CLEARED"}

\* A record of the alarm that was the n-th of its type does not say s too early.
SoundAs(d, t, n, s) ==
  /\ n <= raised[d][t]
  /\ t \in active[d] /\ n = raised[d][t] =>
       s # "CLEARED" /\ (s = "ACKNOWLEDGED" => t \in acknowledged[d])

Sound(e) == SoundAs(e.device, e.type, e.number, e.status)

\* The events that the coroutines of a chain have yet to persist.
Flying(chain) ==
  {chain[i].event : i \in 1..Len(chain)}
    \cup UNION {{chain[i].next[j] : j \in 1..Len(chain[i].next)} : i \in 1..Len(chain)}

Follows ==
  /\ \A e \in Flying(alarmChain) : Sound(e)
  /\ \A d \in Devices, t \in AlarmTypes, n \in 1..MaxRaised, s \in Statuses :
       alarmLog[d][t][n] = s => SoundAs(d, t, n, s)

LEMMA FlyingType ==
  ASSUME NEW chain \in Seq(Writes)
  PROVE  Flying(chain) \subseteq LogEvents
<1>1. \A i \in 1..Len(chain) : chain[i] \in Writes
  BY ElementOfSeq
<1>2. ASSUME NEW i \in 1..Len(chain)
      PROVE  /\ chain[i].event \in LogEvents
             /\ \A j \in 1..Len(chain[i].next) : chain[i].next[j] \in LogEvents
  <2>1. chain[i].event \in LogEvents /\ chain[i].next \in Seq(LogEvents)
    BY <1>1 DEF Writes
  <2> QED
    BY <2>1, ElementOfSeq
<1> QED
  BY <1>2 DEF Flying

LEMMA FlyingTail ==
  ASSUME NEW chain \in Seq(Writes), chain # <<>>
  PROVE  /\ chain[1].event \in Flying(chain) /\ Flying(Tail(chain)) \subseteq Flying(chain)
         /\ \A j \in 1..Len(chain[1].next) : chain[1].next[j] \in Flying(chain)
<1>1. /\ Len(chain) \in Nat \ {0} /\ Len(Tail(chain)) = Len(chain) - 1
      /\ \A i \in 1..Len(Tail(chain)) : i + 1 \in 1..Len(chain) /\ Tail(chain)[i] = chain[i + 1]
  BY FrontOf
<1>2. 1 \in 1..Len(chain)
  BY <1>1
<1>3. chain[1].event \in Flying(chain)
      /\ \A j \in 1..Len(chain[1].next) : chain[1].next[j] \in Flying(chain)
  BY <1>2 DEF Flying
<1>4. ASSUME NEW e \in Flying(Tail(chain))
      PROVE  e \in Flying(chain)
  <2>1. PICK i \in 1..Len(Tail(chain)) :
          \/ e = Tail(chain)[i].event
          \/ \E j \in 1..Len(Tail(chain)[i].next) : e = Tail(chain)[i].next[j]
    BY DEF Flying
  <2>2. PICK k \in 1..Len(chain) : chain[k] = Tail(chain)[i]
    BY <1>1
  <2>3. \/ e = chain[k].event
        \/ \E j \in 1..Len(chain[k].next) : e = chain[k].next[j]
    BY <2>1, <2>2
  <2>4. CASE e = chain[k].event
    BY <2>4 DEF Flying
  <2>5. CASE \E j \in 1..Len(chain[k].next) : e = chain[k].next[j]
    <3> DEFINE Nexts(n) == {chain[n].next[j] : j \in 1..Len(chain[n].next)}
    <3>1. e \in Nexts(k)
      BY <2>5
    <3>2. UNION {Nexts(n) : n \in 1..Len(chain)} \subseteq Flying(chain)
      BY Zenon DEF Flying
    <3> HIDE DEF Nexts
    <3> QED
      BY <3>1, <3>2
  <2> QED
    BY <2>3, <2>4, <2>5
<1>5. Flying(Tail(chain)) \subseteq Flying(chain)
  BY <1>4
<1> QED
  BY <1>3, <1>5, Zenon

\* A coroutine that goes on brings no event but its own.
LEMMA FlyingGoOn ==
  ASSUME NEW d, NEW events \in Seq(LogEvents), NEW effects \in Seq(1..MaxPoints),
         NEW alarms \in Seq(Writes), NEW commands, GoOn(d, events, effects, alarms, commands),
         NEW e \in Flying(alarmChain')
  PROVE  e \in Flying(alarms) \/ \E k \in 1..Len(events) : e = events[k]
<1>1. CASE events = <<>>
  BY <1>1 DEF GoOn
<1>2. CASE events # <<>>
  <2> DEFINE w == [event |-> Head(events), next |-> Tail(events), effects |-> effects]
  <2>1. alarmChain' = Append(alarms, w)
    BY <1>2 DEF GoOn
  <2>2. /\ Len(events) \in Nat \ {0} /\ Head(events) = events[1] /\ events[1] \in LogEvents
        /\ Tail(events) \in Seq(LogEvents)
        /\ \A i \in 1..Len(Tail(events)) :
             i + 1 \in 1..Len(events) /\ Tail(events)[i] = events[i + 1]
    BY <1>2, FrontOf
  <2>3. w \in Writes /\ w.event = events[1] /\ w.next = Tail(events)
    BY <2>2 DEF Writes
  <2> HIDE DEF w
  <2>4. /\ Len(alarms) \in Nat /\ Len(alarmChain') = Len(alarms) + 1
        /\ \A i \in 1..Len(alarms) : alarmChain'[i] = alarms[i]
        /\ alarmChain'[Len(alarms) + 1] = w
    BY <2>1, <2>3, EndOf
  <2>5. PICK i \in 1..Len(alarmChain') :
          \/ e = alarmChain'[i].event
          \/ \E j \in 1..Len(alarmChain'[i].next) : e = alarmChain'[i].next[j]
    BY DEF Flying
  <2>6. CASE i \in 1..Len(alarms)
    BY <2>4, <2>5, <2>6 DEF Flying
  <2>7. CASE i = Len(alarms) + 1
    <3>1. \/ e = events[1]
          \/ \E j \in 1..Len(Tail(events)) : e = Tail(events)[j]
      BY <2>3, <2>4, <2>5, <2>7
    <3>2. 1 \in 1..Len(events)
      BY <2>2
    <3> QED
      BY <2>2, <3>1, <3>2
  <2> QED
    BY <2>4, <2>6, <2>7
<1> QED
  BY <1>1, <1>2

\* What was sound stays sound as the engine goes on.
LEMMA SoundStays ==
  ASSUME EngineOK, NEW d \in Devices, NEW t \in AlarmTypes, NEW n \in Nat, NEW s,
         Progresses(d, t), SoundAs(d, t, n, s)
  PROVE  SoundAs(d, t, n, s)'
<1>1. raised[d][t] \in Nat
  BY MaxRaisedType DEF EngineOK
<1> QED
  BY <1>1 DEF Progresses, SoundAs

LEMMA FollowsStep ==
  ASSUME Types, Follows,
         \A d \in Devices, t \in AlarmTypes : Progresses(d, t),
         \A e \in Flying(alarmChain') : e \in Flying(alarmChain) \/ Sound(e)',
         \/ alarmLog' = alarmLog
         \/ \E e \in Flying(alarmChain) :
              alarmLog' = [alarmLog EXCEPT ![e.device][e.type][e.number] = e.status]
  PROVE  Follows'
<1>1. ASSUME NEW d \in Devices, NEW t \in AlarmTypes, NEW n \in 1..MaxRaised, NEW s,
             SoundAs(d, t, n, s)
      PROVE  SoundAs(d, t, n, s)'
  <2>1. n \in Nat /\ EngineOK
    BY MaxRaisedType DEF Types
  <2> QED
    BY <1>1, <2>1, SoundStays
<1>2. ASSUME NEW e \in Flying(alarmChain)
      PROVE  /\ e.device \in Devices /\ e.type \in AlarmTypes /\ e.number \in 1..MaxRaised
             /\ e.status \in Statuses
             /\ SoundAs(e.device, e.type, e.number, e.status)
  <2>1. e \in LogEvents
    BY FlyingType DEF Types, ChainsOK
  <2> QED
    BY <2>1 DEF Follows, LogEvents, Sound, Statuses
<1>3. ASSUME NEW e \in Flying(alarmChain')
      PROVE  Sound(e)'
  <2>1. CASE e \in Flying(alarmChain)
    BY <1>1, <1>2, <2>1 DEF Sound
  <2> QED
    BY <2>1
<1>4. ASSUME NEW d \in Devices, NEW t \in AlarmTypes, NEW n \in 1..MaxRaised,
             NEW s \in Statuses, alarmLog'[d][t][n] = s
      PROVE  SoundAs(d, t, n, s)'
  <2>1. CASE alarmLog[d][t][n] = s
    BY <1>1, <2>1 DEF Follows
  <2>2. CASE alarmLog[d][t][n] # s
    <3>1. PICK e \in Flying(alarmChain) :
            alarmLog' = [alarmLog EXCEPT ![e.device][e.type][e.number] = e.status]
      BY <1>4, <2>2
    <3>2. /\ e.device \in Devices /\ e.type \in AlarmTypes /\ e.number \in 1..MaxRaised
          /\ SoundAs(e.device, e.type, e.number, e.status)
      BY <1>2
    <3>3. d = e.device /\ t = e.type /\ n = e.number /\ s = e.status
      BY <1>4, <2>2, <3>1, <3>2 DEF Types, LogOK
    <3> QED
      BY <1>1, <3>2, <3>3
  <2> QED
    BY <2>1, <2>2
<1> QED
  BY <1>3, <1>4 DEF Follows

\* The events of checks are sound once the checks took effect.
LEMMA EvaluatedSound ==
  ASSUME Types, NEW d \in Devices, NEW checks \in Seq(Checks), Evaluate(d, checks),
         \A t \in AlarmTypes : /\ raised[d][t] < MaxRaised
                               /\ t \in active[d] => raised[d][t] >= 1,
         NEW e, NEW k \in 1..Len(Events(d, checks)), e = Events(d, checks)[k]
  PROVE  Sound(e)'
<1>1. PICK c \in ToSet(checks) : /\ Triggers(d, c) \/ Clears(d, c)
                                 /\ e = EventOf(d, c)
  BY EventsFacts DEF Types
<1>2. /\ c \in Checks
      /\ Triggers(d, c) => raised'[d][c.type] = raised[d][c.type] + 1
      /\ Clears(d, c) => /\ c.type \notin active'[d]
                         /\ raised'[d][c.type] = raised[d][c.type]
  BY EvaluateFacts DEF Types
<1>3. PICK n \in Nat : n = raised[d][c.type]
  <2>1. c.type \in AlarmTypes
    BY <1>2 DEF Checks
  <2> QED
    BY <2>1, RoomFacts
<1>4. CASE Triggers(d, c)
  <2>1. e = Event(d, c.type, n + 1, "ACTIVE")
    BY <1>1, <1>3, <1>4 DEF Triggers, EventOf
  <2>2. SoundAs(d, c.type, n + 1, "ACTIVE")'
    BY <1>2, <1>3, <1>4 DEF SoundAs
  <2> QED
    BY <2>1, <2>2 DEF Sound, Event
<1>5. CASE Clears(d, c)
  <2>1. e = Event(d, c.type, n, "CLEARED")
    BY <1>1, <1>3, <1>5 DEF Clears, EventOf
  <2>2. SoundAs(d, c.type, n, "CLEARED")'
    BY <1>2, <1>3, <1>5 DEF SoundAs
  <2> QED
    BY <2>1, <2>2 DEF Sound, Event
<1> QED
  BY <1>1, <1>4, <1>5

\* Those that report an acknowledgement are sound once it took effect.
LEMMA AcknowledgedSound ==
  ASSUME Types, NEW d \in Devices, NEW events, Acknowledges(d, events),
         UNCHANGED <<active, raised>>,
         NEW e, NEW k \in 1..Len(events), e = events[k]
  PROVE  Sound(e)'
<1>1. PICK t \in active[d] : /\ e = Event(d, t, raised[d][t], "ACKNOWLEDGED")
                             /\ t \in AlarmTypes /\ t \in acknowledged'[d]
  BY DEF Acknowledges
<1>2. PICK n \in Nat : n = raised[d][t]
  BY <1>1, RoomFacts
<1>3. SoundAs(d, t, n, "ACKNOWLEDGED")'
  BY <1>1, <1>2 DEF SoundAs
<1> QED
  BY <1>1, <1>2, <1>3 DEF Sound, Event

LEMMA AcknowledgesProgress ==
  ASSUME NEW d, NEW events, Acknowledges(d, events), UNCHANGED <<active, raised>>
  PROVE  \A e \in Devices, t \in AlarmTypes : Progresses(e, t)
BY DEF Acknowledges, Progresses

LEMMA NothingProgresses ==
  ASSUME UNCHANGED engine
  PROVE  \A e \in Devices, t \in AlarmTypes : Progresses(e, t)
BY DEF engine, Progresses

LEMMA FollowsAcknowledges ==
  ASSUME Types, Follows, NEW d \in Devices, NEW events, Acknowledges(d, events),
         UNCHANGED <<active, raised, alarmLog>>,
         NEW commands, GoOn(d, events, <<>>, alarmChain, commands)
  PROVE  Follows'
<1>1. \A e \in Devices, t \in AlarmTypes : Progresses(e, t)
  BY AcknowledgesProgress
<1>2. ASSUME NEW e \in Flying(alarmChain')
      PROVE  e \in Flying(alarmChain) \/ Sound(e)'
  <2>1. events \in Seq(LogEvents) /\ <<>> \in Seq(1..MaxPoints) /\ alarmChain \in Seq(Writes)
    BY EmptySeq DEF Acknowledges, Types, ChainsOK
  <2>2. e \in Flying(alarmChain) \/ \E k \in 1..Len(events) : e = events[k]
    BY <2>1, FlyingGoOn
  <2> QED
    BY <2>2, AcknowledgedSound
<1> QED
  BY <1>1, <1>2, FollowsStep

LEMMA FollowsPoint ==
  ASSUME Types, Follows, NEW i, PointSettles(i)
  PROVE  Follows'
<1>0. PICK d \in Devices, p \in Readings : \E events, kinds : PointLeads(d, p, events, kinds)
  BY PointFacts DEF Types
<1>1. PICK events, kinds : PointLeads(d, p, events, kinds)
  BY <1>0
<1>2. alarmLog' = alarmLog
  BY DEF PointSettles
<1>3. /\ EngineOK /\ TelemetryChecks(p) \in Seq(Checks) /\ Evaluate(d, TelemetryChecks(p))
      /\ events = Events(d, TelemetryChecks(p)) /\ events \in Seq(LogEvents)
      /\ \A t \in AlarmTypes : /\ raised[d][t] < MaxRaised
                               /\ t \in active[d] => raised[d][t] >= 1
  BY <1>1, ChecksType, PointEvents DEF PointLeads, Types
<1>4. \A e \in Devices, t \in AlarmTypes : Progresses(e, t)
  BY <1>3, EvaluateFacts
<1>5. ASSUME NEW e \in Flying(alarmChain')
      PROVE  e \in Flying(alarmChain) \/ Sound(e)'
  <2>1. Numbers(kinds, Len(proposed[d])) \in Seq(1..MaxPoints)
    <3>1. Len(telemetryChain) \in Nat \ {0}
      BY <1>1, FrontOf DEF PointLeads, Types, ChainsOK
    <3>2. Len(proposed[d]) \in Nat /\ Len(proposed[d]) + 1 <= MaxPoints
      BY <3>1, RoomFacts
    <3> QED
      BY <3>2, NumbersFacts
  <2>2. e \in Flying(alarmChain) \/ \E k \in 1..Len(events) : e = events[k]
    BY <1>1, <1>3, <2>1, FlyingGoOn DEF PointLeads, Types, ChainsOK
  <2> QED
    BY <1>3, <2>2, EvaluatedSound
<1> QED
  BY <1>2, <1>4, <1>5, FollowsStep

LEMMA FollowsSweep ==
  ASSUME Types, Follows, NEW d \in Devices, Sweep(d)
  PROVE  Follows'
<1>1. alarmLog' = alarmLog /\ sweeps < MaxSweeps
  BY DEF Sweep
<1>2. PICK age : /\ Evaluate(d, StalenessChecks(age))
                 /\ GoOn(d, Events(d, StalenessChecks(age)), <<>>, alarmChain, commandChain)
  BY DEF Sweep
<1>3. /\ EngineOK /\ StalenessChecks(age) \in Seq(Checks)
      /\ \A t \in AlarmTypes : /\ raised[d][t] < MaxRaised
                               /\ t \in active[d] => raised[d][t] >= 1
  <2>1. \A t \in AlarmTypes : /\ raised[d][t] < MaxRaised
                              /\ t \in active[d] => raised[d][t] >= 1
    BY <1>1, RoomFacts
  <2> QED
    BY <2>1, ChecksType DEF Types
<1>4. \A e \in Devices, t \in AlarmTypes : Progresses(e, t)
  BY <1>2, <1>3, EvaluateFacts
<1>5. Events(d, StalenessChecks(age)) \in Seq(LogEvents)
  BY <1>3, EventsFacts
<1>6. ASSUME NEW e \in Flying(alarmChain')
      PROVE  e \in Flying(alarmChain) \/ Sound(e)'
  <2>1. <<>> \in Seq(1..MaxPoints) /\ alarmChain \in Seq(Writes)
    BY EmptySeq DEF Types, ChainsOK
  <2>2. \/ e \in Flying(alarmChain)
        \/ \E k \in 1..Len(Events(d, StalenessChecks(age))) :
             e = Events(d, StalenessChecks(age))[k]
    BY <1>2, <1>5, <2>1, FlyingGoOn
  <2> QED
    BY <1>2, <1>3, <2>2, EvaluatedSound
<1> QED
  BY <1>1, <1>4, <1>6, FollowsStep

LEMMA FollowsAlarm ==
  ASSUME Types, Follows, NEW i, NEW done, AlarmSettles(i, done)
  PROVE  Follows'
<1> DEFINE w == alarmChain[1]
<1>0. UNCHANGED engine
  BY DEF AlarmSettles
<1>1. AlarmLeads(w, done)
  BY AlarmFacts DEF Types
<1>2. /\ alarmChain \in Seq(Writes) /\ alarmChain # <<>> /\ w \in Writes
      /\ Tail(alarmChain) \in Seq(Writes)
  BY <1>1, FrontOf DEF AlarmLeads, Types, ChainsOK
<1>3. /\ w.event \in Flying(alarmChain) /\ Flying(Tail(alarmChain)) \subseteq Flying(alarmChain)
      /\ \A j \in 1..Len(w.next) : w.next[j] \in Flying(alarmChain)
  BY <1>2, FlyingTail
<1> HIDE DEF w
<1>4. w.next \in Seq(LogEvents) /\ w.effects \in Seq(1..MaxPoints)
  BY <1>2 DEF Writes
<1>5. ASSUME NEW e \in Flying(alarmChain')
      PROVE  e \in Flying(alarmChain)
  <2>1. GoOn(w.event.device, w.next, w.effects, Tail(alarmChain), commandChain)
    BY <1>1 DEF AlarmLeads
  <2>2. e \in Flying(Tail(alarmChain)) \/ \E k \in 1..Len(w.next) : e = w.next[k]
    <3> DEFINE rest == Tail(alarmChain)
               next == w.next
               effects == w.effects
               d == w.event.device
    <3>1. rest \in Seq(Writes) /\ next \in Seq(LogEvents) /\ effects \in Seq(1..MaxPoints)
      BY <1>2, <1>4
    <3>2. GoOn(d, next, effects, rest, commandChain)
      BY <2>1
    <3> HIDE DEF rest, next, effects, d
    <3>3. e \in Flying(rest) \/ \E k \in 1..Len(next) : e = next[k]
      BY <3>1, <3>2, FlyingGoOn
    <3> QED
      BY <3>3 DEF rest, next
  <2> QED
    BY <1>3, <2>2
<1>6. \/ alarmLog' = alarmLog
      \/ \E e \in Flying(alarmChain) :
           alarmLog' = [alarmLog EXCEPT ![e.device][e.type][e.number] = e.status]
  BY <1>1, <1>3 DEF AlarmLeads
<1> QED
  BY <1>0, <1>5, <1>6, NothingProgresses, FollowsStep

LEMMA FollowsRestart ==
  ASSUME Types, Follows, Restart
  PROVE  Follows'
<1>1. RestartEmpties
  BY RestartFacts
<1>2. /\ active' = [d \in Devices |-> {}] /\ alarmChain' = <<>> /\ raised' = raised
  BY <1>1 DEF RestartEmpties
<1>3. \A e \in Devices, t \in AlarmTypes : Progresses(e, t)
  BY <1>2 DEF Progresses
<1>4. \A e : e \notin Flying(alarmChain')
  BY <1>2 DEF Flying
<1>5. \/ alarmLog' = alarmLog
      \/ \E e \in Flying(alarmChain) :
           alarmLog' = [alarmLog EXCEPT ![e.device][e.type][e.number] = e.status]
  <2>1. CASE alarmLog' = alarmLog
    BY <2>1
  <2>2. CASE alarmChain # <<>> /\ LET e == Head(alarmChain).event
             IN  alarmLog' = [alarmLog EXCEPT ![e.device][e.type][e.number] = e.status]
    <3>1. Head(alarmChain) = alarmChain[1] /\ alarmChain[1].event \in Flying(alarmChain)
      BY <2>2, FrontOf, FlyingTail DEF Types, ChainsOK
    <3> QED
      BY <2>2, <3>1
  <2> QED
    BY <1>1, <2>1, <2>2 DEF RestartEmpties
<1> QED
  BY <1>3, <1>4, <1>5, FollowsStep

LEMMA FollowsNext ==
  ASSUME Types, Follows, [Next]_vars
  PROVE  Follows'
<1>1. CASE UNCHANGED <<engine, alarmChain, alarmLog>>
  BY <1>1, NothingProgresses, FollowsStep
<1>2. CASE UNCHANGED vars
  BY <1>1, <1>2 DEF vars, chains
<1>3. ASSUME NEW d \in Devices, HandlePoint(d) \/ Reset(d) \/ Restore(d) \/ RemoveDevice(d)
      PROVE  Follows'
  BY <1>1, <1>3 DEF HandlePoint, Reset, Restore, RemoveDevice, chains
<1>4. ASSUME NEW d \in Devices, NEW done, RemovalSettles(d, done)
      PROVE  Follows'
  BY <1>1, <1>4 DEF RemovalSettles, chains
<1>5. ASSUME NEW d \in Devices, Acknowledge(d)
      PROVE  Follows'
  <2>1. UNCHANGED <<active, raised, alarmLog>>
    BY <1>5 DEF Acknowledge
  <2>2. \E events : /\ Acknowledges(d, events)
                    /\ GoOn(d, events, <<>>, alarmChain, commandChain)
    BY <1>5, AcknowledgeFacts
  <2> QED
    BY <2>1, <2>2, FollowsAcknowledges
<1>6. ASSUME NEW done, CommandSettles(done)
      PROVE  Follows'
  <2> DEFINE c == commandChain[1]
  <2>1. /\ CommandLeads(c, done) /\ UNCHANGED <<active, raised, alarmLog>>
    BY <1>6, CommandFacts DEF CommandSettles
  <2>2. c.device \in Devices
    BY <2>1 DEF CommandLeads, Requests
  <2> HIDE DEF c
  <2>3. CASE \E events : /\ Acknowledges(c.device, events)
                         /\ GoOn(c.device, events, <<>>, alarmChain, Tail(commandChain))
    BY <2>1, <2>2, <2>3, FollowsAcknowledges
  <2>4. CASE UNCHANGED <<acknowledged, alarmChain>>
    BY <1>1, <2>1, <2>4 DEF engine
  <2> QED
    BY <2>1, <2>3, <2>4 DEF CommandLeads
<1>7. CASE Next
  BY <1>3, <1>4, <1>5, <1>6, <1>7, FollowsPoint, FollowsSweep, FollowsAlarm, FollowsRestart
     DEF Next
<1> QED
  BY <1>2, <1>7

\* No record of an alarm says that it is over while it is active, that it was
\* acknowledged while it waits to be, or that it was raised before it was, though
\* records are written long after what they report, fail, and may be lost.
THEOREM LogFollows == Spec => []LogFollowsEngine
<1>1. Init => Follows
  <2> SUFFICES ASSUME Init
               PROVE  Follows
    OBVIOUS
  <2>1. \A e : e \notin Flying(alarmChain)
    BY DEF Init, Flying
  <2>2. \A d \in Devices, t \in AlarmTypes, n \in 1..MaxRaised : alarmLog[d][t][n] = "NONE"
    BY DEF Init
  <2> QED
    BY <2>1, <2>2 DEF Follows, Statuses
<1>2. Types /\ Follows /\ [Next]_vars => Follows'
  BY FollowsNext
<1>3. Types /\ Follows => LogFollowsEngine
  <2> SUFFICES ASSUME Types, Follows
               PROVE  LogFollowsEngine
    OBVIOUS
  <2>1. ASSUME NEW d \in Devices, NEW t \in AlarmTypes, NEW n \in 1..MaxRaised,
               alarmLog[d][t][n] # "NONE"
        PROVE  SoundAs(d, t, n, alarmLog[d][t][n])
    <3>1. alarmLog[d][t][n] \in {"NONE", "ACTIVE", "ACKNOWLEDGED", "CLEARED"}
      <4>1. LogOK
        BY DEF Types
      <4> QED
        BY <4>1 DEF LogOK
    <3>2. alarmLog[d][t][n] \in Statuses
      BY <2>1, <3>1 DEF Statuses
    <3> QED
      BY <3>2 DEF Follows
  <2>2. ASSUME NEW d \in Devices, NEW t \in AlarmTypes, NEW n \in 1..MaxRaised
        PROVE  /\ alarmLog[d][t][n] # "NONE" => n <= raised[d][t]
               /\ alarmLog[d][t][n] = "CLEARED" => ~(t \in active[d] /\ n = raised[d][t])
               /\ alarmLog[d][t][n] = "ACKNOWLEDGED" =>
                    (t \in active[d] /\ n = raised[d][t] => t \in acknowledged[d])
    BY <2>1 DEF SoundAs
  <2> QED
    BY <2>2, Zenon DEF LogFollowsEngine
<1> QED
  BY <1>1, <1>2, <1>3, TypesAlways, PTL DEF Spec

-----------------------------------------------------------------------------
(* No command is forgotten.                                                *)

\* The places of a sequence that hold an element of T.
Where(s, T) == {i \in 1..Len(s) : s[i] \in T}

LEMMA WhereFinite ==
  ASSUME NEW S, NEW s \in Seq(S), NEW T
  PROVE  IsFiniteSet(Where(s, T)) /\ Cardinality(Where(s, T)) \in Nat
<1>1. Len(s) \in Nat
  BY LenProperties
<1>2. IsFiniteSet(1..Len(s))
  BY <1>1, FS_Interval
<1>3. Where(s, T) \subseteq 1..Len(s)
  BY DEF Where
<1>4. IsFiniteSet(Where(s, T))
  BY <1>2, <1>3, FS_Subset
<1> QED
  BY <1>4, FS_CardinalityType

LEMMA CountAppend ==
  ASSUME NEW S, NEW s \in Seq(S), NEW x \in S, NEW T
  PROVE  Cardinality(Where(Append(s, x), T)) =
           Cardinality(Where(s, T)) + IF x \in T THEN 1 ELSE 0
<1> DEFINE t == Append(s, x)
<1>1. /\ Len(s) \in Nat /\ Len(t) = Len(s) + 1
      /\ \A i \in 1..Len(s) : t[i] = s[i]
      /\ t[Len(s) + 1] = x
  BY EndOf
<1> HIDE DEF t
<1>2. IsFiniteSet(Where(s, T)) /\ Cardinality(Where(s, T)) \in Nat
  BY WhereFinite
<1>3. CASE x \in T
  <2>1. Where(t, T) = Where(s, T) \cup {Len(s) + 1}
    BY <1>1, <1>3 DEF Where
  <2>2. Len(s) + 1 \notin Where(s, T)
    BY <1>1 DEF Where
  <2>3. Cardinality(Where(s, T) \cup {Len(s) + 1}) = Cardinality(Where(s, T)) + 1
    BY <1>2, <2>2, FS_AddElement
  <2> QED
    BY <1>3, <2>1, <2>3 DEF t
<1>4. CASE x \notin T
  <2>1. Where(t, T) = Where(s, T)
    BY <1>1, <1>4 DEF Where
  <2> QED
    BY <1>2, <1>4, <2>1 DEF t
<1> QED
  BY <1>3, <1>4

LEMMA CountTail ==
  ASSUME NEW S, NEW s \in Seq(S), s # <<>>, NEW T
  PROVE  Cardinality(Where(s, T)) =
           Cardinality(Where(Tail(s), T)) + IF s[1] \in T THEN 1 ELSE 0
<1> DEFINE t == Tail(s)
           moved == Where(s, T) \ {1}
<1>1. /\ Len(s) \in Nat \ {0} /\ Len(t) = Len(s) - 1 /\ t \in Seq(S)
      /\ \A i \in 1..Len(t) : i + 1 \in 1..Len(s) /\ t[i] = s[i + 1]
  BY FrontOf
<1> HIDE DEF t
<1>2. /\ IsFiniteSet(Where(s, T)) /\ Cardinality(Where(s, T)) \in Nat
      /\ IsFiniteSet(Where(t, T)) /\ Cardinality(Where(t, T)) \in Nat
  BY <1>1, WhereFinite
<1>3. Cardinality(moved) = Cardinality(Where(t, T))
  <2> DEFINE f == [i \in Where(t, T) |-> i + 1]
  <2>1. ASSUME NEW i \in Where(t, T)
        PROVE  i \in Nat /\ f[i] \in moved
    BY <1>1 DEF Where
  <2>2. f \in [Where(t, T) -> moved]
    BY <2>1
  <2>3. \A i, j \in Where(t, T) : f[i] = f[j] => i = j
    BY <2>1
  <2>4. ASSUME NEW k \in moved
        PROVE  \E i \in Where(t, T) : f[i] = k
    <3>1. k \in 1..Len(s) /\ k # 1 /\ s[k] \in T
      BY DEF Where
    <3>2. PICK i \in 1..Len(t) : i + 1 = k
      <4>1. k - 1 \in 1..Len(t) /\ (k - 1) + 1 = k
        BY <1>1, <3>1
      <4> QED
        BY <4>1
    <3>3. i \in Where(t, T)
      BY <1>1, <3>1, <3>2 DEF Where
    <3> QED
      BY <3>2, <3>3
  <2> HIDE DEF f, moved
  <2>5. f \in Bijection(Where(t, T), moved)
    BY <2>2, <2>3, <2>4, Fun_IsBij
  <2>6. ExistsBijection(Where(t, T), moved)
    BY <2>5 DEF ExistsBijection
  <2> QED
    BY <1>2, <2>6, FS_Bijection
<1>4. CASE s[1] \in T
  <2>1. 1 \in Where(s, T)
    BY <1>1, <1>4 DEF Where
  <2>2. Cardinality(moved) = Cardinality(Where(s, T)) - 1
    BY <1>2, <2>1, FS_RemoveElement
  <2> HIDE DEF moved
  <2>3. Cardinality(Where(s, T)) = Cardinality(Where(t, T)) + 1
    BY <1>2, <1>3, <2>2
  <2> QED
    BY <1>4, <2>3 DEF t
<1>5. CASE s[1] \notin T
  <2>1. moved = Where(s, T)
    BY <1>5 DEF Where
  <2> HIDE DEF moved
  <2>2. Cardinality(Where(s, T)) = Cardinality(Where(t, T)) + 0
    BY <1>2, <1>3, <2>1
  <2> QED
    BY <1>5, <2>2 DEF t
<1> QED
  BY <1>4, <1>5

\* The commands of d that alarms hold up, and those that are being enqueued.
Carriers(d) == {w \in Writes : w.event.device = d /\ w.effects # <<>>}
Wanting(d) == {c \in Requests : c.device = d /\ c.number # RESET}
Onway(alarms, commands, d) ==
  Cardinality(Where(alarms, Carriers(d))) + Cardinality(Where(commands, Wanting(d)))

LEMMA OnwayType ==
  ASSUME NEW alarms \in Seq(Writes), NEW commands \in Seq(Requests), NEW d
  PROVE  /\ Cardinality(Where(alarms, Carriers(d))) \in Nat
         /\ Cardinality(Where(commands, Wanting(d))) \in Nat
         /\ Onway(alarms, commands, d) \in Nat
<1>1. /\ Cardinality(Where(alarms, Carriers(d))) \in Nat
      /\ Cardinality(Where(commands, Wanting(d))) \in Nat
  BY WhereFinite
<1> QED
  BY <1>1 DEF Onway

\* A coroutine that goes on with a command is one more on its way.
LEMMA OnwayGoOn ==
  ASSUME NEW d \in Devices, NEW events \in Seq(LogEvents), NEW effects \in Seq(1..MaxPoints),
         \A k \in 1..Len(events) : events[k].device = d,
         NEW alarms \in Seq(Writes), NEW commands \in Seq(Requests),
         GoOn(d, events, effects, alarms, commands), NEW e \in Devices
  PROVE  Onway(alarmChain', commandChain', e) =
           Onway(alarms, commands, e) + IF e = d /\ effects # <<>> THEN 1 ELSE 0
<1>1. /\ Cardinality(Where(alarms, Carriers(e))) \in Nat
      /\ Cardinality(Where(commands, Wanting(e))) \in Nat
  BY OnwayType
<1>2. CASE events # <<>>
  <2> DEFINE w == [event |-> Head(events), next |-> Tail(events), effects |-> effects]
  <2>1. alarmChain' = Append(alarms, w) /\ commandChain' = commands
    BY <1>2 DEF GoOn
  <2>2. /\ Len(events) \in Nat \ {0} /\ Head(events) = events[1] /\ events[1] \in LogEvents
        /\ Tail(events) \in Seq(LogEvents)
    BY <1>2, FrontOf
  <2>3. events[1].device = d
    BY <2>2
  <2>4. w \in Writes /\ (w \in Carriers(e) <=> e = d /\ effects # <<>>)
    BY <2>2, <2>3 DEF Writes, Carriers
  <2> HIDE DEF w
  <2>5. Cardinality(Where(alarmChain', Carriers(e))) =
          Cardinality(Where(alarms, Carriers(e))) + IF w \in Carriers(e) THEN 1 ELSE 0
    BY <2>1, <2>4, CountAppend
  <2> QED
    BY <1>1, <2>1, <2>4, <2>5 DEF Onway
<1>3. CASE events = <<>> /\ effects # <<>>
  <2> DEFINE c == [device |-> d, number |-> Head(effects)]
  <2>1. alarmChain' = alarms /\ commandChain' = Append(commands, c)
    BY <1>3 DEF GoOn
  <2>2. Head(effects) \in 1..MaxPoints
    BY <1>3, FirstEffect
  <2>3. c \in Requests /\ (c \in Wanting(e) <=> e = d)
    BY <2>2, BoundsAssumption DEF Requests, Wanting, RESET
  <2> HIDE DEF c
  <2>4. Cardinality(Where(commandChain', Wanting(e))) =
          Cardinality(Where(commands, Wanting(e))) + IF c \in Wanting(e) THEN 1 ELSE 0
    BY <2>1, <2>3, CountAppend
  <2> QED
    BY <1>1, <1>3, <2>1, <2>3, <2>4 DEF Onway
<1>4. CASE events = <<>> /\ effects = <<>>
  <2>1. alarmChain' = alarms /\ commandChain' = commands
    BY <1>4 DEF GoOn
  <2> QED
    BY <1>1, <1>4, <2>1 DEF Onway
<1> QED
  BY <1>2, <1>3, <1>4

\* And one that goes on with none changes nothing of what is on its way.
LEMMA OnwayGoOnNone ==
  ASSUME NEW d \in Devices, NEW events \in Seq(LogEvents),
         \A k \in 1..Len(events) : events[k].device = d,
         NEW alarms \in Seq(Writes), NEW commands \in Seq(Requests),
         GoOn(d, events, <<>>, alarms, commands), NEW e \in Devices
  PROVE  Onway(alarmChain', commandChain', e) = Onway(alarms, commands, e)
<1> DEFINE none == <<>>
<1>1. none \in Seq(1..MaxPoints) /\ GoOn(d, events, none, alarms, commands)
  BY EmptySeq
<1>2. Onway(alarms, commands, e) \in Nat
  BY OnwayType
<1> HIDE DEF none
<1>3. Onway(alarmChain', commandChain', e) =
        Onway(alarms, commands, e) + IF e = d /\ none # <<>> THEN 1 ELSE 0
  BY <1>1, OnwayGoOn
<1>4. (IF e = d /\ none # <<>> THEN 1 ELSE 0) = 0
  BY Zenon DEF none
<1> QED
  BY <1>2, <1>3, <1>4

\* Every command proposed is accounted for.
Counted ==
  \A d \in Devices :
    Len(proposed[d]) = queued[d] + refused[d] + Onway(alarmChain, commandChain, d)

\* What is accounted for without the change of one command.
LEMMA CountedSame ==
  ASSUME Counted, UNCHANGED <<proposed, queued, refused>>,
         \A d \in Devices : Onway(alarmChain', commandChain', d)
                              = Onway(alarmChain, commandChain, d)
  PROVE  Counted'
BY DEF Counted

LEMMA CountedTypes ==
  ASSUME Types, NEW d \in Devices
  PROVE  /\ queued[d] \in Int /\ refused[d] \in Int /\ Len(proposed[d]) \in Nat
         /\ alarmChain \in Seq(Writes) /\ commandChain \in Seq(Requests)
         /\ Onway(alarmChain, commandChain, d) \in Nat
<1>1. /\ alarmChain \in Seq(Writes) /\ commandChain \in Seq(Requests)
      /\ queued[d] \in Int /\ refused[d] \in Int
  BY DEF Types, ChainsOK, RestOK
<1> QED
  BY <1>1, RoomFacts, OnwayType

LEMMA CountedPoint ==
  ASSUME Types, Counted, NEW i, PointSettles(i)
  PROVE  Counted'
<1>0. PICK d \in Devices, p \in Readings : \E events, kinds : PointLeads(d, p, events, kinds)
  BY PointFacts DEF Types
<1>1. PICK events, kinds : PointLeads(d, p, events, kinds)
  BY <1>0
<1> DEFINE numbers == Numbers(kinds, Len(proposed[d]))
           more == Proposed(kinds, Len(events))
<1>2. UNCHANGED <<queued, refused>>
  BY DEF PointSettles
<1>3. /\ events \in Seq(LogEvents) /\ Len(events) \in Nat
      /\ \A k \in 1..Len(events) : events[k].device = d
  BY <1>1, PointEvents
<1>4. numbers \in Seq(1..MaxPoints) /\ (numbers # <<>> <=> kinds # <<>>)
  <2>1. Len(telemetryChain) \in Nat \ {0}
    BY <1>1, FrontOf DEF PointLeads, Types, ChainsOK
  <2>2. Len(proposed[d]) \in Nat /\ Len(proposed[d]) + 1 <= MaxPoints
    BY <2>1, RoomFacts
  <2> QED
    BY <2>2, NumbersFacts
<1>5. /\ more \in Seq(Proposals) /\ Len(more) = IF kinds # <<>> THEN 1 ELSE 0
  <2>1. kinds \in {<<>>, <<"CURTAIL">>, <<"STANDBY">>}
    BY <1>1 DEF PointLeads
  <2> QED
    BY <1>3, <2>1, ProposedFacts, EmptySeq
<1>6. /\ proposed' = [proposed EXCEPT ![d] = proposed[d] \o more]
      /\ GoOn(d, events, numbers, alarmChain, commandChain)
  BY <1>1 DEF PointLeads
<1> HIDE DEF numbers, more
<1>7. ASSUME NEW e \in Devices
      PROVE  Len(proposed'[e]) = queued[e] + refused[e] + Onway(alarmChain', commandChain', e)
  <2>1. Onway(alarmChain', commandChain', e) =
          Onway(alarmChain, commandChain, e) + IF e = d /\ numbers # <<>> THEN 1 ELSE 0
    BY <1>3, <1>4, <1>6, CountedTypes, OnwayGoOn
  <2>2. /\ queued[e] \in Int /\ refused[e] \in Int /\ Onway(alarmChain, commandChain, e) \in Nat
        /\ Len(proposed[e]) \in Nat
        /\ Len(proposed[e]) = queued[e] + refused[e] + Onway(alarmChain, commandChain, e)
    BY CountedTypes DEF Counted
  <2>3. Len(proposed'[e]) = Len(proposed[e]) + IF e = d /\ kinds # <<>> THEN 1 ELSE 0
    <3>1. proposed \in [Devices -> Seq(Proposals)]
      BY DEF Types, Histories
    <3>2. Len(proposed[d] \o more) = Len(proposed[d]) + Len(more)
      BY <1>5, <3>1, ConcatProperties
    <3>3. CASE e = d
      BY <1>5, <1>6, <2>2, <3>1, <3>2, <3>3
    <3>4. CASE e # d
      BY <1>6, <2>2, <3>1, <3>4
    <3> QED
      BY <3>3, <3>4
  <2>4. e = d /\ kinds # <<>> <=> e = d /\ numbers # <<>>
    BY <1>4
  <2>5. PICK n \in {0, 1} : n = IF e = d /\ numbers # <<>> THEN 1 ELSE 0
    OBVIOUS
  <2>6. /\ Onway(alarmChain', commandChain', e) = Onway(alarmChain, commandChain, e) + n
        /\ Len(proposed'[e]) = Len(proposed[e]) + n
    BY <2>1, <2>3, <2>4, <2>5, Zenon
  <2> QED
    BY <2>2, <2>5, <2>6
<1> QED
  BY <1>2, <1>7 DEF Counted

LEMMA CountedAlarm ==
  ASSUME Types, Counted, NEW i, NEW done, AlarmSettles(i, done)
  PROVE  Counted'
<1> DEFINE w == alarmChain[1]
           d == w.event.device
           rest == Tail(alarmChain)
<1>1. AlarmLeads(w, done)
  BY AlarmFacts DEF Types
<1>2. UNCHANGED <<proposed, queued, refused>>
  BY DEF AlarmSettles
<1>3. /\ w \in Writes /\ rest \in Seq(Writes) /\ commandChain \in Seq(Requests)
      /\ alarmChain \in Seq(Writes) /\ alarmChain # <<>>
      /\ \A j \in 1..Len(w.next) : w.next[j].device = d
  BY <1>1, RestOfChain DEF AlarmLeads, Types, ChainsOK
<1>4. /\ d \in Devices /\ w.next \in Seq(LogEvents) /\ w.effects \in Seq(1..MaxPoints)
  BY <1>3 DEF Writes, LogEvents
<1>5. GoOn(d, w.next, w.effects, rest, commandChain)
  BY <1>1 DEF AlarmLeads
<1>6. \A e \in Devices : w \in Carriers(e) <=> e = d /\ w.effects # <<>>
  BY <1>3 DEF Carriers
<1>7. ASSUME NEW e \in Devices
      PROVE  Onway(alarmChain', commandChain', e) = Onway(alarmChain, commandChain, e)
  <2>1. Cardinality(Where(alarmChain, Carriers(e))) =
          Cardinality(Where(rest, Carriers(e))) + IF w \in Carriers(e) THEN 1 ELSE 0
    BY <1>3, CountTail
  <2> DEFINE next == w.next
             effects == w.effects
  <2>2. /\ next \in Seq(LogEvents) /\ effects \in Seq(1..MaxPoints) /\ d \in Devices
        /\ \A k \in 1..Len(next) : next[k].device = d
        /\ GoOn(d, next, effects, rest, commandChain)
        /\ (w \in Carriers(e) <=> e = d /\ effects # <<>>)
    BY <1>3, <1>4, <1>5, <1>6
  <2>5. rest \in Seq(Writes) /\ commandChain \in Seq(Requests)
    BY <1>3
  <2> HIDE DEF w, d, rest, next, effects
  <2>3. Onway(alarmChain', commandChain', e) =
          Onway(rest, commandChain, e) + IF e = d /\ effects # <<>> THEN 1 ELSE 0
    BY <2>2, <2>5, OnwayGoOn
  <2>4. /\ Cardinality(Where(rest, Carriers(e))) \in Nat
        /\ Cardinality(Where(commandChain, Wanting(e))) \in Nat
    BY <2>5, OnwayType
  <2>6. Onway(alarmChain', commandChain', e) =
          Cardinality(Where(rest, Carriers(e))) + Cardinality(Where(commandChain, Wanting(e)))
            + IF w \in Carriers(e) THEN 1 ELSE 0
    BY <2>2, <2>3, Zenon DEF Onway
  <2> QED
    BY <2>1, <2>4, <2>6 DEF Onway
<1> QED
  BY <1>2, <1>7, CountedSame

LEMMA CountedCommand ==
  ASSUME Types, Counted, NEW done, CommandSettles(done)
  PROVE  Counted'
<1> DEFINE c == commandChain[1]
           rest == Tail(commandChain)
<1>1. CommandLeads(c, done) /\ proposed' = proposed
  BY CommandFacts DEF CommandSettles
<1>2. /\ c \in Requests /\ c.device \in Devices /\ rest \in Seq(Requests)
      /\ commandChain \in Seq(Requests) /\ commandChain # <<>> /\ alarmChain \in Seq(Writes)
  BY <1>1, FrontOf DEF CommandLeads, Requests, Types, ChainsOK
<1>3. ASSUME NEW e \in Devices
      PROVE  /\ Onway(alarmChain, commandChain, e) = Onway(alarmChain, rest, e)
                  + IF e = c.device /\ c.number # RESET THEN 1 ELSE 0
             /\ Onway(alarmChain, rest, e) \in Nat
  <2>1. c \in Wanting(e) <=> e = c.device /\ c.number # RESET
    BY <1>2 DEF Wanting
  <2>2. Cardinality(Where(commandChain, Wanting(e))) =
          Cardinality(Where(rest, Wanting(e))) + IF c \in Wanting(e) THEN 1 ELSE 0
    BY <1>2, CountTail
  <2>3. /\ Cardinality(Where(alarmChain, Carriers(e))) \in Nat
        /\ Cardinality(Where(rest, Wanting(e))) \in Nat
    BY <1>2, OnwayType
  <2> HIDE DEF c, rest
  <2> QED
    BY <2>1, <2>2, <2>3 DEF Onway
<1> HIDE DEF c, rest
<1>4. CASE /\ c.number = RESET /\ UNCHANGED <<queued, refused>>
           /\ \E events : /\ Acknowledges(c.device, events)
                          /\ GoOn(c.device, events, <<>>, alarmChain, rest)
  <2>1. PICK events : /\ Acknowledges(c.device, events)
                      /\ GoOn(c.device, events, <<>>, alarmChain, rest)
    BY <1>4
  <2>2. /\ events \in Seq(LogEvents) /\ \A k \in 1..Len(events) : events[k].device = c.device
        /\ <<>> \in Seq(1..MaxPoints)
    BY <2>1, EmptySeq DEF Acknowledges
  <2>3. ASSUME NEW e \in Devices
        PROVE  Onway(alarmChain', commandChain', e) = Onway(alarmChain, commandChain, e)
    <3>1. Onway(alarmChain', commandChain', e) = Onway(alarmChain, rest, e)
      <4> DEFINE d == c.device
      <4>1. d \in Devices /\ alarmChain \in Seq(Writes) /\ rest \in Seq(Requests)
        BY <1>2
      <4>2. /\ events \in Seq(LogEvents) /\ \A k \in 1..Len(events) : events[k].device = d
            /\ GoOn(d, events, <<>>, alarmChain, rest)
        BY <2>1, <2>2
      <4> HIDE DEF d
      <4> QED
        BY <4>1, <4>2, OnwayGoOnNone
    <3>2. /\ Onway(alarmChain, commandChain, e) = Onway(alarmChain, rest, e) + 0
          /\ Onway(alarmChain, rest, e) \in Nat
      BY <1>3, <1>4
    <3> QED
      BY <3>1, <3>2
  <2> QED
    BY <1>1, <1>4, <2>3, CountedSame
<1>5. CASE /\ c.number = RESET /\ commandChain' = rest
           /\ UNCHANGED <<alarmChain, queued, refused>>
  <2>1. ASSUME NEW e \in Devices
        PROVE  Onway(alarmChain', commandChain', e) = Onway(alarmChain, commandChain, e)
    BY <1>3, <1>5
  <2> QED
    BY <1>1, <1>5, <2>1, CountedSame
<1>6. CASE /\ c.number # RESET /\ commandChain' = rest
           /\ queued' = [queued EXCEPT ![c.device] = IF done THEN @ + 1 ELSE @]
           /\ refused' = [refused EXCEPT ![c.device] = IF done THEN @ ELSE @ + 1]
           /\ alarmChain' = alarmChain
  <2>1. ASSUME NEW e \in Devices
        PROVE  Len(proposed[e]) = queued'[e] + refused'[e] + Onway(alarmChain, rest, e)
    <3>1. /\ queued[e] \in Int /\ refused[e] \in Int /\ Len(proposed[e]) \in Nat
          /\ Len(proposed[e]) = queued[e] + refused[e] + Onway(alarmChain, commandChain, e)
      BY CountedTypes DEF Counted
    <3>2. /\ queued \in [Devices -> Int] /\ refused \in [Devices -> Int]
      BY DEF Types, RestOK
    <3>3. queued'[e] + refused'[e] = queued[e] + refused[e] + IF e = c.device THEN 1 ELSE 0
      BY <1>6, <3>1, <3>2
    <3> QED
      BY <1>3, <1>6, <3>1, <3>3
  <2> QED
    BY <1>1, <1>6, <2>1 DEF Counted
<1> QED
  BY <1>1, <1>4, <1>5, <1>6 DEF CommandLeads, rest

LEMMA OnwayNothing ==
  ASSUME NEW d
  PROVE  Onway(<<>>, <<>>, d) = 0
<1>1. Where(<<>>, Carriers(d)) = {} /\ Where(<<>>, Wanting(d)) = {}
  BY DEF Where
<1>2. Cardinality({}) = 0
  BY FS_EmptySet
<1> QED
  BY <1>1, <1>2 DEF Onway

LEMMA CountedNext ==
  ASSUME Types, Counted, [Next]_vars
  PROVE  Counted'
<1>1. CASE UNCHANGED <<alarmChain, commandChain, proposed, queued, refused>>
  BY <1>1 DEF Counted
<1>2. CASE UNCHANGED vars
  BY <1>1, <1>2 DEF vars, chains, history
<1>3. ASSUME NEW d \in Devices, HandlePoint(d) \/ Restore(d) \/ RemoveDevice(d)
      PROVE  Counted'
  BY <1>1, <1>3 DEF HandlePoint, Restore, RemoveDevice, chains, history
<1>4. ASSUME NEW d \in Devices, NEW done, RemovalSettles(d, done)
      PROVE  Counted'
  BY <1>1, <1>4 DEF RemovalSettles, chains
<1>5. ASSUME NEW d \in Devices, NEW events \in Seq(LogEvents),
             \A k \in 1..Len(events) : events[k].device = d,
             GoOn(d, events, <<>>, alarmChain, commandChain),
             UNCHANGED <<proposed, queued, refused>>
      PROVE  Counted'
  <2>1. ASSUME NEW e \in Devices
        PROVE  Onway(alarmChain', commandChain', e) = Onway(alarmChain, commandChain, e)
    <3>1. alarmChain \in Seq(Writes) /\ commandChain \in Seq(Requests)
      BY CountedTypes
    <3> QED
      BY <1>5, <3>1, OnwayGoOnNone
  <2> QED
    BY <1>5, <2>1, CountedSame
<1>6. ASSUME NEW d \in Devices, Acknowledge(d)
      PROVE  Counted'
  <2>1. UNCHANGED <<proposed, queued, refused>>
    BY <1>6 DEF Acknowledge
  <2>2. PICK events : /\ Acknowledges(d, events)
                      /\ GoOn(d, events, <<>>, alarmChain, commandChain)
    BY <1>6, AcknowledgeFacts
  <2>3. events \in Seq(LogEvents) /\ \A k \in 1..Len(events) : events[k].device = d
    BY <2>2 DEF Acknowledges
  <2> QED
    BY <1>5, <2>1, <2>2, <2>3
<1>7. ASSUME NEW d \in Devices, Sweep(d)
      PROVE  Counted'
  <2>1. UNCHANGED <<proposed, queued, refused>> /\ sweeps < MaxSweeps
    BY <1>7 DEF Sweep
  <2>2. PICK age : GoOn(d, Events(d, StalenessChecks(age)), <<>>, alarmChain, commandChain)
    BY <1>7 DEF Sweep
  <2>3. /\ EngineOK /\ StalenessChecks(age) \in Seq(Checks)
        /\ \A t \in AlarmTypes : /\ raised[d][t] < MaxRaised
                                 /\ t \in active[d] => raised[d][t] >= 1
    <3>1. \A t \in AlarmTypes : /\ raised[d][t] < MaxRaised
                                /\ t \in active[d] => raised[d][t] >= 1
      BY <2>1, RoomFacts
    <3> QED
      BY <3>1, ChecksType DEF Types
  <2>4. /\ Events(d, StalenessChecks(age)) \in Seq(LogEvents)
        /\ \A k \in 1..Len(Events(d, StalenessChecks(age))) :
             Events(d, StalenessChecks(age))[k].device = d
    BY <2>3, EventsFacts
  <2> QED
    BY <1>5, <2>1, <2>2, <2>4
<1>8. ASSUME NEW d \in Devices, Reset(d)
      PROVE  Counted'
  <2> DEFINE c == [device |-> d, number |-> RESET]
  <2>1. commandChain' = Append(commandChain, c)
        /\ UNCHANGED <<alarmChain, proposed, queued, refused>>
    BY <1>8 DEF Reset, history
  <2>2. c \in Requests /\ \A e \in Devices : c \notin Wanting(e)
    BY BoundsAssumption DEF Requests, Wanting, RESET
  <2> HIDE DEF c
  <2>3. ASSUME NEW e \in Devices
        PROVE  Onway(alarmChain', commandChain', e) = Onway(alarmChain, commandChain, e)
    <3>1. /\ alarmChain \in Seq(Writes) /\ commandChain \in Seq(Requests)
      BY CountedTypes
    <3>2. Cardinality(Where(commandChain', Wanting(e))) =
            Cardinality(Where(commandChain, Wanting(e))) + IF c \in Wanting(e) THEN 1 ELSE 0
      BY <2>1, <2>2, <3>1, CountAppend
    <3>3. Cardinality(Where(commandChain, Wanting(e))) \in Nat
      BY <3>1, OnwayType
    <3> QED
      BY <2>1, <2>2, <3>2, <3>3 DEF Onway
  <2> QED
    BY <2>1, <2>3, CountedSame
<1>9. CASE Restart
  <2>1. RestartEmpties
    BY <1>9, RestartFacts
  <2>2. PICK n \in [Devices -> Int] :
          queued' = n /\ refused' = [d \in Devices |-> Len(proposed[d]) - n[d]]
    BY <2>1 DEF RestartEmpties
  <2>3. alarmChain' = <<>> /\ commandChain' = <<>> /\ proposed' = proposed
    BY <2>1 DEF RestartEmpties
  <2>4. \A d \in Devices : Len(proposed[d]) \in Nat
    BY RoomFacts
  <2>5. \A d \in Devices : Onway(alarmChain', commandChain', d) = 0
    BY <2>3, OnwayNothing
  <2> QED
    BY <2>2, <2>3, <2>4, <2>5 DEF Counted
<1>10. CASE Next
  BY <1>3, <1>4, <1>6, <1>7, <1>8, <1>9, <1>10, CountedPoint, CountedAlarm, CountedCommand
     DEF Next
<1> QED
  BY <1>2, <1>10

\* Every command the state machine proposed is queued, was refused by the disk or
\* lost in a restart, waits for the alarm events of its point, or is being
\* enqueued: no failed write of an event and no removal drops one.
THEOREM CommandsKept == Spec => []NoCommandForgotten
<1>1. Init => Counted
  <2> SUFFICES ASSUME Init
               PROVE  Counted
    OBVIOUS
  <2>1. Len(<<>>) = 0 /\ \A d : Onway(<<>>, <<>>, d) = 0
    BY EmptySeq, OnwayNothing
  <2> QED
    BY <2>1 DEF Init, Counted
<1>2. Types /\ Counted /\ [Next]_vars => Counted'
  BY CountedNext
<1>3. Types /\ Counted => NoCommandForgotten
  <2> SUFFICES ASSUME Types, Counted, NEW d \in Devices
               PROVE  Len(proposed[d]) = queued[d] + refused[d] + Cardinality(Underway(d))
                                         + Cardinality(Enqueueing(d))
    BY DEF NoCommandForgotten
  <2>1. /\ alarmChain \in Seq(Writes) /\ commandChain \in Seq(Requests)
        /\ queued[d] \in Int /\ refused[d] \in Int
    BY CountedTypes
  <2>2. /\ \A i \in 1..Len(alarmChain) : alarmChain[i] \in Writes
        /\ \A i \in 1..Len(commandChain) : commandChain[i] \in Requests
    BY <2>1, ElementOfSeq
  <2>3. /\ Underway(d) = Where(alarmChain, Carriers(d))
        /\ Enqueueing(d) = Where(commandChain, Wanting(d))
    BY <2>2 DEF Underway, Enqueueing, Where, Carriers, Wanting
  <2>4. /\ Cardinality(Where(alarmChain, Carriers(d))) \in Nat
        /\ Cardinality(Where(commandChain, Wanting(d))) \in Nat
    BY <2>1, OnwayType
  <2>5. Len(proposed[d]) = queued[d] + refused[d] + Onway(alarmChain, commandChain, d)
    BY DEF Counted
  <2> QED
    BY <2>1, <2>3, <2>4, <2>5 DEF Onway
<1> QED
  BY <1>1, <1>2, <1>3, TypesAlways, PTL DEF Spec

-----------------------------------------------------------------------------
(* A command overtakes those whose points led to more alarm events only.   *)

\* The write w holds up a command of d: its number, the events that are left to
\* persist after the one under way, and those its point led to in all.
Carries(w, d) == w.event.device = d /\ w.effects # <<>>
Number(w) == Head(w.effects)
Left(w) == Len(w.next)
Total(p, n) == p[n].events

\* The numbers s of the commands of d that were enqueued and the writes of the
\* chain that hold up others, given the proposals p.  Of two writes that hold up
\* commands the one of the earlier point is ahead, unless that point led to more
\* events.
NumbersKnown(chain, s, p, d) ==
  /\ \A k \in 1..Len(s) : s[k] \in 1..Len(p)
  /\ \A i \in 1..Len(chain) :
       Carries(chain[i], d) => /\ Number(chain[i]) \in 1..Len(p)
                               /\ Left(chain[i]) < Total(p, Number(chain[i]))

Ahead(v, i, w, k) == Left(v) < Left(w) \/ (Left(v) = Left(w) /\ i < k)

InLine(chain, p, d) ==
  \A i, k \in 1..Len(chain) :
    /\ Carries(chain[i], d) /\ Carries(chain[k], d)
    /\ Number(chain[i]) < Number(chain[k])
    /\ Total(p, Number(chain[i])) <= Total(p, Number(chain[k]))
    => Ahead(chain[i], i, chain[k], k)

EnteredFewer(chain, s, p, d) ==
  \A i \in 1..Len(chain), k \in 1..Len(s) :
    Carries(chain[i], d) /\ Number(chain[i]) < s[k]
    => Total(p, s[k]) < Total(p, Number(chain[i]))

Overtakes(s, p) ==
  \A i, j \in 1..Len(s) : i < j /\ s[i] > s[j] => Total(p, s[i]) < Total(p, s[j])

Ordered(chain, s, p, d) ==
  /\ NumbersKnown(chain, s, p, d) /\ InLine(chain, p, d)
  /\ EnteredFewer(chain, s, p, d) /\ Overtakes(s, p)

\* The command n of a coroutine that has l events to persist yet fits in.
Fits(n, l, chain, s, p, d) ==
  /\ n \in 1..Len(p) /\ l \in Nat /\ l <= Total(p, n)
  /\ \A i \in 1..Len(chain) : Carries(chain[i], d) =>
       /\ Number(chain[i]) < n /\ Total(p, Number(chain[i])) <= Total(p, n)
            => Left(chain[i]) < l
       /\ n < Number(chain[i]) /\ Total(p, n) <= Total(p, Number(chain[i]))
            => l <= Left(chain[i])
  /\ \A k \in 1..Len(s) : n < s[k] => Total(p, s[k]) < Total(p, n)

LEMMA WriteFacts ==
  ASSUME NEW w \in Writes
  PROVE  /\ Left(w) \in Nat
         /\ \A d : Carries(w, d) => Number(w) \in Nat
<1>1. w.next \in Seq(LogEvents) /\ w.effects \in Seq(1..MaxPoints)
  BY DEF Writes
<1>2. Left(w) \in Nat
  BY <1>1, LenProperties DEF Left
<1>3. ASSUME NEW d, Carries(w, d)
      PROVE  Number(w) \in Nat
  <2>1. w.effects # <<>>
    BY <1>3 DEF Carries
  <2>2. Number(w) \in 1..MaxPoints
    BY <1>1, <2>1, FrontOf DEF Number
  <2> QED
    BY <2>2, BoundsAssumption
<1> QED
  BY <1>2, <1>3

LEMMA TotalType ==
  ASSUME NEW p \in Seq(Proposals), NEW n \in 1..Len(p)
  PROVE  Total(p, n) \in Nat
<1>1. p[n] \in Proposals
  BY ElementOfSeq
<1> QED
  BY <1>1 DEF Proposals, Total

LEMMA OrderedOther ==
  ASSUME NEW chain \in Seq(Writes), NEW w \in Writes, NEW s, NEW p, NEW d,
         Ordered(chain, s, p, d), ~Carries(w, d)
  PROVE  Ordered(Append(chain, w), s, p, d)
<1> DEFINE c == Append(chain, w)
<1>1. /\ Len(chain) \in Nat /\ Len(c) = Len(chain) + 1
      /\ \A i \in 1..Len(chain) : c[i] = chain[i]
      /\ c[Len(chain) + 1] = w
  BY EndOf
<1> HIDE DEF c
<1>2. \A i \in 1..Len(c) : Carries(c[i], d) => i \in 1..Len(chain) /\ c[i] = chain[i]
  BY <1>1
<1>3. NumbersKnown(c, s, p, d)
  BY <1>2 DEF Ordered, NumbersKnown
<1>4. InLine(c, p, d)
  BY <1>2 DEF Ordered, InLine
<1>5. EnteredFewer(c, s, p, d)
  BY <1>2 DEF Ordered, EnteredFewer
<1> QED
  BY <1>3, <1>4, <1>5 DEF Ordered, c

LEMMA OrderedPush ==
  ASSUME NEW chain \in Seq(Writes), NEW w \in Writes, NEW s, NEW p \in Seq(Proposals), NEW d,
         Ordered(chain, s, p, d), Carries(w, d), NEW l \in Nat, Left(w) = l - 1,
         Fits(Number(w), l, chain, s, p, d)
  PROVE  Ordered(Append(chain, w), s, p, d)
<1> DEFINE c == Append(chain, w)
           n == Number(w)
           m == Len(chain)
<1>1. /\ m \in Nat /\ Len(c) = m + 1
      /\ \A i \in 1..m : c[i] = chain[i]
      /\ c[m + 1] = w
  BY EndOf
<1>2. /\ n \in 1..Len(p) /\ Left(w) \in Nat /\ Left(w) < Total(p, n) /\ Total(p, n) \in Nat
  <2>1. n \in 1..Len(p) /\ l <= Total(p, n)
    BY DEF Fits
  <2>2. Total(p, n) \in Nat
    BY <2>1, TotalType
  <2> QED
    BY <2>1, <2>2, WriteFacts
<1>3. \A i \in 1..Len(chain) : Left(chain[i]) \in Nat
  BY ElementOfSeq, WriteFacts
<1>4. \A i \in 1..Len(c) : i \in 1..m \/ i = m + 1
  BY <1>1
<1>5. /\ \A i \in 1..m : Carries(chain[i], d) =>
           /\ Number(chain[i]) < n /\ Total(p, Number(chain[i])) <= Total(p, n)
                => Left(chain[i]) < l
           /\ n < Number(chain[i]) /\ Total(p, n) <= Total(p, Number(chain[i]))
                => l <= Left(chain[i])
      /\ \A k \in 1..Len(s) : n < s[k] => Total(p, s[k]) < Total(p, n)
  BY DEF Fits
<1> HIDE DEF c, n
<1>6. NumbersKnown(c, s, p, d)
  BY <1>1, <1>2, <1>4 DEF Ordered, NumbersKnown, n
<1>7. InLine(c, p, d)
  <2> SUFFICES ASSUME NEW i \in 1..Len(c), NEW k \in 1..Len(c),
                      Carries(c[i], d), Carries(c[k], d), Number(c[i]) < Number(c[k]),
                      Total(p, Number(c[i])) <= Total(p, Number(c[k]))
               PROVE  Ahead(c[i], i, c[k], k)
    BY DEF InLine
  <2>1. CASE i \in 1..m /\ k \in 1..m
    BY <1>1, <2>1 DEF Ordered, InLine
  <2>2. CASE i \in 1..m /\ k = m + 1
    <3>1. Left(chain[i]) < l
      BY <1>1, <1>5, <2>2 DEF n
    <3>2. Left(chain[i]) < Left(w) \/ (Left(chain[i]) = Left(w) /\ i < k)
      BY <1>1, <1>2, <1>3, <2>2, <3>1
    <3> QED
      BY <1>1, <2>2, <3>2 DEF Ahead
  <2>3. CASE i = m + 1 /\ k \in 1..m
    <3>1. l <= Left(chain[k])
      BY <1>1, <1>5, <2>3 DEF n
    <3>2. Left(w) < Left(chain[k])
      BY <1>2, <1>3, <2>3, <3>1
    <3> QED
      BY <1>1, <2>3, <3>2 DEF Ahead
  <2>4. CASE i = m + 1 /\ k = m + 1
    <3>1. Number(w) \in Nat /\ Number(w) < Number(w)
      BY <1>1, <2>4, WriteFacts
    <3> QED
      BY <3>1
  <2> QED
    BY <1>4, <2>1, <2>2, <2>3, <2>4
<1>8. EnteredFewer(c, s, p, d)
  <2> SUFFICES ASSUME NEW i \in 1..Len(c), NEW k \in 1..Len(s),
                      Carries(c[i], d), Number(c[i]) < s[k]
               PROVE  Total(p, s[k]) < Total(p, Number(c[i]))
    BY DEF EnteredFewer
  <2>1. CASE i \in 1..m
    BY <1>1, <2>1 DEF Ordered, EnteredFewer
  <2>2. CASE i = m + 1
    BY <1>1, <1>5, <2>2 DEF n
  <2> QED
    BY <1>4, <2>1, <2>2
<1> QED
  BY <1>6, <1>7, <1>8 DEF Ordered, c

LEMMA OrderedEnter ==
  ASSUME NEW chain \in Seq(Writes), NEW s \in Seq(1..MaxPoints), NEW p \in Seq(Proposals),
         NEW d, Ordered(chain, s, p, d), NEW n \in 1..MaxPoints, Fits(n, 0, chain, s, p, d)
  PROVE  Ordered(chain, Append(s, n), p, d)
<1> DEFINE t == Append(s, n)
           m == Len(s)
<1>1. /\ m \in Nat /\ Len(t) = m + 1
      /\ \A k \in 1..m : t[k] = s[k]
      /\ t[m + 1] = n
  BY EndOf
<1> HIDE DEF t
<1>2. \A k \in 1..Len(t) : k \in 1..m \/ k = m + 1
  BY <1>1
<1>3. NumbersKnown(chain, t, p, d)
  BY <1>1, <1>2 DEF Ordered, NumbersKnown, Fits
<1>4. EnteredFewer(chain, t, p, d)
  <2> SUFFICES ASSUME NEW i \in 1..Len(chain), NEW k \in 1..Len(t),
                      Carries(chain[i], d), Number(chain[i]) < t[k]
               PROVE  Total(p, t[k]) < Total(p, Number(chain[i]))
    BY DEF EnteredFewer
  <2>1. CASE k \in 1..m
    BY <1>1, <2>1 DEF Ordered, EnteredFewer
  <2>2. CASE k = m + 1
    <3>1. t[k] = n /\ Number(chain[i]) < n
      BY <1>1, <2>2
    <3>2. Left(chain[i]) \in Nat
      BY ElementOfSeq, WriteFacts
    <3>3. ~(Total(p, Number(chain[i])) <= Total(p, n))
      BY <3>1, <3>2 DEF Fits
    <3>4. Number(chain[i]) \in 1..Len(p) /\ n \in 1..Len(p)
      BY DEF Ordered, NumbersKnown, Fits
    <3>5. Total(p, Number(chain[i])) \in Nat /\ Total(p, n) \in Nat
      BY <3>4, TotalType
    <3> QED
      BY <3>1, <3>3, <3>5
  <2> QED
    BY <1>2, <2>1, <2>2
<1>5. Overtakes(t, p)
  <2> SUFFICES ASSUME NEW i \in 1..Len(t), NEW j \in 1..Len(t), i < j, t[i] > t[j]
               PROVE  Total(p, t[i]) < Total(p, t[j])
    BY DEF Overtakes
  <2>1. CASE j \in 1..m
    <3>1. i \in 1..m
      BY <1>1, <2>1
    <3> QED
      BY <1>1, <2>1, <3>1 DEF Ordered, Overtakes
  <2>2. CASE j = m + 1
    <3>1. i \in 1..m
      BY <1>1, <2>2
    <3>2. s[i] \in 1..MaxPoints
      BY <3>1, ElementOfSeq
    <3>3. t[i] = s[i] /\ t[j] = n /\ n < s[i]
      BY <1>1, <2>2, <3>1, <3>2, BoundsAssumption
    <3> QED
      BY <3>1, <3>3 DEF Fits
  <2> QED
    BY <1>2, <2>1, <2>2
<1> QED
  BY <1>3, <1>4, <1>5 DEF Ordered, t

\* What holds of the first write of a chain fits in when it has settled.
LEMMA OrderedTail ==
  ASSUME NEW chain \in Seq(Writes), chain # <<>>, NEW s, NEW p \in Seq(Proposals), NEW d,
         Ordered(chain, s, p, d)
  PROVE  /\ Ordered(Tail(chain), s, p, d)
         /\ Carries(chain[1], d) =>
              Fits(Number(chain[1]), Left(chain[1]), Tail(chain), s, p, d)
<1> DEFINE c == Tail(chain)
           w == chain[1]
<1>1. /\ Len(chain) \in Nat \ {0} /\ w \in Writes
      /\ c \in Seq(Writes) /\ Len(c) = Len(chain) - 1
      /\ \A i \in 1..Len(c) : i + 1 \in 1..Len(chain) /\ c[i] = chain[i + 1]
  BY FrontOf
<1>2. 1 \in 1..Len(chain)
  BY <1>1
<1> HIDE DEF c
<1>3. Ordered(c, s, p, d)
  <2>1. NumbersKnown(c, s, p, d)
    BY <1>1 DEF Ordered, NumbersKnown
  <2>2. InLine(c, p, d)
    <3> SUFFICES ASSUME NEW i \in 1..Len(c), NEW k \in 1..Len(c),
                        Carries(c[i], d), Carries(c[k], d), Number(c[i]) < Number(c[k]),
                        Total(p, Number(c[i])) <= Total(p, Number(c[k]))
                 PROVE  Ahead(c[i], i, c[k], k)
      BY DEF InLine
    <3>1. Ahead(c[i], i + 1, c[k], k + 1)
      BY <1>1 DEF Ordered, InLine
    <3>2. i + 1 < k + 1 => i < k
      BY <1>1
    <3> QED
      BY <3>1, <3>2 DEF Ahead
  <2>3. EnteredFewer(c, s, p, d)
    BY <1>1 DEF Ordered, EnteredFewer
  <2> QED
    BY <2>1, <2>2, <2>3 DEF Ordered
<1>4. ASSUME Carries(w, d)
      PROVE  Fits(Number(w), Left(w), c, s, p, d)
  <2>1. /\ Number(w) \in 1..Len(p) /\ Left(w) < Total(p, Number(w)) /\ Left(w) \in Nat
    BY <1>1, <1>2, <1>4, WriteFacts DEF Ordered, NumbersKnown
  <2>2. Left(w) <= Total(p, Number(w))
    BY <2>1, TotalType
  <2>3. ASSUME NEW i \in 1..Len(c), Carries(c[i], d), Number(c[i]) < Number(w),
               Total(p, Number(c[i])) <= Total(p, Number(w))
        PROVE  Left(c[i]) < Left(w)
    <3>1. Ahead(c[i], i + 1, w, 1)
      BY <1>1, <1>2, <1>4, <2>3 DEF Ordered, InLine
    <3>2. ~(i + 1 < 1)
      BY <1>1
    <3> QED
      BY <3>1, <3>2 DEF Ahead
  <2>4. ASSUME NEW i \in 1..Len(c), Carries(c[i], d), Number(w) < Number(c[i]),
               Total(p, Number(w)) <= Total(p, Number(c[i]))
        PROVE  Left(w) <= Left(c[i])
    <3>1. Ahead(w, 1, c[i], i + 1)
      BY <1>1, <1>2, <1>4, <2>4 DEF Ordered, InLine
    <3>2. Left(c[i]) \in Nat
      BY <1>1, ElementOfSeq, WriteFacts
    <3> QED
      BY <2>1, <3>1, <3>2 DEF Ahead
  <2>5. \A k \in 1..Len(s) : Number(w) < s[k] => Total(p, s[k]) < Total(p, Number(w))
    BY <1>2, <1>4 DEF Ordered, EnteredFewer
  <2> QED
    BY <2>1, <2>2, <2>3, <2>4, <2>5 DEF Fits
<1> QED
  BY <1>3, <1>4 DEF c

\* A new command is the last one, and has all its events before it.
LEMMA OrderedProposal ==
  ASSUME NEW chain \in Seq(Writes), NEW s \in Seq(1..MaxPoints), NEW p \in Seq(Proposals),
         NEW d, Ordered(chain, s, p, d), NEW x \in Proposals
  PROVE  /\ Ordered(chain, s, Append(p, x), d)
         /\ Fits(Len(p) + 1, x.events, chain, s, Append(p, x), d)
<1> DEFINE q == Append(p, x)
           n == Len(p) + 1
<1>1. /\ Len(p) \in Nat /\ q \in Seq(Proposals) /\ Len(q) = n
      /\ \A i \in 1..Len(p) : q[i] = p[i]
      /\ q[n] = x
  BY EndOf
<1>2. n \in 1..Len(q) /\ \A i \in 1..Len(p) : i \in 1..Len(q) /\ Total(q, i) = Total(p, i) /\ i < n
  BY <1>1 DEF Total
<1>3. Total(q, n) = x.events /\ x.events \in Nat
  BY <1>1 DEF Total, Proposals
<1> HIDE DEF q, n
<1>4. /\ \A k \in 1..Len(s) : s[k] \in 1..Len(p)
      /\ \A i \in 1..Len(chain) :
           Carries(chain[i], d) => /\ Number(chain[i]) \in 1..Len(p)
                                   /\ Left(chain[i]) < Total(p, Number(chain[i]))
  BY DEF Ordered, NumbersKnown
<1>5. Ordered(chain, s, q, d)
  <2>1. NumbersKnown(chain, s, q, d)
    BY <1>2, <1>4 DEF NumbersKnown
  <2>2. InLine(chain, q, d)
    BY <1>2, <1>4 DEF Ordered, InLine
  <2>3. EnteredFewer(chain, s, q, d)
    BY <1>2, <1>4 DEF Ordered, EnteredFewer
  <2>4. Overtakes(s, q)
    BY <1>2, <1>4 DEF Ordered, Overtakes
  <2> QED
    BY <2>1, <2>2, <2>3, <2>4 DEF Ordered
<1>6. Fits(n, x.events, chain, s, q, d)
  <2>1. \A k \in 1..Len(s) : ~(n < s[k])
    <3> SUFFICES ASSUME NEW k \in 1..Len(s)
                 PROVE  ~(n < s[k])
      OBVIOUS
    <3>1. PICK j \in 1..Len(p) : j = s[k]
      BY <1>4
    <3> QED
      BY <1>1, <3>1 DEF n
  <2>2. ASSUME NEW i \in 1..Len(chain), Carries(chain[i], d)
        PROVE  /\ Total(q, Number(chain[i])) <= Total(q, n) => Left(chain[i]) < x.events
               /\ ~(n < Number(chain[i]))
    <3>1. PICK j \in 1..Len(p) : j = Number(chain[i])
      BY <1>4, <2>2
    <3>2. Left(chain[i]) < Total(p, j)
      BY <1>4, <2>2, <3>1
    <3>3. Left(chain[i]) \in Nat
      BY ElementOfSeq, WriteFacts
    <3>4. Total(q, j) = Total(p, j) /\ Total(p, j) \in Nat
      BY <1>2, TotalType
    <3>5. ~(n < j)
      BY <1>1 DEF n
    <3> QED
      BY <1>3, <3>1, <3>2, <3>3, <3>4, <3>5
  <2>3. x.events <= Total(q, n)
    BY <1>3
  <2> QED
    BY <1>2, <1>3, <2>1, <2>2, <2>3 DEF Fits
<1> QED
  BY <1>5, <1>6 DEF q, n

\* A coroutine that fits in goes on.
LEMMA OrderedGoOn ==
  ASSUME NEW d \in Devices, NEW events \in Seq(LogEvents), NEW effects \in Seq(1..MaxPoints),
         \A k \in 1..Len(events) : events[k].device = d,
         NEW alarms \in Seq(Writes), NEW commands,
         entered \in [Devices -> Seq(1..MaxPoints)],
         GoOn(d, events, effects, alarms, commands),
         NEW e \in Devices, NEW p \in Seq(Proposals), Ordered(alarms, entered[e], p, e),
         e = d /\ effects # <<>> => Fits(Head(effects), Len(events), alarms, entered[e], p, e)
  PROVE  Ordered(alarmChain', entered'[e], p, e)
<1>1. CASE events # <<>>
  <2> DEFINE w == [event |-> Head(events), next |-> Tail(events), effects |-> effects]
  <2>1. alarmChain' = Append(alarms, w) /\ entered' = entered
    BY <1>1 DEF GoOn
  <2>2. /\ Len(events) \in Nat \ {0} /\ Head(events) = events[1] /\ events[1] \in LogEvents
        /\ Tail(events) \in Seq(LogEvents) /\ Len(Tail(events)) = Len(events) - 1
    BY <1>1, FrontOf
  <2>3. events[1].device = d
    BY <2>2
  <2>4. /\ w \in Writes /\ (Carries(w, e) <=> e = d /\ effects # <<>>)
        /\ Number(w) = Head(effects) /\ Left(w) = Len(events) - 1
    BY <2>2, <2>3 DEF Writes, Carries, Number, Left
  <2> HIDE DEF w
  <2>5. CASE Carries(w, e)
    <3>1. Fits(Number(w), Len(events), alarms, entered[e], p, e) /\ Len(events) \in Nat
      BY <2>2, <2>4, <2>5
    <3>2. Ordered(Append(alarms, w), entered[e], p, e)
      BY <2>4, <2>5, <3>1, OrderedPush
    <3> QED
      BY <2>1, <3>2
  <2>6. CASE ~Carries(w, e)
    BY <2>1, <2>4, <2>6, OrderedOther
  <2> QED
    BY <2>5, <2>6
<1>2. CASE events = <<>> /\ effects # <<>>
  <2>1. /\ alarmChain' = alarms
        /\ entered' = [entered EXCEPT ![d] = Append(entered[d], Head(effects))]
    BY <1>2 DEF GoOn
  <2>2. Head(effects) \in 1..MaxPoints
    BY <1>2, FirstEffect
  <2>3. CASE e = d
    <3>1. Fits(Head(effects), 0, alarms, entered[e], p, e)
      BY <1>2, <2>3, EmptySeq
    <3>2. entered[e] \in Seq(1..MaxPoints)
      OBVIOUS
    <3>3. Ordered(alarms, Append(entered[e], Head(effects)), p, e)
      BY <2>2, <3>1, <3>2, OrderedEnter
    <3> QED
      BY <2>1, <2>3, <3>3
  <2>4. CASE e # d
    BY <2>1, <2>4
  <2> QED
    BY <2>3, <2>4
<1>3. CASE events = <<>> /\ effects = <<>>
  BY <1>3 DEF GoOn
<1> QED
  BY <1>1, <1>2, <1>3

Order == \A d \in Devices : Ordered(alarmChain, entered[d], proposed[d], d)

LEMMA OrderTypes ==
  ASSUME Types
  PROVE  /\ alarmChain \in Seq(Writes) /\ commandChain \in Seq(Requests)
         /\ entered \in [Devices -> Seq(1..MaxPoints)]
         /\ proposed \in [Devices -> Seq(Proposals)]
         /\ \A d \in Devices : proposed[d] \in Seq(Proposals) /\ entered[d] \in Seq(1..MaxPoints)
BY DEF Types, ChainsOK, Histories

\* A coroutine without a command changes nothing.
LEMMA OrderWithout ==
  ASSUME Types, Order, NEW d \in Devices, NEW events \in Seq(LogEvents),
         \A k \in 1..Len(events) : events[k].device = d, NEW commands,
         GoOn(d, events, <<>>, alarmChain, commands), proposed' = proposed
  PROVE  Order'
<1>1. <<>> \in Seq(1..MaxPoints)
  BY EmptySeq
<1>2. ASSUME NEW e \in Devices
      PROVE  Ordered(alarmChain', entered'[e], proposed[e], e)
  <2>1. /\ alarmChain \in Seq(Writes) /\ entered \in [Devices -> Seq(1..MaxPoints)]
        /\ proposed[e] \in Seq(Proposals)
    BY OrderTypes
  <2>2. Ordered(alarmChain, entered[e], proposed[e], e)
    BY DEF Order
  <2> QED
    BY <1>1, <2>1, <2>2, OrderedGoOn
<1> QED
  BY <1>2 DEF Order

LEMMA OrderAlarm ==
  ASSUME Types, Order, NEW i, NEW done, AlarmSettles(i, done)
  PROVE  Order'
<1> DEFINE w == alarmChain[1]
           d == w.event.device
           rest == Tail(alarmChain)
           next == w.next
           effects == w.effects
<1>1. AlarmLeads(w, done)
  BY AlarmFacts DEF Types
<1>2. proposed' = proposed
  BY DEF AlarmSettles
<1>3. /\ w \in Writes /\ rest \in Seq(Writes) /\ commandChain \in Seq(Requests)
      /\ alarmChain \in Seq(Writes) /\ alarmChain # <<>>
      /\ \A k \in 1..Len(next) : next[k].device = d
  BY <1>1, RestOfChain DEF AlarmLeads, Types, ChainsOK
<1>4. /\ d \in Devices /\ next \in Seq(LogEvents) /\ effects \in Seq(1..MaxPoints)
  BY <1>3 DEF Writes, LogEvents
<1>5. GoOn(d, next, effects, rest, commandChain)
  BY <1>1 DEF AlarmLeads
<1>6. ASSUME NEW e \in Devices
      PROVE  /\ Ordered(rest, entered[e], proposed[e], e)
             /\ e = d /\ effects # <<>> =>
                  Fits(Head(effects), Len(next), rest, entered[e], proposed[e], e)
  <2>1. Ordered(alarmChain, entered[e], proposed[e], e) /\ proposed[e] \in Seq(Proposals)
    BY OrderTypes DEF Order
  <2>2. /\ Ordered(rest, entered[e], proposed[e], e)
        /\ Carries(w, e) => Fits(Number(w), Left(w), rest, entered[e], proposed[e], e)
    BY <1>3, <2>1, OrderedTail
  <2>3. /\ Carries(w, e) <=> e = d /\ effects # <<>>
        /\ Number(w) = Head(effects) /\ Left(w) = Len(next)
    BY DEF Carries, Number, Left
  <2> HIDE DEF w, d, rest, next, effects
  <2> QED
    BY <2>2, <2>3
<1> HIDE DEF w, d, rest, next, effects
<1>7. ASSUME NEW e \in Devices
      PROVE  Ordered(alarmChain', entered'[e], proposed[e], e)
  <2>1. entered \in [Devices -> Seq(1..MaxPoints)] /\ proposed[e] \in Seq(Proposals)
    BY OrderTypes
  <2> QED
    BY <1>3, <1>4, <1>5, <1>6, <2>1, OrderedGoOn
<1> QED
  BY <1>2, <1>7 DEF Order

LEMMA OrderPoint ==
  ASSUME Types, Order, NEW i, PointSettles(i)
  PROVE  Order'
<1>0. PICK d \in Devices, p \in Readings : \E events, kinds : PointLeads(d, p, events, kinds)
  BY PointFacts DEF Types
<1>1. PICK events, kinds : PointLeads(d, p, events, kinds)
  BY <1>0
<1> DEFINE n == Len(proposed[d])
           numbers == Numbers(kinds, n)
           more == Proposed(kinds, Len(events))
<1>2. /\ events \in Seq(LogEvents) /\ Len(events) \in Nat
      /\ \A k \in 1..Len(events) : events[k].device = d
  BY <1>1, PointEvents
<1>3. n \in Nat /\ n + 1 <= MaxPoints
  <2>1. Len(telemetryChain) \in Nat \ {0}
    BY <1>1, FrontOf DEF PointLeads, Types, ChainsOK
  <2> QED
    BY <2>1, RoomFacts
<1>4. /\ numbers \in Seq(1..MaxPoints)
      /\ kinds = <<>> => numbers = <<>>
      /\ kinds # <<>> => numbers # <<>> /\ Head(numbers) = n + 1
  BY <1>3, NumbersFacts
<1>5. /\ kinds \in {<<>>, <<"CURTAIL">>, <<"STANDBY">>}
      /\ proposed' = [proposed EXCEPT ![d] = proposed[d] \o more]
      /\ GoOn(d, events, numbers, alarmChain, commandChain)
  BY <1>1 DEF PointLeads
<1>6. /\ alarmChain \in Seq(Writes) /\ entered \in [Devices -> Seq(1..MaxPoints)]
      /\ proposed \in [Devices -> Seq(Proposals)]
  BY OrderTypes
<1>7. \A e \in Devices : Ordered(alarmChain, entered[e], proposed[e], e)
  BY DEF Order
<1>8. ASSUME NEW e \in Devices
      PROVE  /\ proposed'[e] \in Seq(Proposals)
             /\ Ordered(alarmChain, entered[e], proposed'[e], e)
             /\ e = d /\ numbers # <<>> =>
                  Fits(Head(numbers), Len(events), alarmChain, entered[e], proposed'[e], e)
  <2>0. proposed[e] \in Seq(Proposals) /\ entered[e] \in Seq(1..MaxPoints)
    BY <1>6
  <2>1. CASE e # d
    BY <1>5, <1>6, <1>7, <2>1
  <2>2. CASE e = d /\ kinds = <<>>
    <3>1. proposed[e] \o <<>> = proposed[e]
      BY <2>0, ConcatEmptySeq
    <3>2. more = <<>>
      BY <2>2 DEF Proposed
    <3>3. proposed'[e] = proposed[e]
      BY <1>5, <1>6, <2>2, <3>1, <3>2
    <3> QED
      BY <1>4, <1>7, <2>0, <2>2, <3>3
  <2>3. CASE e = d /\ kinds # <<>>
    <3> DEFINE x == [type |-> kinds[1], events |-> Len(events)]
    <3>1. more = <<x>>
      BY <2>3 DEF Proposed
    <3>2. x \in Proposals /\ x.events = Len(events)
      BY <1>2, <1>5, <2>3 DEF Proposals
    <3> HIDE DEF x
    <3>3. proposed'[e] = Append(proposed[e], x)
      <4>1. proposed[e] \o <<x>> = Append(proposed[e], x)
        BY <2>0, <3>2, AppendIsConcat
      <4> QED
        BY <1>5, <1>6, <2>3, <3>1, <4>1
    <3>4. /\ Ordered(alarmChain, entered[e], Append(proposed[e], x), e)
          /\ Fits(Len(proposed[e]) + 1, x.events, alarmChain, entered[e],
                  Append(proposed[e], x), e)
      BY <1>6, <1>7, <2>0, <3>2, OrderedProposal
    <3>5. Append(proposed[e], x) \in Seq(Proposals)
      BY <2>0, <3>2, EndOf
    <3> QED
      BY <1>4, <2>3, <3>2, <3>3, <3>4, <3>5
  <2> QED
    BY <2>1, <2>2, <2>3
<1> HIDE DEF numbers, more, n
<1>9. ASSUME NEW e \in Devices
      PROVE  Ordered(alarmChain', entered'[e], proposed'[e], e)
  <2> DEFINE q == proposed'[e]
  <2>1. /\ q \in Seq(Proposals) /\ Ordered(alarmChain, entered[e], q, e)
        /\ e = d /\ numbers # <<>> =>
             Fits(Head(numbers), Len(events), alarmChain, entered[e], q, e)
    BY <1>8
  <2> HIDE DEF q
  <2>2. Ordered(alarmChain', entered'[e], q, e)
    BY <1>2, <1>4, <1>5, <1>6, <2>1, OrderedGoOn
  <2> QED
    BY <2>2 DEF q
<1> QED
  BY <1>9 DEF Order

LEMMA OrderedNothing ==
  ASSUME NEW s \in Seq(1..MaxPoints), NEW p, NEW d, NEW chain, Ordered(chain, s, p, d)
  PROVE  Ordered(<<>>, s, p, d)
<1>1. Len(<<>>) = 0 /\ 1..0 = {}
  BY EmptySeq
<1>2. \A k \in 1..Len(s) : s[k] \in 1..Len(p)
  BY DEF Ordered, NumbersKnown
<1>3. NumbersKnown(<<>>, s, p, d) /\ InLine(<<>>, p, d) /\ EnteredFewer(<<>>, s, p, d)
  BY <1>1, <1>2 DEF NumbersKnown, InLine, EnteredFewer
<1> QED
  BY <1>3 DEF Ordered

LEMMA OrderNext ==
  ASSUME Types, Order, [Next]_vars
  PROVE  Order'
<1>1. CASE UNCHANGED <<alarmChain, entered, proposed>>
  BY <1>1 DEF Order
<1>2. CASE UNCHANGED vars
  BY <1>1, <1>2 DEF vars, chains, history
<1>3. ASSUME NEW d \in Devices,
             HandlePoint(d) \/ Reset(d) \/ Restore(d) \/ RemoveDevice(d)
      PROVE  Order'
  BY <1>1, <1>3 DEF HandlePoint, Reset, Restore, RemoveDevice, chains, history
<1>4. ASSUME NEW d \in Devices, NEW done, RemovalSettles(d, done)
      PROVE  Order'
  BY <1>1, <1>4 DEF RemovalSettles, chains
<1>5. ASSUME NEW d \in Devices, NEW events, NEW commands, Acknowledges(d, events),
             GoOn(d, events, <<>>, alarmChain, commands), proposed' = proposed
      PROVE  Order'
  <2>1. events \in Seq(LogEvents) /\ \A k \in 1..Len(events) : events[k].device = d
    BY <1>5 DEF Acknowledges
  <2> QED
    BY <1>5, <2>1, OrderWithout
<1>6. ASSUME NEW d \in Devices, Acknowledge(d)
      PROVE  Order'
  <2>1. proposed' = proposed
    BY <1>6 DEF Acknowledge
  <2> QED
    BY <1>5, <1>6, <2>1, AcknowledgeFacts
<1>7. ASSUME NEW done, CommandSettles(done)
      PROVE  Order'
  <2> DEFINE c == commandChain[1]
  <2>1. CommandLeads(c, done) /\ proposed' = proposed
    BY <1>7, CommandFacts DEF CommandSettles
  <2>2. c.device \in Devices
    BY <2>1 DEF CommandLeads, Requests
  <2> HIDE DEF c
  <2>3. CASE UNCHANGED <<alarmChain, entered>>
    BY <1>1, <2>1, <2>3
  <2>4. CASE \E events : /\ Acknowledges(c.device, events)
                         /\ GoOn(c.device, events, <<>>, alarmChain, Tail(commandChain))
    BY <1>5, <2>1, <2>2, <2>4
  <2> QED
    BY <2>1, <2>3, <2>4 DEF CommandLeads
<1>8. ASSUME NEW d \in Devices, Sweep(d)
      PROVE  Order'
  <2>1. proposed' = proposed /\ sweeps < MaxSweeps
    BY <1>8 DEF Sweep
  <2>2. PICK age : GoOn(d, Events(d, StalenessChecks(age)), <<>>, alarmChain, commandChain)
    BY <1>8 DEF Sweep
  <2>3. /\ EngineOK /\ StalenessChecks(age) \in Seq(Checks)
        /\ \A t \in AlarmTypes : /\ raised[d][t] < MaxRaised
                                 /\ t \in active[d] => raised[d][t] >= 1
    <3>1. \A t \in AlarmTypes : /\ raised[d][t] < MaxRaised
                                /\ t \in active[d] => raised[d][t] >= 1
      BY <2>1, RoomFacts
    <3> QED
      BY <3>1, ChecksType DEF Types
  <2>4. /\ Events(d, StalenessChecks(age)) \in Seq(LogEvents)
        /\ \A k \in 1..Len(Events(d, StalenessChecks(age))) :
             Events(d, StalenessChecks(age))[k].device = d
    BY <2>3, EventsFacts
  <2> QED
    BY <2>1, <2>2, <2>4, OrderWithout
<1>9. CASE Restart
  <2>1. alarmChain' = <<>> /\ UNCHANGED <<entered, proposed>>
    BY <1>9 DEF Restart
  <2>2. \A d \in Devices : Ordered(<<>>, entered[d], proposed[d], d)
    BY OrderTypes, OrderedNothing DEF Order
  <2> QED
    BY <2>1, <2>2 DEF Order
<1>10. CASE Next
  BY <1>3, <1>4, <1>6, <1>7, <1>8, <1>9, <1>10, OrderPoint, OrderAlarm DEF Next
<1> QED
  BY <1>2, <1>10

\* A command of a device enters the queue before that of an earlier point only if
\* its own point led to fewer alarm events, whatever writes fail and whichever
\* other coroutines run.
THEOREM OvertakesFewer == Spec => []OvertakesByFewerAlarms
<1>1. Init => Order
  <2> SUFFICES ASSUME Init, NEW d \in Devices
               PROVE  Ordered(alarmChain, entered[d], proposed[d], d)
    BY DEF Order
  <2>1. alarmChain = <<>> /\ entered[d] = <<>> /\ Len(<<>>) = 0 /\ 1..0 = {}
    BY EmptySeq DEF Init
  <2> QED
    BY <2>1 DEF Ordered, NumbersKnown, InLine, EnteredFewer, Overtakes
<1>2. Types /\ Order /\ [Next]_vars => Order'
  BY OrderNext
<1>3. Order => OvertakesByFewerAlarms
  BY DEF Order, Ordered, Overtakes, Total, OvertakesByFewerAlarms
<1> QED
  BY <1>1, <1>2, <1>3, TypesAlways, PTL DEF Spec
=============================================================================
