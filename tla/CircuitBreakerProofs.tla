------------------------ MODULE CircuitBreakerProofs ------------------------
(***************************************************************************)
(* Proofs about CircuitBreaker, for every window, threshold, staleness and *)
(* deviation of the clocks of the devices.                                 *)
(*                                                                         *)
(* The list of errors is what the window leaves of the whole history, so   *)
(* its length is the rate; that rests on the errors being recorded in the  *)
(* order of the clock.                                                     *)
(***************************************************************************)
EXTENDS CircuitBreaker, TLAPS, SequenceTheorems, FiniteSetTheorems

\* The last entries of a device, and when they were made.
Hears ==
  /\ now \in 0..MaxTime
  /\ \A d \in Devices :
       lastSeen[d] # Never =>
         /\ lastSeen[d] \in Stamps /\ heard[d] \in 0..now
         /\ lastSeen[d] <= heard[d] + MaxLead
  /\ lastSeen \in [Devices -> Stamps \cup {Never}]
  /\ heard \in [Devices -> Times \cup {Never}]

\* The history is in the order of the clock.
Ordered ==
  /\ recorded \in Seq(Times) /\ Len(recorded) <= MaxRecorded
  /\ \A i \in 1..Len(recorded) : recorded[i] <= now
  /\ \A i, j \in 1..Len(recorded) : i <= j => recorded[i] <= recorded[j]

\* The list holds the end of the history that lay in the window of the last
\* error, and nothing else.
Windowed ==
  /\ errors \in Seq(Times) /\ Len(errors) <= Len(recorded)
  /\ \A i \in 1..Len(errors) :
       /\ errors[i] = recorded[Len(recorded) - Len(errors) + i]
       /\ errors[i] >= recorded[Len(recorded)] - Window
  /\ \A i \in 1..(Len(recorded) - Len(errors)) :
       recorded[i] < recorded[Len(recorded)] - Window

\* What the breaker decided at the last error.
Decided ==
  /\ tripped \in BOOLEAN /\ sinceReset \in 0..Len(recorded)
  /\ recorded # <<>> => /\ Excessive(errors) => tripped
                        /\ Subsided(errors) => ~tripped
  /\ ~tripped => 2 * Len(errors) <= 2 * sinceReset + MaxErrors

IInv == Hears /\ Ordered /\ Windowed /\ Decided

-----------------------------------------------------------------------------
(* Pruning.                                                                *)

\* A set of naturals up to n that contains with each number those above it is
\* an interval that ends with n, of the length of its cardinality.
LEMMA UpwardClosed ==
  ASSUME NEW n \in Nat, NEW T \in SUBSET (1..n),
         \A i \in T : \A j \in 1..n : i <= j => j \in T
  PROVE  /\ Cardinality(T) \in 0..n
         /\ T = (n - Cardinality(T) + 1)..n
<1> DEFINE k == Cardinality(T)
<1>1. k \in 0..n
  <2>1. IsFiniteSet(1..n) /\ Cardinality(1..n) = n
    BY FS_Interval
  <2>2. IsFiniteSet(T) /\ Cardinality(T) <= n
    BY <2>1, FS_Subset
  <2>3. Cardinality(T) \in Nat
    BY <2>2, FS_CardinalityType
  <2> QED
    BY <2>2, <2>3
<1> HIDE DEF k
<1>2. \A i \in T : n - i + 1 <= k
  <2> SUFFICES ASSUME NEW i \in T
               PROVE  n - i + 1 <= k
    OBVIOUS
  <2>1. i \in 1..n /\ i..n \in SUBSET T
    OBVIOUS
  <2>2. Cardinality(i..n) = n - i + 1
    BY <2>1, FS_Interval
  <2>3. IsFiniteSet(T)
    <3>1. IsFiniteSet(1..n)
      BY FS_Interval
    <3> QED
      BY <3>1, FS_Subset
  <2>4. Cardinality(i..n) <= Cardinality(T)
    BY <2>1, <2>3, FS_Subset
  <2> QED
    BY <2>2, <2>4 DEF k
<1>3. T \in SUBSET ((n - k + 1)..n)
  <2> SUFFICES ASSUME NEW i \in T
               PROVE  i \in (n - k + 1)..n
    OBVIOUS
  <2>1. i \in 1..n /\ n - i + 1 <= k
    BY <1>2
  <2> QED
    BY <1>1, <2>1
<1>4. IsFiniteSet((n - k + 1)..n) /\ Cardinality((n - k + 1)..n) = k
  <2>1. n - k + 1 \in Int /\ n \in Int
    BY <1>1
  <2>2. /\ IsFiniteSet((n - k + 1)..n)
        /\ Cardinality((n - k + 1)..n) = IF n - k + 1 > n THEN 0 ELSE n - (n - k + 1) + 1
    BY <2>1, FS_Interval
  <2> QED
    BY <1>1, <2>2
<1>5. T = (n - k + 1)..n
  <2>1. Cardinality((n - k + 1)..n) = Cardinality(T)
    BY <1>4 DEF k
  <2> QED
    BY <1>3, <1>4, <2>1, FS_Subset
<1> QED
  BY <1>1, <1>5 DEF k

\* The entries of a list of times are numbers.
LEMMA TimesFacts ==
  ASSUME NEW s \in Seq(Times)
  PROVE  /\ Len(s) \in Nat
         /\ \A i \in 1..Len(s) : s[i] \in Times /\ s[i] \in Nat
<1>1. Len(s) \in Nat /\ \A i \in 1..Len(s) : s[i] \in Times
  BY LenProperties, ElementOfSeq
<1>2. \A x \in Times : x \in Nat
  BY BreakerAssumption DEF Times
<1> QED
  BY <1>1, <1>2

\* Of times in their order, pruning leaves those in the window, all of them.
LEMMA PrunedFacts ==
  ASSUME NEW times \in Seq(Times), now \in Nat,
         \A i, j \in 1..Len(times) : i <= j => times[i] <= times[j]
  PROVE  /\ Pruned(times) \in Seq(Times)
         /\ Len(Pruned(times)) \in 0..Len(times)
         /\ \A i \in 1..Len(Pruned(times)) :
              /\ Len(times) - Len(Pruned(times)) + i \in 1..Len(times)
              /\ Pruned(times)[i] = times[Len(times) - Len(Pruned(times)) + i]
              /\ Pruned(times)[i] >= now - Window
         /\ \A i \in 1..(Len(times) - Len(Pruned(times))) : times[i] < now - Window
<1> DEFINE n == Len(times)
           T == {i \in 1..n : \E j \in 1..i : times[j] >= now - Window}
           k == Cardinality(T)
<1>1. n \in Nat /\ \A i \in 1..n : times[i] \in Times /\ times[i] \in Int
  BY TimesFacts
<1>2. T \in SUBSET (1..n) /\ \A i \in T : \A j \in 1..n : i <= j => j \in T
  BY <1>1
<1>3. k \in 0..n /\ T = (n - k + 1)..n
  <2> HIDE DEF T, n
  <2> QED
    BY <1>1, <1>2, UpwardClosed
<1>4. \A i \in 1..n : i \in T <=> times[i] >= now - Window
  <2>1. now - Window \in Int
    BY BreakerAssumption
  <2> QED
    BY <1>1, <2>1
<1>5. Pruned(times) = SubSeq(times, n - k + 1, n)
  BY DEF Pruned
<1> HIDE DEF T, k, n
<1>6. /\ SubSeq(times, n - k + 1, n) \in Seq(Times)
      /\ Len(SubSeq(times, n - k + 1, n)) = k
      /\ \A i \in 1..k : SubSeq(times, n - k + 1, n)[i] = times[n - k + i]
  <2>1. n - k + 1 \in Int /\ \A i \in (n - k + 1)..n : times[i] \in Times
    BY <1>1, <1>3
  <2>2. /\ SubSeq(times, n - k + 1, n) \in Seq(Times)
        /\ Len(SubSeq(times, n - k + 1, n)) =
             IF n - k + 1 <= n THEN n - (n - k + 1) + 1 ELSE 0
        /\ \A i \in 1..(n - (n - k + 1) + 1) :
             SubSeq(times, n - k + 1, n)[i] = times[(n - k + 1) + i - 1]
    BY <1>1, <2>1, SubSeqProperties
  <2>3. n - (n - k + 1) + 1 = k /\ \A i \in 1..k : (n - k + 1) + i - 1 = n - k + i
    BY <1>1, <1>3
  <2>4. k = 0 => ~(n - k + 1 <= n)
    BY <1>1, <1>3
  <2> QED
    BY <1>1, <1>3, <2>2, <2>3, <2>4
<1>7. \A i \in 1..k : n - k + i \in T /\ n - k + i \in 1..n
  BY <1>1, <1>3
<1>8. \A i \in 1..(n - k) : i \in 1..n /\ i \notin T
  BY <1>1, <1>3
<1>9. \A i \in 1..(n - k) : times[i] < now - Window
  BY <1>1, <1>4, <1>8, BreakerAssumption
<1> QED
  BY <1>3, <1>4, <1>5, <1>6, <1>7, <1>9 DEF n

-----------------------------------------------------------------------------
(* Each action keeps the invariant.                                        *)

LEMMA InitInv ==
  ASSUME Init
  PROVE  IInv
<1>1. <<>> \in Seq(Times) /\ Len(<<>>) = 0
  BY EmptySeq
<1>2. Hears
  BY BreakerAssumption DEF Init, Hears
<1>3. Ordered
  BY <1>1, BreakerAssumption DEF Init, Ordered
<1>4. Windowed
  BY <1>1 DEF Init, Windowed
<1>5. Decided
  <2>1. /\ recorded = <<>> /\ tripped = FALSE /\ sinceReset = 0
        /\ Len(errors) = 0 /\ Len(recorded) = 0
    BY <1>1 DEF Init
  <2>2. 2 * Len(errors) <= 2 * sinceReset + MaxErrors
    BY <2>1, BreakerAssumption
  <2>3. sinceReset \in 0..Len(recorded)
    BY <2>1
  <2> QED
    BY <2>1, <2>2, <2>3 DEF Decided
<1> QED
  BY <1>2, <1>3, <1>4, <1>5 DEF IInv

LEMMA TickInv ==
  ASSUME IInv, Tick
  PROVE  IInv'
<1>1. /\ now \in 0..MaxTime /\ now' = now + 1 /\ now' \in 0..MaxTime
      /\ UNCHANGED <<lastSeen, errors, tripped, heard, recorded, sinceReset>>
  BY BreakerAssumption DEF IInv, Hears, Tick
<1>2. Hears'
  BY <1>1 DEF IInv, Hears
<1>3. Ordered'
  <2>1. \A i \in 1..Len(recorded) : recorded[i] \in Nat
    BY TimesFacts DEF IInv, Ordered
  <2> QED
    BY <1>1, <2>1 DEF IInv, Ordered
<1>4. Windowed' /\ Decided'
  BY <1>1 DEF IInv, Windowed, Decided, Excessive, Subsided
<1> QED
  BY <1>2, <1>3, <1>4 DEF IInv

LEMMA TelemetryInv ==
  ASSUME IInv, NEW d \in Devices, RecordTelemetry(d)
  PROVE  IInv'
<1>1. PICK stamp \in (now - MaxLag)..(now + MaxLead) :
        lastSeen' = [lastSeen EXCEPT ![d] = stamp]
  BY DEF RecordTelemetry
<1>2. /\ heard' = [heard EXCEPT ![d] = now]
      /\ UNCHANGED <<now, errors, tripped, recorded, sinceReset>>
  BY DEF RecordTelemetry
<1>3. now \in 0..MaxTime /\ stamp \in Stamps /\ stamp <= now + MaxLead
  <2>1. now \in 0..MaxTime
    BY DEF IInv, Hears
  <2> QED
    BY <1>1, <2>1, BreakerAssumption DEF Stamps
<1>4. Hears'
  <2>1. /\ lastSeen' \in [Devices -> Stamps \cup {Never}]
        /\ heard' \in [Devices -> Times \cup {Never}]
    BY <1>1, <1>2, <1>3 DEF IInv, Hears, Times
  <2>2. ASSUME NEW e \in Devices, lastSeen'[e] # Never
        PROVE  /\ lastSeen'[e] \in Stamps /\ heard'[e] \in 0..now'
               /\ lastSeen'[e] <= heard'[e] + MaxLead
    <3>1. CASE e = d
      <4>1. lastSeen'[e] = stamp /\ heard'[e] = now
        BY <1>1, <1>2, <3>1 DEF IInv, Hears
      <4> QED
        BY <1>2, <1>3, <4>1
    <3>2. CASE e # d
      <4>1. lastSeen'[e] = lastSeen[e] /\ heard'[e] = heard[e]
        BY <1>1, <1>2, <3>2 DEF IInv, Hears
      <4> QED
        BY <1>2, <2>2, <4>1 DEF IInv, Hears
    <3> QED
      BY <3>1, <3>2
  <2> QED
    BY <1>2, <1>3, <2>1, <2>2 DEF Hears
<1>5. Ordered' /\ Windowed' /\ Decided'
  BY <1>2 DEF IInv, Ordered, Windowed, Decided, Excessive, Subsided
<1> QED
  BY <1>4, <1>5 DEF IInv

\* The list with the new error, before and after pruning.
LEMMA RecordFacts ==
  ASSUME IInv, RecordError
  PROVE  /\ Ordered' /\ Windowed'
         /\ Len(recorded') = Len(recorded) + 1 /\ Len(recorded) \in Nat
         /\ Len(errors) \in Nat /\ Len(errors') \in 0..(Len(errors) + 1)
<1> DEFINE r == recorded'
           n == Len(recorded)
           e == Append(errors, now)
           k == Len(errors)
<1>1. /\ r = Append(recorded, now) /\ errors' = Pruned(e) /\ now' = now
      /\ n < MaxRecorded /\ now \in Times /\ now \in Nat
      /\ recorded \in Seq(Times) /\ errors \in Seq(Times)
      /\ n \in Nat /\ k \in Nat /\ k <= n
  BY LenProperties DEF RecordError, IInv, Hears, Ordered, Windowed, Times
<1>2. /\ r \in Seq(Times) /\ Len(r) = n + 1 /\ r[n + 1] = now
      /\ \A i \in 1..n : r[i] = recorded[i]
  BY <1>1, AppendProperties
<1>3. /\ e \in Seq(Times) /\ Len(e) = k + 1 /\ e[k + 1] = now
      /\ \A i \in 1..k : e[i] = errors[i]
  BY <1>1, AppendProperties
<1> HIDE DEF r, n, e, k
<1>4. \A i \in 1..(n + 1) : r[i] \in Nat /\ r[i] <= now
  <2>1. \A i \in 1..n : recorded[i] <= now
    BY DEF IInv, Ordered, n
  <2>2. \A i \in 1..(n + 1) : r[i] \in Nat
    BY <1>2, TimesFacts
  <2>3. \A i \in 1..(n + 1) : i \in 1..n \/ i = n + 1
    BY <1>1
  <2> QED
    BY <1>1, <1>2, <2>1, <2>2, <2>3
<1>5. \A i, j \in 1..(n + 1) : i <= j => r[i] <= r[j]
  <2> SUFFICES ASSUME NEW i \in 1..(n + 1), NEW j \in 1..(n + 1), i <= j
               PROVE  r[i] <= r[j]
    OBVIOUS
  <2>1. CASE j = n + 1
    BY <1>2, <1>4, <2>1
  <2>2. CASE j # n + 1
    <3>1. i \in 1..n /\ j \in 1..n
      BY <1>1, <2>2
    <3> QED
      BY <1>2, <3>1 DEF IInv, Ordered, n
  <2> QED
    BY <2>1, <2>2
<1>6. Ordered'
  <2>1. Len(r) <= MaxRecorded
    BY <1>1, <1>2, BreakerAssumption
  <2> QED
    BY <1>1, <1>2, <1>4, <1>5, <2>1 DEF Ordered, r
<1>7. \A i \in 1..(k + 1) : n - k + i \in 1..(n + 1) /\ e[i] = r[n - k + i]
  <2> SUFFICES ASSUME NEW i \in 1..(k + 1)
               PROVE  n - k + i \in 1..(n + 1) /\ e[i] = r[n - k + i]
    OBVIOUS
  <2>1. CASE i = k + 1
    <3>1. n - k + i = n + 1 /\ n + 1 \in 1..(n + 1)
      BY <1>1, <2>1
    <3>2. e[i] = now /\ r[n + 1] = now
      BY <1>2, <1>3, <2>1
    <3> QED
      BY <3>1, <3>2
  <2>2. CASE i # k + 1
    <3>1. i \in 1..k /\ n - k + i \in 1..n
      BY <1>1, <2>2
    <3>2. errors[i] = recorded[n - k + i]
      BY <3>1 DEF IInv, Windowed, n, k
    <3> QED
      BY <1>1, <1>2, <1>3, <3>1, <3>2
  <2> QED
    BY <2>1, <2>2
<1>8. \A i, j \in 1..Len(e) : i <= j => e[i] <= e[j]
  <2> SUFFICES ASSUME NEW i \in 1..(k + 1), NEW j \in 1..(k + 1), i <= j
               PROVE  e[i] <= e[j]
    BY <1>3
  <2>1. n - k + i <= n - k + j
    BY <1>1
  <2> QED
    BY <1>5, <1>7, <2>1
<1> DEFINE p == Len(Pruned(e))
<1>9. /\ Pruned(e) \in Seq(Times) /\ p \in 0..(k + 1)
      /\ \A i \in 1..p : /\ k + 1 - p + i \in 1..(k + 1)
                         /\ Pruned(e)[i] = e[k + 1 - p + i]
                         /\ Pruned(e)[i] >= now - Window
      /\ \A i \in 1..(k + 1 - p) : e[i] < now - Window
  <2>1. /\ Pruned(e) \in Seq(Times)
        /\ p \in 0..Len(e)
        /\ \A i \in 1..p : /\ Len(e) - p + i \in 1..Len(e)
                           /\ Pruned(e)[i] = e[Len(e) - p + i]
                           /\ Pruned(e)[i] >= now - Window
        /\ \A i \in 1..(Len(e) - p) : e[i] < now - Window
    BY <1>1, <1>3, <1>8, PrunedFacts
  <2> HIDE DEF p
  <2> QED
    BY <1>1, <1>3, <2>1
<1> HIDE DEF p
<1>10. \A i \in 1..p : errors'[i] = r[n + 1 - p + i] /\ errors'[i] >= r[n + 1] - Window
  <2> SUFFICES ASSUME NEW i \in 1..p
               PROVE  errors'[i] = r[n + 1 - p + i] /\ errors'[i] >= r[n + 1] - Window
    OBVIOUS
  <2>1. n - k + (k + 1 - p + i) = n + 1 - p + i
    BY <1>1, <1>9
  <2> QED
    BY <1>1, <1>2, <1>7, <1>9, <2>1
<1>11. \A i \in 1..(n + 1 - p) : r[i] < r[n + 1] - Window
  <2> SUFFICES ASSUME NEW i \in 1..(n + 1 - p)
               PROVE  r[i] < now - Window
    BY <1>2
  <2>1. CASE i > n - k
    <3>1. i - (n - k) \in 1..(k + 1 - p) /\ n - k + (i - (n - k)) = i
      BY <1>1, <1>9, <2>1
    <3>2. i - (n - k) \in 1..(k + 1)
      BY <1>1, <1>9, <3>1
    <3> QED
      BY <1>7, <1>9, <3>1, <3>2
  <2>2. CASE i <= n - k
    <3>1. i \in 1..(n - k) /\ i \in 1..n /\ n \in 1..n
      BY <1>1, <1>9, <2>2
    <3>2. recorded[i] < recorded[n] - Window
      BY <3>1 DEF IInv, Windowed, n, k
    <3>3. recorded[n] <= now /\ recorded[n] \in Nat /\ recorded[i] \in Nat
      BY <1>1, <1>2, <1>4, <3>1
    <3> QED
      BY <1>1, <1>2, <3>1, <3>2, <3>3, BreakerAssumption
  <2>3. i > n - k \/ i <= n - k
    BY <1>1, <1>9
  <2> QED
    BY <2>1, <2>2, <2>3
<1>12. Windowed'
  <2>1. /\ errors' \in Seq(Times) /\ Len(errors') = p /\ Len(recorded') = n + 1
        /\ p <= n + 1 /\ p \in Nat /\ n \in Nat
    BY <1>1, <1>2, <1>9 DEF r, p
  <2>2. \A i \in 1..Len(errors') :
          /\ errors'[i] = recorded'[Len(recorded') - Len(errors') + i]
          /\ errors'[i] >= recorded'[Len(recorded')] - Window
    BY <1>10, <2>1 DEF r
  <2>3. \A i \in 1..(Len(recorded') - Len(errors')) :
          recorded'[i] < recorded'[Len(recorded')] - Window
    BY <1>11, <2>1 DEF r
  <2> QED
    BY <2>1, <2>2, <2>3 DEF Windowed
<1> QED
  BY <1>1, <1>2, <1>6, <1>9, <1>12 DEF r, n, k, p

LEMMA RecordErrorInv ==
  ASSUME IInv, RecordError
  PROVE  IInv' /\ (~tripped /\ tripped' => 2 * sinceReset' > MaxErrors)
<1>1. /\ Ordered' /\ Windowed'
      /\ Len(recorded') = Len(recorded) + 1 /\ Len(recorded) \in Nat
      /\ Len(errors) \in Nat /\ Len(errors') \in 0..(Len(errors) + 1)
  BY RecordFacts
<1>2. Hears'
  BY DEF IInv, Hears, RecordError
<1>3. /\ tripped' = ((tripped /\ ~Subsided(errors')) \/ Excessive(errors'))
      /\ sinceReset' = IF tripped /\ ~tripped' THEN 0 ELSE sinceReset + 1
      /\ sinceReset \in 0..Len(recorded) /\ tripped \in BOOLEAN /\ MaxErrors \in Nat
      /\ ~tripped => 2 * Len(errors) <= 2 * sinceReset + MaxErrors
  BY BreakerAssumption DEF RecordError, IInv, Decided
<1>4. tripped' \in BOOLEAN /\ sinceReset' \in 0..Len(recorded')
  <2>1. sinceReset' \in 0..Len(recorded')
    BY <1>1, <1>3
  <2> QED
    BY <1>3, <2>1
<1>5. Excessive(errors') => ~Subsided(errors')
  BY <1>1, <1>3 DEF Excessive, Subsided
<1>6. (Excessive(errors') => tripped') /\ (Subsided(errors') => ~tripped')
  BY <1>3, <1>5
<1>7. ~tripped' => 2 * Len(errors') <= 2 * sinceReset' + MaxErrors
  <2>1. CASE tripped /\ ~tripped'
    <3>1. Subsided(errors') /\ sinceReset' = 0
      BY <1>3, <2>1
    <3> QED
      BY <1>1, <1>3, <3>1 DEF Subsided
  <2>2. CASE ~tripped
    <3>1. sinceReset' = sinceReset + 1 /\ 2 * Len(errors) <= 2 * sinceReset + MaxErrors
      BY <1>3, <2>2
    <3> QED
      BY <1>1, <1>3, <3>1
  <2> QED
    BY <2>1, <2>2
<1>8. ~tripped /\ tripped' => 2 * sinceReset' > MaxErrors
  <2> SUFFICES ASSUME ~tripped, tripped'
               PROVE  2 * sinceReset' > MaxErrors
    OBVIOUS
  <2>1. Excessive(errors') /\ sinceReset' = sinceReset + 1
        /\ 2 * Len(errors) <= 2 * sinceReset + MaxErrors
    BY <1>3
  <2> QED
    BY <1>1, <1>3, <2>1 DEF Excessive
<1>9. Decided'
  BY <1>4, <1>6, <1>7 DEF Decided
<1> QED
  BY <1>1, <1>2, <1>8, <1>9 DEF IInv

LEMMA NextInv ==
  ASSUME IInv, [Next]_vars
  PROVE  IInv'
<1>1. CASE UNCHANGED vars
  BY <1>1 DEF vars, IInv, Hears, Ordered, Windowed, Decided, Excessive, Subsided
<1>2. CASE Next
  BY <1>2, TickInv, RecordErrorInv, TelemetryInv DEF Next
<1> QED
  BY <1>1, <1>2

-----------------------------------------------------------------------------
(* Theorems.                                                               *)

\* The inductive invariant holds in every reachable state.
THEOREM Invariance == Spec => []IInv
<1>1. Init => IInv
  BY InitInv
<1>2. IInv /\ [Next]_vars => IInv'
  BY NextInv
<1> QED
  BY <1>1, <1>2, PTL DEF Spec

\* A command passes the gate only for a device heard of recently by the clock
\* of the process, for every staleness and every deviation of its clock.
THEOREM GateMeansHeard == Spec => []ClosedMeansHeard
<1>1. IInv => ClosedMeansHeard
  <2> SUFFICES ASSUME IInv, NEW d \in Devices, ~IsOpen(d)
               PROVE  heard[d] # Never /\ now - heard[d] <= StaleAfter + MaxLead
    BY DEF ClosedMeansHeard
  <2>1. lastSeen[d] # Never /\ ~Stale(d)
    BY DEF IsOpen
  <2>2. /\ lastSeen[d] \in Int /\ heard[d] \in Nat /\ now \in Nat
        /\ lastSeen[d] <= heard[d] + MaxLead
    BY <2>1, BreakerAssumption DEF IInv, Hears, Stamps
  <2>3. ~(now - lastSeen[d] > StaleAfter)
    BY <2>1 DEF Stale
  <2>4. heard[d] # Never
    BY <2>2, BreakerAssumption
  <2>5. now - heard[d] <= StaleAfter + MaxLead
    BY <2>2, <2>3, BreakerAssumption
  <2> QED
    BY <2>4, <2>5
<1> QED
  BY <1>1, Invariance, PTL

\* The list kept across pushes, prunes and resets measures the rate of errors
\* of the whole history, for every window and threshold.
THEOREM RateIsMeasured == Spec => []RateDecides
<1>1. IInv => RateDecides
  <2> SUFFICES ASSUME IInv, recorded # <<>>
               PROVE  LET rate == RateAt(recorded[Len(recorded)])
                      IN  /\ rate > MaxErrors => tripped
                          /\ 2 * rate <= MaxErrors => ~tripped
    BY DEF RateDecides
  <2> DEFINE n == Len(recorded)
             k == Len(errors)
             last == recorded[n]
             hits == {i \in 1..n : last - Window <= recorded[i] /\ recorded[i] <= last}
  <2>1. /\ n \in Nat \ {0} /\ k \in Nat /\ k <= n
        /\ \A i \in 1..n : recorded[i] \in Nat /\ recorded[i] <= last
    <3>1. n \in Nat \ {0} /\ k \in Nat /\ k <= n /\ recorded \in Seq(Times)
      BY EmptySeq, LenProperties DEF IInv, Ordered, Windowed
    <3>2. \A i \in 1..n : recorded[i] \in Nat
      BY <3>1, TimesFacts
    <3> QED
      BY <3>1, <3>2 DEF IInv, Ordered
  <2>2. \A i \in 1..n : i > n - k => recorded[i] >= last - Window
    <3> SUFFICES ASSUME NEW i \in 1..n, i > n - k
                 PROVE  recorded[i] >= last - Window
      OBVIOUS
    <3>1. i - (n - k) \in 1..k /\ n - k + (i - (n - k)) = i
      BY <2>1
    <3> QED
      BY <3>1 DEF IInv, Windowed
  <2>3. \A i \in 1..n : ~(i > n - k) => recorded[i] < last - Window
    <3>1. \A i \in 1..n : ~(i > n - k) => i \in 1..(n - k)
      BY <2>1
    <3> QED
      BY <3>1 DEF IInv, Windowed
  <2>4. hits = (n - k + 1)..n
    <3>1. last \in Nat /\ Window \in Nat
      BY <2>1, BreakerAssumption
    <3> HIDE DEF n, k, last
    <3>2. \A i \in 1..n : i \in hits <=> i > n - k
      BY <2>1, <2>2, <2>3, <3>1
    <3> QED
      BY <2>1, <3>2
  <2>5. Cardinality(hits) = k
    <3> HIDE DEF n, k, hits
    <3>1. Cardinality((n - k + 1)..n) = IF n - k + 1 > n THEN 0 ELSE n - (n - k + 1) + 1
      BY <2>1, FS_Interval
    <3> QED
      BY <2>1, <2>4, <3>1
  <2>6. RateAt(last) = k
    BY <2>5 DEF RateAt
  <2> QED
    BY <2>6 DEF IInv, Decided, Excessive, Subsided
<1> QED
  BY <1>1, Invariance, PTL

\* From a reset to the next trip the breaker takes new errors in more than half
\* the number of the threshold, for every threshold.
THEOREM NoFlapping == Spec => Hysteresis
<1>1. IInv /\ [Next]_vars => [~tripped /\ tripped' => 2 * sinceReset' > MaxErrors]_vars
  <2>1. ASSUME IInv, Next
        PROVE  ~tripped /\ tripped' => 2 * sinceReset' > MaxErrors
    <3>1. CASE RecordError
      BY <2>1, <3>1, RecordErrorInv
    <3>2. CASE ~RecordError
      <4>1. tripped' = tripped
        BY <2>1, <3>2 DEF Next, Tick, RecordTelemetry
      <4> QED
        BY <4>1
    <3> QED
      BY <3>1, <3>2
  <2> QED
    BY <2>1
<1> QED
  BY <1>1, Invariance, PTL DEF Spec, Hysteresis
=============================================================================
