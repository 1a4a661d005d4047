-------------------------- MODULE IngestionProofs --------------------------
(***************************************************************************)
(* Proofs about Ingestion and the ring buffer it is built on, for every    *)
(* capacity, batch size, burst size and set of adapters.                   *)
(***************************************************************************)
EXTENDS Ingestion, TLAPS, SequenceTheorems, FiniteSetTheorems

-----------------------------------------------------------------------------
(* The ring buffer.                                                        *)

\* Counting from a slot on wraps around at most once within a capacity.
LEMMA Wraps ==
  ASSUME NEW h \in Slots, NEW k \in 0..Capacity
  PROVE  (h + k) % Capacity = IF h + k < Capacity THEN h + k ELSE h + k - Capacity
<1>1. Capacity \in Nat \ {0} /\ h \in Nat /\ k \in Nat /\ h + k < 2 * Capacity
  BY IngestionAssumption DEF Slots
<1>2. CASE h + k < Capacity
  BY <1>1, <1>2
<1>3. CASE h + k >= Capacity
  BY <1>1, <1>3, SMTT(30)
<1> QED
  BY <1>1, <1>2, <1>3

\* The slots of the first Capacity items counted from the head are all the
\* slots, each once.
LEMMA SlotFacts ==
  ASSUME NEW r \in Rings
  PROVE  /\ \A k \in 0..Capacity : SlotOf(r, k) \in Slots
         /\ \A k, n \in 0..(Capacity - 1) : SlotOf(r, k) = SlotOf(r, n) => k = n
         /\ SlotOf(r, Capacity) = r.head /\ SlotOf(r, 0) = r.head
<1>1. Capacity \in Nat \ {0} /\ r.head \in Slots
  BY IngestionAssumption DEF Rings
<1>2. \A k \in 0..Capacity :
        SlotOf(r, k) = IF r.head + k < Capacity THEN r.head + k ELSE r.head + k - Capacity
  BY <1>1, Wraps DEF SlotOf
<1>3. r.head \in Nat /\ r.head < Capacity
  BY <1>1 DEF Slots
<1> QED
  BY <1>1, <1>2, <1>3 DEF Slots

\* A slot counted from a head that has moved on by j.
LEMMA ShiftedSlot ==
  ASSUME NEW r \in Rings, NEW s \in Rings, NEW j \in 0..Capacity, NEW k \in 0..Capacity,
         s.head = SlotOf(r, j), j + k <= Capacity
  PROVE  SlotOf(s, k) = SlotOf(r, j + k)
<1>1. Capacity \in Nat \ {0} /\ r.head \in Slots /\ s.head \in Slots /\ j + k \in 0..Capacity
  BY IngestionAssumption DEF Rings
<1>2. /\ SlotOf(s, k) = IF s.head + k < Capacity THEN s.head + k ELSE s.head + k - Capacity
      /\ SlotOf(r, j + k) = IF r.head + (j + k) < Capacity THEN r.head + (j + k)
                            ELSE r.head + (j + k) - Capacity
      /\ s.head = IF r.head + j < Capacity THEN r.head + j ELSE r.head + j - Capacity
  BY <1>1, Wraps DEF SlotOf
<1>3. r.head \in Nat /\ r.head < Capacity /\ s.head \in Nat /\ s.head < Capacity
  BY <1>1 DEF Slots
<1> QED
  BY <1>1, <1>2, <1>3

\* The contents of a ring: their number, and where each of them is stored.
LEMMA ContentsFacts ==
  ASSUME NEW r \in Rings
  PROVE  /\ Contents(r) \in Seq(Points \cup {Empty}) /\ Len(Contents(r)) = r.count
         /\ \A k \in 1..r.count : Contents(r)[k] = r.store[SlotOf(r, k - 1)]
<1>1. r.count \in Nat /\ r.count <= Capacity /\ Capacity \in Nat
  BY IngestionAssumption DEF Rings
<1>2. \A k \in 1..r.count : r.store[SlotOf(r, k - 1)] \in Points \cup {Empty}
  <2>1. \A k \in 1..r.count : k - 1 \in 0..Capacity
    BY <1>1
  <2> QED
    BY <2>1, SlotFacts DEF Rings
<1>3. Contents(r) \in [1..r.count -> Points \cup {Empty}]
  BY <1>2 DEF Contents
<1>4. Contents(r) \in Seq(Points \cup {Empty})
  BY <1>1, <1>3, SeqDef
<1>5. Len(Contents(r)) = r.count
  BY <1>1, <1>3, <1>4, LenProperties
<1> QED
  BY <1>4, <1>5 DEF Contents

\* push() appends, and drops the oldest item of a full buffer.
LEMMA PushFacts ==
  ASSUME NEW r \in Rings, NEW x \in Points, Contents(r) \in Seq(Points)
  PROVE  /\ Push(r, x) \in Rings
         /\ Push(r, x).count = IF IsFull(r) THEN r.count ELSE r.count + 1
         /\ Contents(Push(r, x)) \in Seq(Points)
         /\ Contents(Push(r, x)) =
              Append(IF Len(Contents(r)) = Capacity THEN Tail(Contents(r)) ELSE Contents(r), x)
<1> DEFINE s == Push(r, x)
<1>1. /\ Capacity \in Nat \ {0} /\ r.count \in 0..Capacity
      /\ r.store \in [Slots -> Points \cup {Empty}] /\ r.head \in Slots
  BY IngestionAssumption DEF Rings
<1>2. SlotOf(r, r.count) \in Slots /\ SlotOf(r, 1) \in Slots
  BY <1>1, SlotFacts
<1>3. /\ s.store = [r.store EXCEPT ![SlotOf(r, r.count)] = x]
      /\ s.head = IF IsFull(r) THEN SlotOf(r, 1) ELSE r.head
      /\ s.count = IF IsFull(r) THEN r.count ELSE r.count + 1
      /\ s \in Rings
  BY <1>1, <1>2 DEF Push, IsFull, Rings
<1> HIDE DEF s
<1>4. /\ Len(Contents(r)) = r.count /\ Len(Contents(s)) = s.count
      /\ \A k \in 1..r.count : Contents(r)[k] = r.store[SlotOf(r, k - 1)]
      /\ \A k \in 1..s.count : Contents(s)[k] = s.store[SlotOf(s, k - 1)]
      /\ Contents(s) \in Seq(Points \cup {Empty})
  BY <1>3, ContentsFacts
<1>5. CASE IsFull(r)
  <2> DEFINE q == Append(Tail(Contents(r)), x)
  <2>1. r.count = Capacity /\ s.count = Capacity /\ s.head = SlotOf(r, 1)
    BY <1>3, <1>5 DEF IsFull
  <2>2. Contents(r) # <<>>
    BY <1>1, <1>4, <2>1, EmptySeq
  <2>3. /\ Tail(Contents(r)) \in Seq(Points) /\ Len(Tail(Contents(r))) = Capacity - 1
        /\ \A k \in 1..(Capacity - 1) : Tail(Contents(r))[k] = Contents(r)[k + 1]
    BY <1>4, <2>1, <2>2, HeadTailProperties
  <2>4. /\ q \in Seq(Points) /\ Len(q) = Capacity
        /\ \A k \in 1..(Capacity - 1) : q[k] = Contents(r)[k + 1]
        /\ q[Capacity] = x
    BY <1>1, <2>3, AppendProperties
  <2> HIDE DEF q
  <2>5. ASSUME NEW k \in 1..Capacity PROVE Contents(s)[k] = q[k]
    <3>1. SlotOf(s, k - 1) = SlotOf(r, k)
      <4>1. k - 1 \in 0..Capacity /\ 1 + (k - 1) = k /\ 1 \in 0..Capacity
        BY <1>1
      <4> QED
        BY <1>1, <1>3, <2>1, <4>1, ShiftedSlot
    <3>2. Contents(s)[k] = s.store[SlotOf(r, k)]
      BY <1>4, <2>1, <3>1
    <3>3. SlotOf(r, r.count) = r.head /\ SlotOf(r, 0) = r.head /\ SlotOf(r, k) \in Slots
      BY <1>1, <2>1, SlotFacts
    <3>4. CASE k = Capacity
      BY <1>1, <1>3, <2>1, <2>4, <3>2, <3>3, <3>4
    <3>5. CASE k < Capacity
      <4>1. k \in 0..(Capacity - 1) /\ 0 \in 0..(Capacity - 1) /\ k # 0
        BY <1>1, <3>5
      <4>2. SlotOf(r, k) # r.head
        BY <3>3, <4>1, SlotFacts
      <4>3. s.store[SlotOf(r, k)] = r.store[SlotOf(r, k)]
        BY <1>1, <1>3, <3>3, <4>2
      <4>4. k + 1 \in 1..r.count /\ (k + 1) - 1 = k /\ k \in 1..(Capacity - 1)
        BY <1>1, <2>1, <3>5
      <4>5. q[k] = r.store[SlotOf(r, k)]
        BY <1>4, <2>4, <4>4
      <4> QED
        BY <3>2, <4>3, <4>5
    <3> QED
      BY <1>1, <3>4, <3>5
  <2>6. q \in Seq(Points \cup {Empty})
    BY <2>4, SeqMonotonic
  <2>7. Contents(s) = q
    BY <1>4, <2>1, <2>4, <2>5, <2>6, SeqEqual
  <2> QED
    BY <1>3, <1>4, <2>1, <2>4, <2>7 DEF s, q
<1>6. CASE ~IsFull(r)
  <2> DEFINE q == Append(Contents(r), x)
  <2>1. r.count < Capacity /\ s.count = r.count + 1 /\ s.head = r.head
    BY <1>1, <1>3, <1>6 DEF IsFull
  <2>2. /\ q \in Seq(Points) /\ Len(q) = r.count + 1
        /\ \A k \in 1..r.count : q[k] = Contents(r)[k]
        /\ q[r.count + 1] = x
    BY <1>4, AppendProperties
  <2> HIDE DEF q
  <2>3. ASSUME NEW k \in 1..(r.count + 1) PROVE Contents(s)[k] = q[k]
    <3>1. SlotOf(s, k - 1) = SlotOf(r, k - 1)
      BY <2>1 DEF SlotOf
    <3>2. Contents(s)[k] = s.store[SlotOf(r, k - 1)]
      BY <1>4, <2>1, <3>1
    <3>3. k - 1 \in 0..Capacity /\ SlotOf(r, k - 1) \in Slots
      BY <1>1, <2>1, SlotFacts
    <3>4. CASE k = r.count + 1
      <4>1. k - 1 = r.count
        BY <1>1, <3>4
      <4> QED
        BY <1>1, <1>2, <1>3, <2>2, <3>2, <3>4, <4>1
    <3>5. CASE k # r.count + 1
      <4>1. /\ k \in 1..r.count /\ k - 1 # r.count
            /\ k - 1 \in 0..(Capacity - 1) /\ r.count \in 0..(Capacity - 1)
        BY <1>1, <2>1, <3>5
      <4>2. SlotOf(r, k - 1) # SlotOf(r, r.count)
        BY <4>1, SlotFacts
      <4>3. s.store[SlotOf(r, k - 1)] = r.store[SlotOf(r, k - 1)]
        BY <1>1, <1>3, <3>3, <4>2
      <4> QED
        BY <1>4, <2>2, <3>2, <4>1, <4>3
    <3> QED
      BY <3>4, <3>5
  <2>4. q \in Seq(Points \cup {Empty})
    BY <2>2, SeqMonotonic
  <2>5. Contents(s) = q
    BY <1>4, <2>1, <2>2, <2>3, <2>4, SeqEqual
  <2> QED
    BY <1>3, <1>4, <2>1, <2>2, <2>5 DEF s, q
<1> QED
  BY <1>5, <1>6

\* drain(n) takes the n oldest items, or all of them, and leaves the others.
LEMMA DrainFacts ==
  ASSUME NEW r \in Rings, NEW n \in Nat, Contents(r) \in Seq(Points)
  PROVE  LET t == Take(r, n)
         IN  /\ t \in 0..r.count /\ t <= n /\ (t < n => t = r.count)
             /\ AfterDrain(r, n) \in Rings
             /\ AfterDrain(r, n).count = r.count - t
             /\ Drained(r, n) = SubSeq(Contents(r), 1, t)
             /\ Contents(AfterDrain(r, n)) = SubSeq(Contents(r), t + 1, Len(Contents(r)))
             /\ Drained(r, n) \in Seq(Points) /\ Len(Drained(r, n)) = t
             /\ Contents(AfterDrain(r, n)) \in Seq(Points)
<1> DEFINE t == Take(r, n)
           s == AfterDrain(r, n)
           c == Contents(r)
<1>1. /\ Capacity \in Nat \ {0} /\ r.count \in 0..Capacity
      /\ r.store \in [Slots -> Points \cup {Empty}] /\ r.head \in Slots
  BY IngestionAssumption DEF Rings
<1>2. t \in 0..r.count /\ t <= n /\ (t < n => t = r.count)
  BY <1>1 DEF Take
<1> HIDE DEF t
<1>3. SlotOf(r, t) \in Slots
  BY <1>1, <1>2, SlotFacts
<1>4. /\ s.store = [p \in Slots |-> IF \E k \in 0..(t - 1) : p = SlotOf(r, k)
                                    THEN Empty ELSE r.store[p]]
      /\ s.head = SlotOf(r, t) /\ s.count = r.count - t
      /\ s \in Rings
  BY <1>1, <1>2, <1>3 DEF AfterDrain, Rings, t
<1> HIDE DEF s
<1>5. /\ Len(c) = r.count
      /\ \A k \in 1..r.count : c[k] = r.store[SlotOf(r, k - 1)] /\ c[k] \in Points
  BY ContentsFacts, ElementOfSeq
<1>6. /\ Len(Contents(s)) = r.count - t /\ Contents(s) \in Seq(Points \cup {Empty})
      /\ \A k \in 1..(r.count - t) : Contents(s)[k] = s.store[SlotOf(s, k - 1)]
  BY <1>4, ContentsFacts
<1> DEFINE front == SubSeq(c, 1, t)
           back == SubSeq(c, t + 1, Len(c))
<1>7. /\ front \in Seq(Points) /\ Len(front) = t
      /\ \A k \in 1..t : front[k] = c[k]
  <2>1. \A k \in 1..t : c[k] \in Points
    BY <1>1, <1>2, <1>5
  <2>2. 1 \in Int /\ t \in Int /\ t - 1 + 1 = t
    BY <1>1, <1>2
  <2>3. /\ front \in Seq(Points) /\ Len(front) = IF 1 <= t THEN t - 1 + 1 ELSE 0
        /\ \A k \in 1..(t - 1 + 1) : front[k] = c[1 + k - 1]
    BY <2>1, <2>2, SubSeqProperties
  <2>4. \A k \in 1..t : 1 + k - 1 = k
    OBVIOUS
  <2> QED
    BY <1>1, <1>2, <2>2, <2>3, <2>4
<1>8. /\ back \in Seq(Points) /\ Len(back) = r.count - t
      /\ \A k \in 1..(r.count - t) : back[k] = c[t + k]
  <2>1. \A k \in (t + 1)..r.count : c[k] \in Points
    BY <1>1, <1>2, <1>5
  <2>2. /\ t + 1 \in Int /\ r.count \in Int /\ r.count - (t + 1) + 1 = r.count - t
        /\ \A k \in 1..(r.count - t) : (t + 1) + k - 1 = t + k
    BY <1>1, <1>2
  <2>3. back = SubSeq(c, t + 1, r.count)
    BY <1>5
  <2> HIDE DEF back
  <2>4. /\ SubSeq(c, t + 1, r.count) \in Seq(Points)
        /\ Len(SubSeq(c, t + 1, r.count)) =
             IF t + 1 <= r.count THEN r.count - (t + 1) + 1 ELSE 0
        /\ \A k \in 1..(r.count - (t + 1) + 1) :
             SubSeq(c, t + 1, r.count)[k] = c[(t + 1) + k - 1]
    BY <2>1, <2>2, SubSeqProperties
  <2>5. /\ back \in Seq(Points)
        /\ Len(back) = IF t + 1 <= r.count THEN r.count - (t + 1) + 1 ELSE 0
        /\ \A k \in 1..(r.count - (t + 1) + 1) : back[k] = c[(t + 1) + k - 1]
    BY <2>3, <2>4
  <2> QED
    BY <1>1, <1>2, <2>2, <2>5
<1> HIDE DEF front, back, c
<1>9. Drained(r, n) = front
  <2> DEFINE d == [k \in 1..t |-> r.store[SlotOf(r, k - 1)]]
  <2>1. \A k \in 1..t : k \in 1..r.count
    BY <1>1, <1>2
  <2>2. \A k \in 1..t : d[k] = front[k] /\ d[k] \in Points
    BY <1>5, <1>7, <2>1
  <2>3. d \in [1..t -> Points]
    BY <2>2, Zenon
  <2>4. t \in Nat
    BY <1>1, <1>2
  <2>5. d \in Seq(Points)
    BY <2>3, <2>4, SeqDef
  <2>6. Len(d) = t
    BY <2>3, <2>4, <2>5, LenProperties
  <2>7. d = front
    BY <1>7, <2>2, <2>5, <2>6, SeqEqual
  <2> QED
    BY <2>7 DEF Drained, t
<1>10. ASSUME NEW k \in 1..(r.count - t) PROVE Contents(s)[k] = back[k]
  <2>1. /\ k - 1 \in 0..Capacity /\ t \in 0..Capacity /\ t + (k - 1) <= Capacity
        /\ t + (k - 1) \in 0..(Capacity - 1) /\ t + k \in 1..r.count
        /\ (t + k) - 1 = t + (k - 1)
    <3>1. t \in Nat /\ r.count \in Nat /\ t <= r.count /\ r.count <= Capacity
          /\ k \in Nat /\ 1 <= k /\ k <= r.count - t
      BY <1>1, <1>2
    <3> QED
      BY <1>1, <3>1
  <2>2. SlotOf(s, k - 1) = SlotOf(r, t + (k - 1))
    BY <1>4, <2>1, ShiftedSlot
  <2>3. /\ SlotOf(r, t + (k - 1)) \in Slots
        /\ \A m \in 0..(t - 1) : SlotOf(r, t + (k - 1)) # SlotOf(r, m)
    <3>1. \A m \in 0..(t - 1) : m \in 0..(Capacity - 1) /\ m # t + (k - 1)
      BY <1>1, <1>2
    <3>2. t + (k - 1) \in 0..Capacity
      BY <2>1
    <3> QED
      BY <2>1, <3>1, <3>2, SlotFacts
  <2>4. s.store[SlotOf(r, t + (k - 1))] = r.store[SlotOf(r, t + (k - 1))]
    BY <1>4, <2>3
  <2>5. c[t + k] = r.store[SlotOf(r, t + (k - 1))]
    BY <1>5, <2>1
  <2> QED
    BY <1>6, <1>8, <2>2, <2>4, <2>5
<1>11. Contents(s) = back
  <2>1. back \in Seq(Points \cup {Empty})
    BY <1>8, SeqMonotonic
  <2> QED
    BY <1>6, <1>8, <1>10, <2>1, SeqEqual
<1> QED
  BY <1>2, <1>4, <1>7, <1>8, <1>9, <1>11 DEF t, s, c, front, back

-----------------------------------------------------------------------------
(* The invariant.  Beside the properties it holds that a scheduled drain   *)
(* finds something, and that a burst stays within its bound.  The metrics  *)
(* are accounted for below: nothing else depends on them.                  *)

IInv ==
  /\ TypeOK /\ HoldsTheLatest /\ NoStall
  /\ \A a \in Adapters : /\ Contents(buffer[a]) \in Seq(Points)
                         /\ draining[a] => buffer[a].count > 0
  /\ emitting \in Adapters =>
       remaining > 0 /\ arrived[emitting] + remaining <= MaxArrivals

\* The empty ring is a ring and holds nothing.
LEMMA EmptyFacts == EmptyRing \in Rings /\ EmptyRing.count = 0 /\ Contents(EmptyRing) = <<>>
<1>1. Capacity \in Nat \ {0}
  BY IngestionAssumption
<1>2. EmptyRing \in Rings /\ EmptyRing.count = 0
  BY <1>1 DEF EmptyRing, Rings, Slots
<1>3. Len(Contents(EmptyRing)) = 0 /\ Contents(EmptyRing) \in Seq(Points \cup {Empty})
  BY <1>2, ContentsFacts
<1> QED
  BY <1>2, <1>3, EmptySeq

\* The initial state: empty rings, nothing scheduled.
LEMMA InitInv == Init => IInv
<1> SUFFICES ASSUME Init PROVE IInv
  OBVIOUS
<1>1. \A a \in Adapters : buffer[a] = EmptyRing /\ ~draining[a] /\ ~paused[a]
  BY DEF Init
<1>2. TypeOK
  BY EmptyFacts, EmptySeq, IngestionAssumption DEF Init, TypeOK
<1>3. HoldsTheLatest
  BY <1>1, EmptyFacts DEF HoldsTheLatest
<1>4. NoStall
  BY <1>1, EmptyFacts DEF NoStall
<1>5. \A a \in Adapters : Contents(buffer[a]) \in Seq(Points)
  BY <1>1, EmptyFacts, EmptySeq
<1>6. emitting \notin Adapters
  BY IngestionAssumption DEF Init
<1> QED
  BY <1>1, <1>2, <1>3, <1>4, <1>5, <1>6 DEF IInv

\* A burst begins: only the emitter changes.
LEMMA EmitInv == ASSUME IInv, NEW a \in Adapters, Emit(a) PROVE IInv'
<1>1. PICK n \in 1..MaxBurst : arrived[a] + n <= MaxArrivals /\ remaining' = n
  BY DEF Emit
<1>2. /\ emitting' = a /\ buffer' = buffer /\ paused' = paused /\ draining' = draining
      /\ received' = received /\ normalized' = normalized /\ invalid' = invalid
      /\ dropped' = dropped /\ arrived' = arrived /\ handed' = handed
  BY DEF Emit, metrics
<1>3. n \in 0..MaxBurst /\ n > 0
  BY IngestionAssumption
<1>4. TypeOK'
  BY <1>1, <1>2, <1>3 DEF IInv, TypeOK
<1>5. HoldsTheLatest' /\ NoStall'
  BY <1>2 DEF IInv, HoldsTheLatest, NoStall
<1> QED
  BY <1>1, <1>2, <1>3, <1>4, <1>5 DEF IInv

\* What _enqueue of one point does to the buffer of its adapter.
LEMMA EnqueueFacts ==
  ASSUME IInv, NEW a \in Adapters, Enqueue(a)
  PROVE  \E p \in Points :
           /\ p.number = arrived[a] + 1
           /\ buffer' = [buffer EXCEPT ![a] = Push(buffer[a], p)]
           /\ buffer[a] \in Rings
           /\ Push(buffer[a], p) \in Rings
           /\ Push(buffer[a], p).count =
                IF buffer[a].count = Capacity THEN Capacity ELSE buffer[a].count + 1
           /\ Contents(Push(buffer[a], p)) \in Seq(Points)
           /\ Contents(Push(buffer[a], p)) =
                Append(IF Len(Contents(buffer[a])) = Capacity THEN Tail(Contents(buffer[a]))
                       ELSE Contents(buffer[a]), p)
<1>1. PICK valid \in BOOLEAN :
        buffer' = [buffer EXCEPT ![a] = Push(@, [number |-> arrived[a] + 1, valid |-> valid])]
  BY DEF Enqueue
<1> DEFINE p == [number |-> arrived[a] + 1, valid |-> valid]
<1>2. emitting = a
  BY DEF Enqueue
<1>3. arrived[a] \in 0..MaxArrivals /\ remaining \in 0..MaxBurst /\ buffer[a] \in Rings
  BY DEF IInv, TypeOK
<1>4. arrived[a] + 1 \in 1..MaxArrivals
  BY <1>2, <1>3, IngestionAssumption DEF IInv
<1>5. p \in Points /\ p.number = arrived[a] + 1
  BY <1>4 DEF Points
<1>6. Contents(buffer[a]) \in Seq(Points)
  BY DEF IInv
<1> HIDE DEF p
<1>7. /\ Push(buffer[a], p) \in Rings
      /\ Push(buffer[a], p).count = IF IsFull(buffer[a]) THEN buffer[a].count
                                    ELSE buffer[a].count + 1
      /\ Contents(Push(buffer[a], p)) \in Seq(Points)
      /\ Contents(Push(buffer[a], p)) =
           Append(IF Len(Contents(buffer[a])) = Capacity THEN Tail(Contents(buffer[a]))
                  ELSE Contents(buffer[a]), p)
  BY <1>3, <1>5, <1>6, PushFacts
<1>8. buffer' = [buffer EXCEPT ![a] = Push(buffer[a], p)]
  BY <1>1 DEF p
<1> QED
  BY <1>3, <1>5, <1>7, <1>8 DEF IsFull

\* HoldsTheLatest, adapter by adapter.
Latest(r, n) == \A k \in 1..r.count : Contents(r)[k].number = n - r.count + k

\* That the buffers hold the latest arrivals, one by one, here and next.
LEMMA LatestHere ==
  /\ HoldsTheLatest <=> \A a \in Adapters : Latest(buffer[a], arrived[a])
  /\ HoldsTheLatest' <=> \A a \in Adapters : Latest(buffer'[a], arrived'[a])
BY Zenon DEF HoldsTheLatest, Latest

\* The contents c of a buffer after a push of p.
Pushed(c, p) == Append(IF Len(c) = Capacity THEN Tail(c) ELSE c, p)

\* The appended point is numbered after all others.
LEMMA NumbersAfterPush ==
  ASSUME NEW c \in Seq(Points), NEW p \in Points, NEW m \in Nat,
         Len(c) <= Capacity, p.number = m + 1,
         \A k \in 1..Len(c) : c[k].number = m - Len(c) + k
  PROVE  \A k \in 1..Len(Pushed(c, p)) : Pushed(c, p)[k].number = (m + 1) - Len(Pushed(c, p)) + k
<1> DEFINE kept == IF Len(c) = Capacity THEN Tail(c) ELSE c
           d == Append(kept, p)
<1>1. Len(c) \in Nat /\ Capacity \in Nat \ {0}
  BY IngestionAssumption, LenProperties
<1>2. /\ kept \in Seq(Points) /\ Len(kept) \in Nat
      /\ \A k \in 1..Len(kept) : kept[k].number = m - Len(kept) + k
  <2>1. CASE Len(c) = Capacity
    <3>1. c # <<>>
      BY <1>1, <2>1, EmptySeq
    <3>2. /\ Tail(c) \in Seq(Points) /\ Len(Tail(c)) = Len(c) - 1
          /\ \A k \in 1..Len(Tail(c)) : Tail(c)[k] = c[k + 1]
      BY <3>1, HeadTailProperties
    <3>3. \A k \in 1..Len(Tail(c)) :
            k + 1 \in 1..Len(c) /\ m - Len(c) + (k + 1) = m - Len(Tail(c)) + k
      BY <1>1, <3>2
    <3> QED
      BY <1>1, <2>1, <3>2, <3>3
  <2>2. CASE Len(c) # Capacity
    BY <1>1, <2>2
  <2> QED
    BY <2>1, <2>2
<1> HIDE DEF kept
<1>3. /\ Len(d) = Len(kept) + 1 /\ d[Len(kept) + 1] = p
      /\ \A k \in 1..Len(kept) : d[k] = kept[k]
  BY <1>2, AppendProperties
<1> HIDE DEF d
<1>4. ASSUME NEW k \in 1..Len(d) PROVE d[k].number = (m + 1) - Len(d) + k
  <2>1. CASE k = Len(kept) + 1
    BY <1>2, <1>3, <2>1
  <2>2. CASE k # Len(kept) + 1
    <3>1. k \in 1..Len(kept) /\ (m + 1) - Len(d) + k = m - Len(kept) + k
      BY <1>2, <1>3, <2>2
    <3> QED
      BY <1>2, <1>3, <3>1
  <2> QED
    BY <2>1, <2>2
<1> QED
  BY <1>4 DEF d, kept, Pushed

\* A push of the next point keeps the buffer's latest points.
LEMMA LatestAfterPush ==
  ASSUME NEW s \in Rings, NEW x \in Points, NEW m \in Nat,
         Contents(s) \in Seq(Points), Latest(s, m), x.number = m + 1
  PROVE  Latest(Push(s, x), m + 1)
<1> DEFINE c == Contents(s)
           t == Push(s, x)
           d == Pushed(c, x)
<1>1. t \in Rings /\ Contents(t) = d
  BY PushFacts DEF Pushed
<1>2. Len(c) = s.count /\ Len(d) = t.count
  BY <1>1, ContentsFacts
<1>3. Len(c) <= Capacity
  BY <1>2, IngestionAssumption DEF Rings
<1>4. \A k \in 1..Len(c) : c[k].number = m - Len(c) + k
  BY <1>2 DEF Latest
<1> HIDE DEF c, t
<1>5. c \in Seq(Points)
  BY DEF c
<1>6. \A k \in 1..Len(d) : d[k].number = (m + 1) - Len(d) + k
  BY <1>3, <1>4, <1>5, NumbersAfterPush
<1> HIDE DEF d
<1>7. \A k \in 1..t.count : Contents(t)[k].number = (m + 1) - t.count + k
  BY <1>1, <1>2, <1>6
<1>8. Latest(t, m + 1)
  BY <1>7 DEF Latest
<1> QED
  BY <1>8 DEF t

\* One point is received.
LEMMA EnqueueInv == ASSUME IInv, NEW a \in Adapters, Enqueue(a) PROVE IInv'
<1>1. PICK p \in Points :
        /\ p.number = arrived[a] + 1
        /\ buffer' = [buffer EXCEPT ![a] = Push(buffer[a], p)]
        /\ buffer[a] \in Rings
        /\ Push(buffer[a], p) \in Rings
        /\ Push(buffer[a], p).count =
             IF buffer[a].count = Capacity THEN Capacity ELSE buffer[a].count + 1
        /\ Contents(Push(buffer[a], p)) \in Seq(Points)
        /\ Contents(Push(buffer[a], p)) =
             Append(IF Len(Contents(buffer[a])) = Capacity THEN Tail(Contents(buffer[a]))
                    ELSE Contents(buffer[a]), p)
  BY EnqueueFacts
<1> DEFINE r == Push(buffer[a], p)
<1> HIDE DEF r
<1>2. /\ emitting = a /\ remaining' = remaining - 1
      /\ emitting' = (IF remaining = 1 THEN Nobody ELSE a)
      /\ arrived' = [arrived EXCEPT ![a] = @ + 1]
      /\ received' = received + 1 /\ dropped' = Evict(a)
      /\ paused' = [paused EXCEPT ![a] = @ \/ IsFull(buffer'[a])]
      /\ draining' = [draining EXCEPT ![a] = TRUE]
      /\ normalized' = normalized /\ invalid' = invalid /\ handed' = handed
  BY DEF Enqueue
<1>3. /\ TypeOK /\ arrived[a] \in 0..MaxArrivals /\ remaining \in 0..MaxBurst
      /\ remaining > 0 /\ arrived[a] + remaining <= MaxArrivals
      /\ MaxBurst \in Nat /\ MaxArrivals \in Nat /\ Capacity \in Nat \ {0}
      /\ Nobody \notin Adapters
  BY <1>2, IngestionAssumption DEF IInv, TypeOK
<1>4. /\ buffer \in [Adapters -> Rings] /\ buffer' \in [Adapters -> Rings]
      /\ buffer'[a] = r /\ \A b \in Adapters \ {a} : buffer'[b] = buffer[b]
  BY <1>1, <1>3 DEF TypeOK, r
<1>5. /\ arrived' \in [Adapters -> 0..MaxArrivals] /\ arrived'[a] = arrived[a] + 1
      /\ \A b \in Adapters \ {a} : arrived'[b] = arrived[b]
  BY <1>2, <1>3 DEF TypeOK
<1>6. /\ draining' \in [Adapters -> BOOLEAN] /\ draining'[a]
      /\ \A b \in Adapters \ {a} : draining'[b] = draining[b]
  BY <1>2, <1>3 DEF TypeOK
<1>7. /\ paused' \in [Adapters -> BOOLEAN]
      /\ \A b \in Adapters \ {a} : paused'[b] = paused[b]
  BY <1>2, <1>3 DEF TypeOK, IsFull
<1>8. received' \in Nat /\ dropped' \in Nat
  BY <1>2, <1>3 DEF TypeOK, Evict
<1>9. remaining' \in 0..MaxBurst /\ emitting' \in Adapters \cup {Nobody}
  BY <1>2, <1>3
<1>10. TypeOK'
  BY <1>2, <1>3, <1>4, <1>5, <1>6, <1>7, <1>8, <1>9 DEF TypeOK
<1>11. /\ Contents(buffer[a]) \in Seq(Points) /\ Len(Contents(buffer[a])) = buffer[a].count
       /\ buffer[a].count \in Nat /\ buffer[a].count <= Capacity
       /\ Len(Contents(r)) = r.count /\ r.count > 0
  BY <1>1, <1>3, ContentsFacts DEF IInv, Rings, r
<1>12. HoldsTheLatest'
  <2>1. arrived[a] \in Nat /\ Latest(buffer[a], arrived[a])
    BY <1>3, LatestHere DEF IInv
  <2>2. Latest(Push(buffer[a], p), arrived[a] + 1)
    BY <1>1, <1>11, <2>1, LatestAfterPush
  <2>3. Latest(r, arrived[a] + 1)
    BY <2>2 DEF r
  <2>4. Latest(buffer'[a], arrived'[a])
    BY <1>4, <1>5, <2>3, Zenon
  <2>5. \A b \in Adapters : Latest(buffer[b], arrived[b])
    BY LatestHere DEF IInv
  <2>6. \A b \in Adapters \ {a} : Latest(buffer'[b], arrived'[b])
    BY <1>4, <1>5, <2>5, Zenon
  <2> QED
    BY <2>4, <2>6, LatestHere
<1>13. NoStall'
  BY <1>4, <1>6, <1>7 DEF IInv, NoStall
<1>14. \A b \in Adapters : Contents(buffer'[b]) \in Seq(Points)
                           /\ (draining'[b] => buffer'[b].count > 0)
  BY <1>1, <1>4, <1>6, <1>11 DEF IInv, r
<1>15. emitting' \in Adapters =>
         remaining' > 0 /\ arrived'[emitting'] + remaining' <= MaxArrivals
  BY <1>2, <1>3, <1>5
<1> QED
  BY <1>10, <1>12, <1>13, <1>14, <1>15 DEF IInv

\* What a drain leaves is still the latest points.
LEMMA LatestAfterDrain ==
  ASSUME NEW s \in Rings, NEW n \in Nat, NEW m \in Nat,
         Contents(s) \in Seq(Points), Latest(s, m)
  PROVE  Latest(AfterDrain(s, n), m)
<1> DEFINE c == Contents(s)
           t == Take(s, n)
           u == AfterDrain(s, n)
<1>1. /\ t \in 0..s.count /\ u.count = s.count - t
      /\ Contents(u) = SubSeq(c, t + 1, Len(c))
  BY DrainFacts
<1>2. Len(c) = s.count /\ s.count \in Nat
  BY ContentsFacts DEF Rings
<1>3. \A k \in 1..s.count : c[k].number = m - s.count + k /\ c[k] \in Points
  BY <1>2, ElementOfSeq DEF Latest
<1> HIDE DEF c, t, u
<1>4. ASSUME NEW k \in 1..u.count PROVE Contents(u)[k].number = m - u.count + k
  <2>1. /\ t \in Nat /\ t + 1 \in Int /\ s.count \in Int /\ u.count \in Nat
        /\ k \in 1..(s.count - (t + 1) + 1) /\ (t + 1) + k - 1 = t + k
        /\ t + k \in 1..s.count /\ m - s.count + (t + k) = m - u.count + k
    BY <1>1, <1>2
  <2>2. \A j \in (t + 1)..s.count : c[j] \in Points
    BY <1>2, <1>3, <2>1
  <2>3. SubSeq(c, t + 1, s.count)[k] = c[(t + 1) + k - 1]
    BY <2>1, <2>2, SubSeqProperties
  <2>4. Contents(u)[k] = c[t + k]
    BY <1>1, <1>2, <2>1, <2>3
  <2> QED
    BY <1>3, <2>1, <2>4
<1>5. Latest(u, m)
  BY <1>4 DEF Latest
<1> QED
  BY <1>5 DEF u

\* A batch contains at most as many acceptable points as points.
LEMMA AcceptedFacts ==
  ASSUME NEW batch \in Seq(Points)
  PROVE  Accepted(batch) \in Nat /\ Accepted(batch) <= Len(batch)
<1> DEFINE S == {k \in 1..Len(batch) : batch[k].valid}
<1>1. Len(batch) \in Nat
  BY LenProperties
<1>2. IsFiniteSet(1..Len(batch)) /\ Cardinality(1..Len(batch)) = Len(batch)
  <2>1. /\ IsFiniteSet(1..Len(batch))
        /\ Cardinality(1..Len(batch)) = IF 1 > Len(batch) THEN 0 ELSE Len(batch) - 1 + 1
    BY <1>1, FS_Interval
  <2> QED
    BY <1>1, <2>1
<1>3. S \subseteq 1..Len(batch)
  OBVIOUS
<1> HIDE DEF S
<1>4. IsFiniteSet(S) /\ Cardinality(S) <= Cardinality(1..Len(batch))
  BY <1>2, <1>3, FS_Subset
<1>5. Cardinality(S) \in Nat
  BY <1>4, FS_CardinalityType
<1> QED
  BY <1>2, <1>4, <1>5 DEF Accepted, S

\* What a drain step does to its adapter.
LEMMA DrainStep ==
  ASSUME IInv, NEW a \in Adapters, Drain(a)
  PROVE  /\ BatchSize \in Nat \ {0} /\ buffer[a] \in Rings /\ buffer[a].count > 0
         /\ Contents(buffer[a]) \in Seq(Points)
         /\ Drained(buffer[a], BatchSize) \in Seq(Points)
         /\ buffer' = [buffer EXCEPT ![a] = AfterDrain(buffer[a], BatchSize)]
         /\ AfterDrain(buffer[a], BatchSize) \in Rings
         /\ AfterDrain(buffer[a], BatchSize).count \in Nat
         /\ Contents(AfterDrain(buffer[a], BatchSize)) \in Seq(Points)
<1>1. BatchSize \in Nat \ {0} /\ buffer[a] \in Rings /\ Contents(buffer[a]) \in Seq(Points)
  BY IngestionAssumption DEF IInv, TypeOK
<1>2. draining[a] /\ buffer[a].count > 0
  BY DEF Drain, IInv
<1>3. buffer' = [buffer EXCEPT ![a] = AfterDrain(buffer[a], BatchSize)]
  BY DEF Drain
<1>4. /\ Drained(buffer[a], BatchSize) \in Seq(Points)
      /\ AfterDrain(buffer[a], BatchSize) \in Rings
      /\ Contents(AfterDrain(buffer[a], BatchSize)) \in Seq(Points)
  BY <1>1, DrainFacts
<1>5. AfterDrain(buffer[a], BatchSize).count \in Nat
  BY <1>4 DEF Rings
<1> QED
  BY <1>1, <1>2, <1>3, <1>4, <1>5

\* One batch is drained.
LEMMA DrainInv == ASSUME IInv, NEW a \in Adapters, Drain(a) PROVE IInv'
<1> DEFINE r == AfterDrain(buffer[a], BatchSize)
           batch == Drained(buffer[a], BatchSize)
<1>1. /\ buffer[a] \in Rings /\ buffer[a].count > 0 /\ BatchSize \in Nat
      /\ Contents(buffer[a]) \in Seq(Points) /\ batch \in Seq(Points)
      /\ buffer' = [buffer EXCEPT ![a] = r]
      /\ r \in Rings /\ r.count \in Nat /\ Contents(r) \in Seq(Points)
  BY DrainStep
<1>2. /\ emitting' = emitting /\ remaining' = remaining /\ emitting = Nobody
      /\ received' = received /\ dropped' = dropped /\ arrived' = arrived
      /\ handed' = [handed EXCEPT ![a] = @ \o batch]
      /\ normalized' = normalized + Accepted(batch)
      /\ invalid' = invalid + (Len(batch) - Accepted(batch))
      /\ paused' = [paused EXCEPT ![a] = paused[a] /\ buffer'[a].count > LowWater]
      /\ draining' = [draining EXCEPT ![a] = buffer'[a].count > 0]
  BY DEF Drain, StaysPaused, DrainsOn
<1>3. TypeOK /\ Nobody \notin Adapters /\ LowWater \in Nat
  BY IngestionAssumption DEF IInv, LowWater
<1> HIDE DEF r, batch
<1>4. /\ buffer' \in [Adapters -> Rings] /\ buffer'[a] = r
      /\ \A b \in Adapters \ {a} : buffer'[b] = buffer[b]
  BY <1>1, <1>3 DEF TypeOK
<1>5. /\ paused' \in [Adapters -> BOOLEAN] /\ draining' \in [Adapters -> BOOLEAN]
      /\ paused'[a] = (paused[a] /\ r.count > LowWater) /\ draining'[a] = (r.count > 0)
      /\ \A b \in Adapters \ {a} : paused'[b] = paused[b] /\ draining'[b] = draining[b]
  <2>1. /\ paused' = [paused EXCEPT ![a] = paused[a] /\ r.count > LowWater]
        /\ draining' = [draining EXCEPT ![a] = r.count > 0]
    BY <1>2, <1>4
  <2>2. paused \in [Adapters -> BOOLEAN] /\ draining \in [Adapters -> BOOLEAN]
    BY <1>3 DEF TypeOK
  <2> QED
    BY <2>1, <2>2
<1>6. handed' \in [Adapters -> Seq(Points)]
  <2>1. handed \in [Adapters -> Seq(Points)]
    BY <1>3 DEF TypeOK
  <2>2. handed[a] \o batch \in Seq(Points)
    BY <1>1, <2>1, ConcatProperties
  <2> QED
    BY <1>2, <2>1, <2>2
<1>7. normalized' \in Nat /\ invalid' \in Nat
  <2>1. Accepted(batch) \in Nat /\ Len(batch) \in Nat /\ Accepted(batch) <= Len(batch)
    BY <1>1, AcceptedFacts, LenProperties
  <2> QED
    BY <1>2, <1>3, <2>1 DEF TypeOK
<1>8. TypeOK'
  BY <1>2, <1>3, <1>4, <1>5, <1>6, <1>7 DEF TypeOK
<1>9. HoldsTheLatest'
  <2>1. \A b \in Adapters : Latest(buffer[b], arrived[b])
    BY LatestHere DEF IInv
  <2>2. arrived[a] \in Nat
    BY <1>3, IngestionAssumption DEF TypeOK
  <2>3. Latest(r, arrived[a])
    BY <1>1, <2>1, <2>2, LatestAfterDrain DEF r
  <2>4. \A b \in Adapters : Latest(buffer'[b], arrived'[b])
    BY <1>2, <1>4, <2>1, <2>3, Zenon
  <2> QED
    BY <2>4, LatestHere
<1>10. NoStall'
  <2>1. r.count > LowWater => r.count > 0
    BY <1>1, <1>3
  <2> QED
    BY <1>4, <1>5, <2>1 DEF IInv, NoStall
<1>11. \A b \in Adapters : Contents(buffer'[b]) \in Seq(Points)
                           /\ (draining'[b] => buffer'[b].count > 0)
  BY <1>1, <1>4, <1>5 DEF IInv
<1> QED
  BY <1>2, <1>3, <1>8, <1>9, <1>10, <1>11 DEF IInv

\* Every step of the specification preserves the invariant.
LEMMA NextInv == IInv /\ [Next]_vars => IInv'
<1> SUFFICES ASSUME IInv, [Next]_vars PROVE IInv'
  OBVIOUS
<1>1. CASE Next
  BY <1>1, EmitInv, EnqueueInv, DrainInv DEF Next
<1>2. CASE UNCHANGED vars
  <2>1. /\ buffer' = buffer /\ paused' = paused /\ draining' = draining
        /\ emitting' = emitting /\ remaining' = remaining /\ received' = received
        /\ normalized' = normalized /\ invalid' = invalid /\ dropped' = dropped
        /\ arrived' = arrived /\ handed' = handed
    BY <1>2 DEF vars, metrics
  <2> QED
    BY <2>1 DEF IInv, TypeOK, HoldsTheLatest, NoStall
<1> QED
  BY <1>1, <1>2

-----------------------------------------------------------------------------
(* The metrics.                                                            *)

\* A buffer that changes its count by some points changes what waits by as many.
LEMMA PlacesChange ==
  ASSUME NEW b \in [Adapters -> Rings], NEW d \in [Adapters -> Rings], NEW a \in Adapters,
         \A x \in Adapters \ {a} : d[x] = b[x]
  PROVE  /\ Cardinality(Places(b)) \in Nat /\ Cardinality(Places(d)) \in Nat
         /\ b[a].count \in Nat /\ d[a].count \in Nat
         /\ Cardinality(Places(d)) + b[a].count = Cardinality(Places(b)) + d[a].count
<1> DEFINE rest == {p \in Adapters \X (1..Capacity) : p[2] <= b[p[1]].count /\ p[1] # a}
           first(n) == {a} \X (1..n)
<1>1. Capacity \in Nat \ {0} /\ IsFiniteSet(Adapters)
  BY IngestionAssumption
<1>2. b[a].count \in 0..Capacity /\ d[a].count \in 0..Capacity
  BY DEF Rings
<1>3. IsFiniteSet(rest)
  <2>1. IsFiniteSet(1..Capacity)
    BY <1>1, FS_Interval
  <2>2. IsFiniteSet(Adapters \X (1..Capacity))
    BY <1>1, <2>1, FS_Product
  <2>3. rest \in SUBSET (Adapters \X (1..Capacity))
    OBVIOUS
  <2> HIDE DEF rest
  <2> QED
    BY <2>2, <2>3, FS_Subset
<1>4. ASSUME NEW n \in 0..Capacity
      PROVE  /\ IsFiniteSet(first(n)) /\ Cardinality(first(n)) = n /\ rest \cap first(n) = {}
  <2>1. IsFiniteSet(1..n) /\ Cardinality(1..n) = n
    <3>1. n \in Int /\ (IF 1 > n THEN 0 ELSE n - 1 + 1) = n
      OBVIOUS
    <3> QED
      BY <3>1, FS_Interval
  <2>2. IsFiniteSet({a}) /\ Cardinality({a}) = 1
    BY FS_Singleton
  <2>3. IsFiniteSet(first(n)) /\ Cardinality(first(n)) = 1 * n
    <3> DEFINE S == {a}
               T == 1..n
    <3> HIDE DEF S, T
    <3>1. IsFiniteSet(S \X T) /\ Cardinality(S \X T) = Cardinality(S) * Cardinality(T)
      BY <2>1, <2>2, FS_Product DEF S, T
    <3>2. first(n) = S \X T /\ Cardinality(S) = 1 /\ Cardinality(T) = n
      BY <2>1, <2>2 DEF S, T
    <3> QED
      BY <3>1, <3>2
  <2>4. rest \cap first(n) = {}
    OBVIOUS
  <2> QED
    BY <2>3, <2>4
<1>5. Places(b) = rest \cup first(b[a].count)
  BY <1>1, <1>2 DEF Places
<1>6. Places(d) = rest \cup first(d[a].count)
  BY <1>1, <1>2 DEF Places
<1> HIDE DEF rest, first
<1>7. Cardinality(rest) \in Nat
  BY <1>3, FS_CardinalityType
<1>8. ASSUME NEW n \in 0..Capacity
      PROVE  Cardinality(rest \cup first(n)) = Cardinality(rest) + n
  <2>1. Cardinality(rest \cup first(n)) =
          Cardinality(rest) + Cardinality(first(n)) - Cardinality(rest \cap first(n))
    BY <1>3, <1>4, FS_Union
  <2>2. Cardinality(rest \cap first(n)) = 0 /\ Cardinality(first(n)) = n
    BY <1>4, FS_EmptySet
  <2> QED
    BY <1>7, <2>1, <2>2
<1>9. /\ Cardinality(Places(b)) = Cardinality(rest) + b[a].count
      /\ Cardinality(Places(d)) = Cardinality(rest) + d[a].count
  BY <1>2, <1>5, <1>6, <1>8
<1> QED
  BY <1>2, <1>7, <1>9

\* Nothing waits in empty rings.
LEMMA AccountedInit ==
  ASSUME Init
  PROVE  Accounted
<1>1. \A a \in Adapters : buffer[a].count = 0
  BY EmptyFacts DEF Init
<1>2. Places(buffer) = {}
  BY <1>1, IngestionAssumption DEF Places
<1>3. Waiting = 0
  BY <1>2, FS_EmptySet DEF Waiting
<1>4. received = 0 /\ normalized = 0 /\ invalid = 0 /\ dropped = 0
  BY DEF Init
<1> QED
  BY <1>3, <1>4 DEF Accounted

\* A point that is received waits, and the one it evicts is counted as dropped.
LEMMA AccountedEnqueue ==
  ASSUME IInv, Accounted, NEW a \in Adapters, Enqueue(a)
  PROVE  Accounted'
<1>1. PICK p \in Points :
        /\ buffer' = [buffer EXCEPT ![a] = Push(buffer[a], p)]
        /\ buffer[a] \in Rings /\ Push(buffer[a], p) \in Rings
        /\ Push(buffer[a], p).count =
             IF buffer[a].count = Capacity THEN Capacity ELSE buffer[a].count + 1
  BY EnqueueFacts
<1> DEFINE r == Push(buffer[a], p)
<1> HIDE DEF r
<1>2. /\ buffer \in [Adapters -> Rings] /\ buffer' \in [Adapters -> Rings]
      /\ buffer'[a] = r /\ \A x \in Adapters \ {a} : buffer'[x] = buffer[x]
  BY <1>1 DEF IInv, TypeOK, r
<1>3. r.count = IF buffer[a].count = Capacity THEN Capacity ELSE buffer[a].count + 1
  BY <1>1 DEF r
<1>4. /\ Cardinality(Places(buffer)) \in Nat /\ Cardinality(Places(buffer')) \in Nat
      /\ buffer[a].count \in Nat
      /\ Cardinality(Places(buffer')) + buffer[a].count = Cardinality(Places(buffer)) + r.count
  BY <1>2, PlacesChange
<1>5. /\ received' = received + 1 /\ normalized' = normalized /\ invalid' = invalid
      /\ dropped' = IF buffer[a].count = Capacity THEN dropped + 1 ELSE dropped
  BY DEF Enqueue, Evict, IsFull
<1>6. /\ received \in Nat /\ normalized \in Nat /\ invalid \in Nat /\ dropped \in Nat
      /\ received = normalized + invalid + dropped + Cardinality(Places(buffer))
  BY DEF IInv, TypeOK, Accounted, Waiting
<1>7. received' = normalized' + invalid' + dropped' + Cardinality(Places(buffer'))
  <2>1. Capacity \in Nat
    BY IngestionAssumption
  <2> QED
    BY <1>3, <1>4, <1>5, <1>6, <2>1
<1> QED
  BY <1>7 DEF Accounted, Waiting

\* What leaves a buffer with a batch is counted as normalized or as invalid.
LEMMA AccountedDrain ==
  ASSUME IInv, Accounted, NEW a \in Adapters, Drain(a)
  PROVE  Accounted'
<1> DEFINE r == AfterDrain(buffer[a], BatchSize)
           batch == Drained(buffer[a], BatchSize)
<1>1. /\ buffer[a] \in Rings /\ BatchSize \in Nat /\ Contents(buffer[a]) \in Seq(Points)
      /\ buffer' = [buffer EXCEPT ![a] = r] /\ r \in Rings /\ batch \in Seq(Points)
  BY DrainStep
<1>2. Take(buffer[a], BatchSize) \in 0..buffer[a].count
      /\ r.count = buffer[a].count - Take(buffer[a], BatchSize)
      /\ Len(batch) = Take(buffer[a], BatchSize)
  BY <1>1, DrainFacts
<1>3. /\ received' = received /\ dropped' = dropped
      /\ normalized' = normalized + Accepted(batch)
      /\ invalid' = invalid + (Len(batch) - Accepted(batch))
  BY DEF Drain
<1>4. Accepted(batch) \in Nat /\ Accepted(batch) <= Len(batch) /\ Len(batch) \in Nat
  BY <1>1, AcceptedFacts, LenProperties
<1> HIDE DEF r, batch
<1>5. /\ buffer \in [Adapters -> Rings] /\ buffer' \in [Adapters -> Rings]
      /\ buffer'[a] = r /\ \A x \in Adapters \ {a} : buffer'[x] = buffer[x]
  BY <1>1 DEF IInv, TypeOK
<1>6. /\ Cardinality(Places(buffer)) \in Nat /\ Cardinality(Places(buffer')) \in Nat
      /\ buffer[a].count \in Nat /\ r.count \in Nat
      /\ Cardinality(Places(buffer')) + buffer[a].count = Cardinality(Places(buffer)) + r.count
  BY <1>5, PlacesChange
<1>7. /\ received \in Nat /\ normalized \in Nat /\ invalid \in Nat /\ dropped \in Nat
      /\ received = normalized + invalid + dropped + Cardinality(Places(buffer))
  BY DEF IInv, TypeOK, Accounted, Waiting
<1>8. r.count = buffer[a].count - Len(batch)
  BY <1>2 DEF r, batch
<1>9. received' = normalized' + invalid' + dropped' + Cardinality(Places(buffer'))
  <2> DEFINE w == Cardinality(Places(buffer))
             w1 == Cardinality(Places(buffer'))
             n == Len(batch)
             m == Accepted(batch)
             c == buffer[a].count
  <2>1. /\ w \in Nat /\ w1 \in Nat /\ n \in Nat /\ m \in Nat /\ c \in Nat
        /\ w1 + c = w + (c - n)
        /\ received = normalized + invalid + dropped + w
        /\ normalized' = normalized + m /\ invalid' = invalid + (n - m)
    BY <1>3, <1>4, <1>6, <1>7, <1>8
  <2> HIDE DEF w, w1, n, m, c
  <2>2. w1 = w - n
    BY <2>1
  <2>3. received' = normalized' + invalid' + dropped' + w1
    BY <1>3, <1>7, <2>1, <2>2
  <2> QED
    BY <2>3 DEF w1
<1> QED
  BY <1>9 DEF Accounted, Waiting

LEMMA AccountedNext ==
  ASSUME IInv, Accounted, [Next]_vars
  PROVE  Accounted'
<1>1. ASSUME UNCHANGED <<buffer, metrics>>
      PROVE  Accounted'
  BY <1>1 DEF metrics, Accounted, Waiting
<1>2. CASE UNCHANGED vars
  BY <1>1, <1>2 DEF vars
<1>3. ASSUME NEW a \in Adapters, Emit(a)
      PROVE  Accounted'
  BY <1>1, <1>3 DEF Emit
<1> QED
  BY <1>2, <1>3, AccountedEnqueue, AccountedDrain DEF Next

-----------------------------------------------------------------------------
(* The theorems.                                                           *)

\* The inductive invariant holds in every reachable state.
THEOREM Invariance == Spec => []IInv
BY InitInv, NextInv, PTL DEF Spec

\* Every variable of IngestionManager stays in its type.
THEOREM TypeCorrect == Spec => []TypeOK
<1>1. IInv => TypeOK
  BY DEF IInv
<1> QED
  BY <1>1, Invariance, PTL

\* Whatever the capacity and the interleaving of bursts and drains, a buffer
\* holds the latest arrivals: RingBuffer.push evicts the oldest only.
THEOREM OnlyTheOldestAreLost == Spec => []HoldsTheLatest
<1>1. IInv => HoldsTheLatest
  BY DEF IInv
<1> QED
  BY <1>1, Invariance, PTL

\* A paused adapter, or one with points that wait, always has its drain
\* callback scheduled: nothing in _enqueue and _drain leaves it stuck.
THEOREM NothingStalls == Spec => []NoStall
<1>1. IInv => NoStall
  BY DEF IInv
<1> QED
  BY <1>1, Invariance, PTL

\* Every point the manager received is in exactly one of the metrics or waits in
\* a buffer, for any number of adapters, bursts and batches.
THEOREM NothingUncounted == Spec => []Accounted
<1>1. Accounted /\ IInv /\ [Next]_vars => Accounted'
  BY AccountedNext
<1> QED
  BY <1>1, AccountedInit, Invariance, PTL DEF Spec

\* The queues the buffers stand for, cell by cell.
LEMMA HeldCells ==
  /\ \A b \in Adapters : Held[b] = Contents(buffer[b])
  /\ \A b \in Adapters : \A x :
       buffer' = [buffer EXCEPT ![b] = x] /\ buffer \in [Adapters -> Rings]
         => Held' = [Held EXCEPT ![b] = Contents(x)]
  /\ buffer' = buffer => Held' = Held
<1>1. ASSUME NEW b \in Adapters, NEW x, buffer' = [buffer EXCEPT ![b] = x],
             buffer \in [Adapters -> Rings]
      PROVE  Held' = [Held EXCEPT ![b] = Contents(x)]
  <2>1. buffer'[b] = x /\ \A d \in Adapters \ {b} : buffer'[d] = buffer[d]
    BY <1>1
  <2>2. Held' = [d \in Adapters |-> Contents(buffer'[d])]
    BY DEF Held
  <2>3. Held = [d \in Adapters |-> Contents(buffer[d])]
    BY DEF Held
  <2> QED
    BY <2>1, <2>2, <2>3
<1>2. buffer' = buffer => Held' = Held
  <2>1. Held' = [d \in Adapters |-> Contents(buffer'[d])]
    BY DEF Held
  <2> QED
    BY <2>1 DEF Held
<1> QED
  BY <1>1, <1>2 DEF Held

\* Every step of the ring buffers and the drain loops is a step of the lossy
\* queues: an arrival appends and costs at most the oldest point, a drain
\* hands the oldest points on, in order, in full batches or to the last point.
THEOREM QueuesAreImplemented == Spec => ImplementsQueues
<1>1. Init => Queues!Init
  <2> SUFFICES ASSUME Init PROVE Queues!Init
    OBVIOUS
  <2>1. Held = [a \in Adapters |-> <<>>]
    BY EmptyFacts DEF Init, Held
  <2> QED
    BY <2>1 DEF Init, Queues!Init
<1>2. ASSUME IInv, [Next]_vars PROVE [Queues!Next]_(Queues!qvars)
  <2>1. buffer \in [Adapters -> Rings] /\ handed \in [Adapters -> Seq(Points)]
    BY <1>2 DEF IInv, TypeOK
  <2>2. ASSUME NEW a \in Adapters, Emit(a) PROVE UNCHANGED Queues!qvars
    <3>1. buffer' = buffer /\ handed' = handed
      BY <2>2 DEF Emit
    <3> QED
      BY <3>1, HeldCells DEF Queues!qvars
  <2>3. ASSUME NEW a \in Adapters, Enqueue(a) PROVE Queues!Next
    <3>1. PICK p \in Points :
            /\ buffer' = [buffer EXCEPT ![a] = Push(buffer[a], p)]
            /\ Contents(Push(buffer[a], p)) = Pushed(Contents(buffer[a]), p)
      BY <1>2, <2>3, EnqueueFacts DEF Pushed
    <3>2. Held' = [Held EXCEPT ![a] = Pushed(Held[a], p)]
      BY <2>1, <3>1, HeldCells, Zenon
    <3>3. handed' = handed
      BY <2>3 DEF Enqueue
    <3>4. Queues!Arrive(a, p)
      BY <3>2, <3>3 DEF Queues!Arrive, Queues!Kept, Pushed
    <3> QED
      BY <3>4 DEF Queues!Next
  <2>4. ASSUME NEW a \in Adapters, Drain(a) PROVE Queues!Next
    <3> DEFINE c == Contents(buffer[a])
               t == Take(buffer[a], BatchSize)
    <3>1. /\ BatchSize \in Nat \ {0} /\ buffer[a] \in Rings /\ buffer[a].count > 0
          /\ c \in Seq(Points) /\ Len(c) = buffer[a].count
          /\ buffer' = [buffer EXCEPT ![a] = AfterDrain(buffer[a], BatchSize)]
      BY <1>2, <2>4, DrainStep, ContentsFacts
    <3>2. /\ t \in 0..buffer[a].count /\ t <= BatchSize
          /\ (t < BatchSize => t = buffer[a].count)
          /\ Drained(buffer[a], BatchSize) = SubSeq(c, 1, t)
          /\ Contents(AfterDrain(buffer[a], BatchSize)) = SubSeq(c, t + 1, Len(c))
      BY <3>1, DrainFacts
    <3>3. handed' = [handed EXCEPT ![a] = @ \o Drained(buffer[a], BatchSize)]
      BY <2>4 DEF Drain
    <3>4. Held[a] = c
      BY HeldCells
    <3> HIDE DEF c, t
    <3>5. Held' = [Held EXCEPT ![a] = SubSeq(c, t + 1, Len(c))]
      BY <2>1, <3>1, <3>2, HeldCells, Zenon
    <3>6. handed' = [handed EXCEPT ![a] = @ \o SubSeq(c, 1, t)]
      BY <3>2, <3>3
    <3>7. t \in 1..BatchSize /\ t <= Len(c) /\ (t < BatchSize => t = Len(c))
      <4>1. buffer[a].count \in Nat
        BY <3>1, LenProperties
      <4> QED
        BY <3>1, <3>2, <4>1
    <3>8. Queues!HandOn(a, t)
      BY <3>4, <3>5, <3>6, <3>7 DEF Queues!HandOn
    <3> QED
      BY <3>7, <3>8 DEF Queues!Next
  <2>5. CASE Next
    BY <2>2, <2>3, <2>4, <2>5 DEF Next
  <2>6. CASE UNCHANGED vars
    <3>1. buffer' = buffer /\ handed' = handed
      BY <2>6 DEF vars
    <3> QED
      BY <3>1, HeldCells DEF Queues!qvars
  <2> QED
    BY <1>2, <2>5, <2>6
<1>3. QED
  BY <1>1, <1>2, Invariance, PTL DEF Spec, ImplementsQueues, Queues!Spec
=============================================================================
