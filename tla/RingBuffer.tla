----------------------------- MODULE RingBuffer -----------------------------
(***************************************************************************)
(* utils/RingBuffer: a circular store with a head index and a count, which *)
(* drops the oldest item when it is full.                                  *)
(***************************************************************************)
EXTENDS Naturals, Sequences

CONSTANTS Capacity, Items, Empty   \* Empty: an unused slot (undefined)

Slots == 0..(Capacity - 1)

Rings == [store : [Slots -> Items \cup {Empty}], head : Slots, count : 0..Capacity]

EmptyRing == [store |-> [s \in Slots |-> Empty], head |-> 0, count |-> 0]

IsFull(r) == r.count = Capacity

\* The slot of the k-th oldest item, from 0.
SlotOf(r, k) == (r.head + k) % Capacity

\* What the buffer holds, oldest first.
Contents(r) == [k \in 1..r.count |-> r.store[SlotOf(r, k - 1)]]

\* Full, and the oldest item is overwritten but stays the head.
PushKeepsHead(r, x) ==
  [store |-> [r.store EXCEPT ![SlotOf(r, r.count)] = x],
   head  |-> r.head,
   count |-> IF IsFull(r) THEN r.count ELSE r.count + 1]

Push(r, x) ==
  [store |-> [r.store EXCEPT ![SlotOf(r, r.count)] = x],
   head  |-> IF IsFull(r) THEN SlotOf(r, 1) ELSE r.head,
   count |-> IF IsFull(r) THEN r.count ELSE r.count + 1]

\* How many items drain(n) takes.
Take(r, n) == IF n <= r.count THEN n ELSE r.count

\* drain(n): what it returns, and what it leaves with the slots cleared.
Drained(r, n) == [k \in 1..Take(r, n) |-> r.store[SlotOf(r, k - 1)]]

AfterDrain(r, n) ==
  [store |-> [s \in Slots |->
                IF \E k \in 0..(Take(r, n) - 1) : s = SlotOf(r, k)
                THEN Empty ELSE r.store[s]],
   head  |-> SlotOf(r, Take(r, n)),
   count |-> r.count - Take(r, n)]
=============================================================================
