----------------------------- MODULE LossyQueue -----------------------------
(***************************************************************************)
(* What IngestionManager promises: the points of an adapter wait in the    *)
(* order of their arrival, a burst beyond the capacity costs the oldest of *)
(* them and nothing else, they are handed on in batches of bounded size,   *)
(* in order, and no adapter's points are touched by another's.             *)
(***************************************************************************)
EXTENDS Naturals, Sequences

CONSTANTS Adapters, Capacity, BatchSize, Points

VARIABLES waiting,   \* the points of each adapter that wait, oldest first
          handed     \* its points handed on, in that order

qvars == <<waiting, handed>>

Init == /\ waiting = [a \in Adapters |-> <<>>]
        /\ handed = [a \in Adapters |-> <<>>]

\* The points that are kept when one more arrives.
Kept(q) == IF Len(q) = Capacity THEN Tail(q) ELSE q

Arrive(a, p) ==
  /\ waiting' = [waiting EXCEPT ![a] = Append(Kept(@), p)]
  /\ UNCHANGED handed

\* A full batch, or all that is left.
HandOn(a, n) ==
  /\ n <= Len(waiting[a]) /\ (n < BatchSize => n = Len(waiting[a]))
  /\ handed' = [handed EXCEPT ![a] = @ \o SubSeq(waiting[a], 1, n)]
  /\ waiting' = [waiting EXCEPT ![a] = SubSeq(@, n + 1, Len(@))]

Next == \E a \in Adapters : \/ \E p \in Points : Arrive(a, p)
                            \/ \E n \in 1..BatchSize : HandOn(a, n)

Spec == Init /\ [][Next]_qvars
=============================================================================
