----------------------------- MODULE DurableLog -----------------------------
(***************************************************************************)
(* What a StorageAdapter promises the command queue and the alarm engine:  *)
(* an id-keyed log in which the latest record of an id wins.  Writes take  *)
(* effect one after the other in the order they were handed over, a write  *)
(* is reported as done only when it took effect, one reported as failed    *)
(* never takes effect, and a process end loses nothing but the writes that *)
(* were still outstanding.  CommandDelivery builds on exactly this log     *)
(* (chain, landed, walStatus); FileWal is shown to implement it.           *)
(***************************************************************************)
EXTENDS Naturals, Sequences

CONSTANTS Ids, Versions   \* the ids, and what may be recorded of each

VARIABLES content,      \* the record a reader finds for each id, 0 without one
          outstanding,  \* the writes handed over and not reported, oldest first
          onDisk,       \* the oldest of them has taken effect
          reported      \* the last record of each id reported as written

lvars == <<content, outstanding, onDisk, reported>>

Init == /\ content = [i \in Ids |-> 0]
        /\ outstanding = <<>> /\ onDisk = FALSE
        /\ reported = [i \in Ids |-> 0]

Submit == /\ \E i \in Ids, v \in Versions :
               outstanding' = Append(outstanding, [id |-> i, version |-> v])
          /\ UNCHANGED <<content, onDisk, reported>>

TakeEffect == /\ outstanding # <<>> /\ ~onDisk
              /\ onDisk' = TRUE
              /\ content' = [content EXCEPT ![Head(outstanding).id] =
                                              Head(outstanding).version]
              /\ UNCHANGED <<outstanding, reported>>

ReportDone == /\ onDisk /\ onDisk' = FALSE
              /\ outstanding' = Tail(outstanding)
              /\ reported' = [reported EXCEPT ![Head(outstanding).id] =
                                                Head(outstanding).version]
              /\ UNCHANGED content

ReportFailed == /\ outstanding # <<>> /\ ~onDisk
                /\ outstanding' = Tail(outstanding)
                /\ UNCHANGED <<content, onDisk, reported>>

ProcessEnds == /\ outstanding' = <<>> /\ onDisk' = FALSE
               /\ UNCHANGED <<content, reported>>

Next == Submit \/ TakeEffect \/ ReportDone \/ ReportFailed \/ ProcessEnds

Spec == Init /\ [][Next]_lvars
=============================================================================
