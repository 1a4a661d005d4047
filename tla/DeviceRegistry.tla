--------------------------- MODULE DeviceRegistry ---------------------------
(***************************************************************************)
(* DeviceRegistry: records held in memory and written through, as a whole, *)
(* to devices.json.  A change takes effect in memory at once; the file is  *)
(* rewritten in place by a promise chain, from the text made at the time   *)
(* of the change.  The process may be killed at any moment, or stopped by  *)
(* stop(), which waits for the writes under way when it comes to close().  *)
(*                                                                         *)
(* The content of a record is its status and the number of the change that *)
(* made it; names, locations and time stamps are part of that number.      *)
(***************************************************************************)
EXTENDS Naturals, Sequences

CONSTANTS
  Devices,
  MaxChanges,   \* bound: changes of records
  MaxFaults,    \* bound: writes that fail
  MaxEnds       \* bound: kills, and calls of stop()

ASSUME BoundsAssumption ==
  MaxChanges \in Nat /\ MaxFaults \in Nat /\ MaxEnds \in Nat

VARIABLES
  process,   \* "up"; within stop() "stopping", then "closing"; "down"
  records,   \* _records
  chain,     \* the writes of _writeChain that have not settled, oldest first
  opened,    \* the oldest of them has opened, and by that emptied, the file
  toFlush,   \* how many of them close() waits for
  file,      \* the state of devices.json
  stored,    \* the records it holds when it is whole
  answered,  \* ghost: the last change per device whose call resolved
  told,      \* ghost: the operator was told that the device is removed and
             \* has not asked for another status since
  saved,     \* ghost: the last write that settled since the start succeeded
  changes, faults, ends   \* ghosts: bounded occurrences

memory == <<records, chain, opened, toFlush>>
disk   == <<file, stored>>
ghosts == <<answered, told, saved, changes, faults, ends>>
vars   == <<process, memory, disk, ghosts>>

Statuses == {"ENABLED", "DISABLED", "REMOVED"}
Unknown  == [status |-> "NONE", change |-> 0]   \* no record in the map
Nobody   == [d \in Devices |-> Unknown]
Records  == [status : Statuses, change : 1..MaxChanges] \cup {Unknown}
Writes   == [snapshot : [Devices -> Records], device : Devices, change : 1..MaxChanges]

Running == process # "down"

Init ==
  /\ process = "up" /\ records = Nobody
  /\ chain = <<>> /\ opened = FALSE /\ toFlush = 0
  /\ file = "absent" /\ stored = Nobody
  /\ answered = [d \in Devices |-> 0] /\ told = [d \in Devices |-> FALSE]
  /\ saved = TRUE
  /\ changes = 0 /\ faults = 0 /\ ends = 0

-----------------------------------------------------------------------------
(* Changes: synchronous up to the await of _persist.                       *)

\* Faulty variant: what list() returns by default is written.
SnapshotOfListed(all) ==
  [d \in Devices |-> IF all[d].status = "REMOVED" THEN Unknown ELSE all[d]]

\* Every record is written, the removed ones too.
Snapshot(all) == all

\* Faulty variant: a write that has not begun is taken to cover this change.
PersistUnlessQueued(all, d) ==
  chain' = IF Len(chain) > (IF opened THEN 1 ELSE 0) THEN chain
           ELSE Append(chain, [snapshot |-> all, device |-> d, change |-> changes + 1])

\* The write is queued with the text of this moment.
Persist(all, d) ==
  chain' = Append(chain, [snapshot |-> Snapshot(all), device |-> d, change |-> changes + 1])

Change(d, s) ==
  /\ changes < MaxChanges
  /\ records' = [records EXCEPT ![d] = [status |-> s, change |-> changes + 1]]
  /\ Persist(records', d)
  /\ changes' = changes + 1
  /\ UNCHANGED <<process, opened, toFlush, disk, answered, saved, faults, ends>>

\* The first point of a device registers it, also while stop() waits: the
\* points in the ring buffers are still being handled then.  A point of a
\* device with a record changes nothing here; one of a REMOVED device is
\* dropped before.
EnsureRegistered(d) ==
  /\ Running /\ records[d] = Unknown
  /\ Change(d, "ENABLED")
  /\ UNCHANGED told

\* What follows is asked by an operator, of a server that stop() closes.
Register(d) ==
  /\ process = "up" /\ records[d] = Unknown
  /\ Change(d, "ENABLED")
  /\ told' = [told EXCEPT ![d] = FALSE]

Update(d) ==
  /\ process = "up" /\ records[d].status \in {"ENABLED", "DISABLED"}
  /\ Change(d, records[d].status)
  /\ UNCHANGED told

SetStatus(d, s) ==
  /\ process = "up" /\ records[d] # Unknown
  /\ Change(d, s)
  /\ told' = [told EXCEPT ![d] = FALSE]

-----------------------------------------------------------------------------
(* Writes: fsp.writeFile truncates, then writes; the chain runs them one   *)
(* after the other and goes on after a failure.                            *)

WriteOpens ==
  /\ Running /\ chain # <<>> /\ ~opened
  /\ opened' = TRUE /\ file' = "empty" /\ stored' = Nobody
  /\ UNCHANGED <<process, records, chain, toFlush, ghosts>>

WriteProceeds ==
  /\ opened /\ file = "empty"
  /\ file' = "fragment"
  /\ UNCHANGED <<process, memory, stored, ghosts>>

\* Faulty variant: close() counts only the writes that succeed.
FlushesLeftAfter(success) == IF success /\ toFlush > 0 THEN toFlush - 1 ELSE toFlush

\* close() waits for the writes of its time, whatever their outcome.
FlushesLeft(success) == IF toFlush > 0 THEN toFlush - 1 ELSE 0

WriteSettles(success) ==
  /\ chain' = Tail(chain) /\ opened' = FALSE
  /\ toFlush' = FlushesLeft(success)
  /\ saved' = success

\* The whole text is in the file, and the call resolves.
WriteLands ==
  /\ opened
  /\ WriteSettles(TRUE)
  /\ file' = "whole" /\ stored' = Head(chain).snapshot
  /\ LET w == Head(chain) IN
       /\ answered' = [answered EXCEPT ![w.device] = w.change]
       /\ told' = [told EXCEPT ![w.device] =
                     @ \/ records[w.device] = [status |-> "REMOVED", change |-> w.change]]
  /\ UNCHANGED <<process, records, changes, faults, ends>>

\* The file cannot be opened and stays as it was, or it stays as far as the
\* write had come.
WriteFails ==
  /\ Running /\ chain # <<>> /\ faults < MaxFaults
  /\ WriteSettles(FALSE)
  /\ faults' = faults + 1
  /\ UNCHANGED <<process, records, disk, answered, told, changes, ends>>

-----------------------------------------------------------------------------
(* The life of the process.                                                *)

\* stop() has closed the API server.  Disconnecting the adapters and closing
\* the storage come next and take their time.
Stop ==
  /\ process = "up" /\ ends < MaxEnds
  /\ process' = "stopping" /\ ends' = ends + 1
  /\ UNCHANGED <<memory, disk, answered, told, saved, changes, faults>>

\* close() awaits the chain of this moment.
Close ==
  /\ process = "stopping"
  /\ process' = "closing" /\ toFlush' = Len(chain)
  /\ UNCHANGED <<records, chain, opened, disk, ghosts>>

MemoryIsLost ==
  /\ process' = "down" /\ records' = Nobody
  /\ chain' = <<>> /\ opened' = FALSE /\ toFlush' = 0

\* What close() waited for has settled; the close of the user store may take
\* longer.  A write queued since is abandoned.
Exit ==
  /\ process = "closing" /\ toFlush = 0
  /\ MemoryIsLost
  /\ UNCHANGED <<disk, ghosts>>

Kill ==
  /\ Running /\ ends < MaxEnds
  /\ MemoryIsLost /\ ends' = ends + 1
  /\ UNCHANGED <<disk, answered, told, saved, changes, faults>>

\* Faulty variant: removed devices are forgotten at a start.
LoadsListed == IF file = "whole" THEN SnapshotOfListed(stored) ELSE Nobody

\* No file, and an empty one, stand for no records.
Loads == IF file = "whole" THEN stored ELSE Nobody

\* init() throws on a fragment: the process does not start until somebody
\* repairs the file.  An empty file passes for an empty registry, which ends
\* what was promised.
Start ==
  /\ process = "down" /\ file # "fragment"
  /\ process' = "up" /\ records' = Loads /\ saved' = TRUE
  /\ answered' = [d \in Devices |-> IF file = "empty" THEN 0 ELSE answered[d]]
  /\ told' = [d \in Devices |-> told[d] /\ file # "empty"]
  /\ UNCHANGED <<chain, opened, toFlush, disk, changes, faults, ends>>

Next ==
  \/ \E d \in Devices :
       \/ EnsureRegistered(d) \/ Register(d) \/ Update(d)
       \/ \E s \in Statuses : SetStatus(d, s)
  \/ WriteOpens \/ WriteProceeds \/ WriteLands \/ WriteFails
  \/ Stop \/ Close \/ Exit \/ Kill \/ Start

Spec == Init /\ [][Next]_vars

\* A write that was started settles, and stop() goes on after what it awaits.
FairSpec ==
  /\ Spec
  /\ WF_vars(WriteOpens) /\ WF_vars(WriteLands)
  /\ WF_vars(Close) /\ WF_vars(Exit)

-----------------------------------------------------------------------------
(* Properties.                                                             *)

\* The variables have their types; the write that has emptied the file is
\* one of the chain (_persist), close() waits for writes of the chain only,
\* and a process that is down has no memory.
TypeOK ==
  /\ process \in {"up", "stopping", "closing", "down"}
  /\ records \in [Devices -> Records]
  /\ chain \in Seq(Writes) /\ opened \in BOOLEAN
  /\ toFlush \in 0..Len(chain)
  /\ file \in {"absent", "empty", "fragment", "whole"}
  /\ stored \in [Devices -> Records]
  /\ answered \in [Devices -> 0..MaxChanges] /\ told \in [Devices -> BOOLEAN]
  /\ saved \in BOOLEAN
  /\ changes \in 0..MaxChanges /\ faults \in 0..MaxFaults /\ ends \in 0..MaxEnds
  /\ opened => chain # <<>> /\ file \in {"empty", "fragment"}
  /\ ~Running => records = Nobody /\ chain = <<>>

\* What a caller was told is done stays done: over later changes, failed
\* writes, kills and restarts, neither the memory nor a whole file goes back
\* behind it (write-through, _persist and init).
AnswersHold ==
  \A d \in Devices :
    /\ Running => records[d].change >= answered[d]
    /\ file = "whole" => stored[d].change >= answered[d]

\* A device whose removal was reported to the operator is blocked until the
\* operator asks for another status, whatever points it sends and however
\* often the process restarts (the soft delete of setStatus and isBlocked).
RemovalHolds ==
  \A d \in Devices : Running /\ told[d] => records[d].status = "REMOVED"

\* With no write under way the file agrees with the memory, unless the last
\* write failed: what an earlier failed write had kept from the file, or
\* destroyed in it, is made good by the next one that succeeds (_persist
\* writes the whole map).
QuietMeansSaved ==
  Running /\ chain = <<>> /\ saved /\ records # Nobody =>
    file = "whole" /\ stored = records

\* A stop ends the process although points keep registering devices, and
\* although writes fail (close() waits for the writes of its time only;
\* "shutdown() itself has no unbounded awaits", index.js:28).
StopEnds == process = "stopping" ~> process = "down"
=============================================================================
