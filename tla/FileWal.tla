------------------------------ MODULE FileWal ------------------------------
(***************************************************************************)
(* FileWalStorage: one id-keyed append-only log (commands.jsonl; the log   *)
(* of alarms is its twin) with its promise chain, its compaction and the   *)
(* state a killed process leaves on disk.                                  *)
(*                                                                         *)
(* The file is a sequence of lines, each a record or junk, followed by a   *)
(* last piece without a newline if a write was cut short: an unreadable    *)
(* fragment, or a whole record lacking only its newline.  The records of   *)
(* one id are numbered in the order in which they are handed over.         *)
(***************************************************************************)
EXTENDS Naturals, Sequences, FiniteSetsExt

CONSTANTS
  Ids,           \* command ids
  Junk,          \* a piece of the file JSON.parse rejects
  Nothing,       \* the file ends with a newline
  Compact,       \* the compaction task
  MaxLines,      \* maxWalLinesBeforeCompaction
  MaxVersions,   \* bound: records handed over per id
  MaxCrashes,    \* bound: process ends
  MaxTears,      \* bound: writes cut short
  MaxFaults,     \* bound: file operations that fail
  MaxScheduled   \* bound: compactions the timer may queue

ASSUME SizesAssumption == /\ MaxLines \in Nat \ {0} /\ MaxVersions \in Nat
                          /\ MaxCrashes \in Nat /\ MaxTears \in Nat
                          /\ MaxFaults \in Nat /\ MaxScheduled \in Nat
ASSUME IdsAssumption == IsFiniteSet(Ids)

VARIABLES
  up,          \* the process is running
  file,        \* the lines of the file
  unfinished,  \* what follows the last newline, or Nothing
  chain,       \* the tasks of the promise chain, oldest first
  phase,       \* how far the oldest task has come
  snapshot,    \* what the running compaction read, to be renamed over the file
  lineCount,   \* _commandLineCount
  submitted,   \* ghost: records handed over per id
  reported,    \* ghost: the last record per id whose append resolved
  crashes, tears, faults, scheduled  \* ghosts: bounded occurrences

memory == <<chain, phase, snapshot, lineCount>>
disk   == <<file, unfinished>>
counts == <<crashes, tears, faults, scheduled>>
vars   == <<up, memory, disk, submitted, reported, counts>>

Records == [id : Ids, version : 1..MaxVersions]

ASSUME MarksAssumption == /\ Junk # Nothing /\ Compact \notin {Junk, Nothing}
                          /\ {Junk, Nothing, Compact} \cap Records = {}

Lines   == Records \cup {Junk}
Phases  == {"waiting", "written", "read", "saved", "renamed"}

Init ==
  /\ up = TRUE /\ file = <<>> /\ unfinished = Nothing
  /\ chain = <<>> /\ phase = "waiting" /\ snapshot = <<>> /\ lineCount = 0
  /\ submitted = [i \in Ids |-> 0] /\ reported = [i \in Ids |-> 0]
  /\ crashes = 0 /\ tears = 0 /\ faults = 0 /\ scheduled = 0

-----------------------------------------------------------------------------
(* Reading: content.split('\n') and _readLatestStates.                     *)

Pieces == IF unfinished = Nothing THEN file ELSE Append(file, unfinished)

\* The pieces that hold a record of i.
Mentions(pieces, i) == {k \in 1..Len(pieces) : pieces[k] # Junk /\ pieces[k].id = i}

\* The inverted rule: the first record of an id wins.
EarliestIn(pieces, i) ==
  IF Mentions(pieces, i) = {} THEN 0 ELSE pieces[Min(Mentions(pieces, i))].version

\* The latest record of an id wins.
LatestIn(pieces, i) ==
  IF Mentions(pieces, i) = {} THEN 0 ELSE pieces[Max(Mentions(pieces, i))].version

\* Object.values(latest): one record per id, the ids in the order of their
\* first line.  The set holds exactly one sequence.
LatestStates(pieces) ==
  LET known == {i \in Ids : Mentions(pieces, i) # {}}
      latest == {[id |-> i, version |-> LatestIn(pieces, i)] : i \in known}
      Rank(r) == Min(Mentions(pieces, r.id))
  IN  {s \in [1..Cardinality(latest) -> latest] :
         \A k, n \in 1..Cardinality(latest) : k < n => Rank(s[k]) < Rank(s[n])}

Read(i) == LatestIn(Pieces, i)

-----------------------------------------------------------------------------
(* Appending.                                                              *)

Running(task) == up /\ chain # <<>> /\ Head(chain) = task

\* The oldest task has settled; the chain goes on whatever its outcome.
TaskEnds == chain' = Tail(chain) /\ phase' = "waiting" /\ snapshot' = <<>>

Submit(i) ==
  /\ up /\ submitted[i] < MaxVersions
  /\ submitted' = [submitted EXCEPT ![i] = @ + 1]
  /\ chain' = Append(chain, [id |-> i, version |-> submitted[i] + 1])
  /\ UNCHANGED <<up, phase, snapshot, lineCount, disk, reported, counts>>

\* The bytes follow whatever the file ends with: after an unfinished piece
\* they complete it to one line that is neither record.
AppendLands(r) ==
  /\ Running(r) /\ phase = "waiting"
  /\ phase' = "written"
  /\ file' = Append(file, IF unfinished = Nothing THEN r ELSE Junk)
  /\ unfinished' = Nothing
  /\ UNCHANGED <<up, chain, snapshot, lineCount, submitted, reported, counts>>

\* appendFile resolved: the line is counted, and the threshold is checked.
AppendResolves(r) ==
  /\ Running(r) /\ phase = "written"
  /\ reported' = [reported EXCEPT ![r.id] = r.version]
  /\ lineCount' = lineCount + 1
  /\ chain' = IF lineCount' >= MaxLines THEN Append(Tail(chain), Compact) ELSE Tail(chain)
  /\ phase' = "waiting" /\ snapshot' = <<>>
  /\ UNCHANGED <<up, disk, submitted, counts>>

\* What may be left of r when its write is cut short.
Torn(r) == IF unfinished = Nothing THEN {Junk, r} ELSE {Junk}

\* The stored chain becomes a rejected promise: no later task ever starts.
AppendWedges(r) ==
  /\ Running(r) /\ phase = "waiting" /\ faults < MaxFaults
  /\ faults' = faults + 1
  /\ phase' = "rejected"
  /\ UNCHANGED <<up, disk, chain, snapshot, lineCount, submitted, reported,
                 crashes, tears, scheduled>>

\* The rejection is swallowed: the append resolves all the same.
AppendSwallows(r) ==
  /\ Running(r) /\ phase = "waiting" /\ faults < MaxFaults
  /\ faults' = faults + 1
  /\ reported' = [reported EXCEPT ![r.id] = r.version]
  /\ TaskEnds
  /\ UNCHANGED <<up, disk, lineCount, submitted, crashes, tears, scheduled>>

\* appendFile rejected without having written anything.
AppendFails(r) ==
  /\ Running(r) /\ phase = "waiting" /\ faults < MaxFaults
  /\ faults' = faults + 1
  /\ TaskEnds
  /\ UNCHANGED <<up, disk, lineCount, submitted, reported, crashes, tears, scheduled>>

\* appendFile rejected after a part of the line (the disk is full).
AppendTears(r) ==
  /\ Running(r) /\ phase = "waiting" /\ tears < MaxTears
  /\ tears' = tears + 1
  /\ unfinished' \in Torn(r)
  /\ TaskEnds
  /\ UNCHANGED <<up, file, lineCount, submitted, reported, crashes, faults, scheduled>>

-----------------------------------------------------------------------------
(* _compactIdKeyedLog, a task of the same chain.                           *)

Schedule ==
  /\ up /\ scheduled < MaxScheduled
  /\ scheduled' = scheduled + 1
  /\ chain' = Append(chain, Compact)
  /\ UNCHANGED <<up, phase, snapshot, lineCount, disk, submitted, reported,
                 crashes, tears, faults>>

\* A last line without a newline is taken for an incomplete one.
CompactDropsLastPiece ==
  /\ Running(Compact) /\ phase = "waiting"
  /\ phase' = "read"
  /\ snapshot' \in LatestStates(file)
  /\ UNCHANGED <<up, chain, lineCount, disk, submitted, reported, counts>>

CompactReads ==
  /\ Running(Compact) /\ phase = "waiting"
  /\ phase' = "read"
  /\ snapshot' \in LatestStates(Pieces)
  /\ UNCHANGED <<up, chain, lineCount, disk, submitted, reported, counts>>

\* The log is truncated and written in place.
CompactInPlace ==
  /\ Running(Compact) /\ phase = "read"
  /\ phase' = "saved"
  /\ file' = <<>> /\ unfinished' = Nothing
  /\ UNCHANGED <<up, chain, snapshot, lineCount, submitted, reported, counts>>

\* writeFile of the temporary file, which no reader opens.
CompactSaves ==
  /\ Running(Compact) /\ phase = "read"
  /\ phase' = "saved"
  /\ UNCHANGED <<up, chain, snapshot, lineCount, disk, submitted, reported, counts>>

\* The atomic rename of the temporary file over the log.
CompactRenames ==
  /\ Running(Compact) /\ phase = "saved"
  /\ phase' = "renamed"
  /\ file' = snapshot /\ unfinished' = Nothing
  /\ UNCHANGED <<up, chain, snapshot, lineCount, submitted, reported, counts>>

\* The count is left as it was.
CompactUncounted ==
  /\ Running(Compact) /\ phase = "renamed"
  /\ TaskEnds
  /\ UNCHANGED <<up, disk, lineCount, submitted, reported, counts>>

CompactResolves ==
  /\ Running(Compact) /\ phase = "renamed"
  /\ lineCount' = Len(snapshot)
  /\ TaskEnds
  /\ UNCHANGED <<up, disk, submitted, reported, counts>>

\* The read, the write or the rename is rejected; the log is as it was.
CompactFails ==
  /\ Running(Compact) /\ phase \in {"waiting", "read", "saved"} /\ faults < MaxFaults
  /\ faults' = faults + 1
  /\ TaskEnds
  /\ UNCHANGED <<up, disk, lineCount, submitted, reported, crashes, tears, scheduled>>

-----------------------------------------------------------------------------
(* The end of the process, at any point, and the next init().              *)

ProcessEnds ==
  /\ up' = FALSE
  /\ chain' = <<>> /\ phase' = "waiting" /\ snapshot' = <<>> /\ lineCount' = 0
  /\ crashes' = crashes + 1
  /\ UNCHANGED <<submitted, reported, faults, scheduled>>

\* Killed between two writes, or close() and exit.
Crash ==
  /\ up /\ crashes < MaxCrashes
  /\ ProcessEnds
  /\ UNCHANGED <<disk, tears>>

\* Killed in the middle of an append.
CrashTears(r) ==
  /\ Running(r) /\ phase = "waiting" /\ crashes < MaxCrashes /\ tears < MaxTears
  /\ ProcessEnds
  /\ tears' = tears + 1
  /\ unfinished' \in Torn(r)
  /\ UNCHANGED file

\* init(): the lines are counted, nothing on disk is touched.
Restart ==
  /\ ~up /\ up' = TRUE
  /\ lineCount' = Len(Pieces)
  /\ UNCHANGED <<chain, phase, snapshot, disk, submitted, reported, counts>>

-----------------------------------------------------------------------------
Next ==
  \/ \E i \in Ids : Submit(i)
  \/ \E r \in Records : \/ AppendLands(r) \/ AppendResolves(r) \/ AppendFails(r)
                        \/ AppendTears(r) \/ CrashTears(r)
  \/ Schedule \/ CompactReads \/ CompactSaves \/ CompactRenames
  \/ CompactResolves \/ CompactFails
  \/ Crash \/ Restart

Spec == Init /\ [][Next]_vars

\* File operations complete, one way or the other.
TaskSteps ==
  \/ \E r \in Records : AppendLands(r) \/ AppendResolves(r)
  \/ CompactReads \/ CompactSaves \/ CompactRenames \/ CompactResolves

FairSpec == Spec /\ WF_vars(TaskSteps)
-----------------------------------------------------------------------------
(* Properties.                                                             *)

\* Every variable stays in its type: in particular the line count is never
\* driven below zero, and a compaction writes records only.
TypeOK ==
  /\ up \in BOOLEAN
  /\ file \in Seq(Lines) /\ unfinished \in Lines \cup {Nothing}
  /\ chain \in Seq(Records \cup {Compact}) /\ phase \in Phases
  /\ snapshot \in Seq(Records) /\ lineCount \in Nat
  /\ submitted \in [Ids -> 0..MaxVersions] /\ reported \in [Ids -> 0..MaxVersions]
  /\ crashes \in 0..MaxCrashes /\ tears \in 0..MaxTears
  /\ faults \in 0..MaxFaults /\ scheduled \in 0..MaxScheduled

\* Cutting a write short costs at most one reported record: at any time no
\* more ids read back older than reported than writes were cut short, over
\* any number of compactions and restarts, and none if none was.
LossIsBounded == Cardinality({i \in Ids : Read(i) < reported[i]}) <= tears

\* What a compaction does cannot be told from reading the log: neither the
\* latest record of any id nor the order of the ids changes, although appends
\* are handed over while it runs.
CompactionIsInvisible ==
  [][chain # <<>> /\ Head(chain) = Compact
       => LatestStates(Pieces') = LatestStates(Pieces)]_vars

\* The line count that decides when to compact follows the file: it is off by
\* no more than the writes cut short, over failures, compactions and restarts.
CountFollowsFile ==
  up /\ phase \in {"waiting", "read", "saved"} =>
    /\ lineCount <= Len(Pieces) + tears
    /\ Len(Pieces) <= lineCount + tears

\* The tasks of a chain that are writes of a caller, oldest first.
Writes(tasks) ==
  LET upTo[n \in 0..Len(tasks)] ==
        IF n = 0 THEN <<>>
        ELSE IF tasks[n] = Compact THEN upTo[n - 1]
        ELSE Append(upTo[n - 1], tasks[n])
  IN  upTo[Len(tasks)]

Log == INSTANCE DurableLog WITH
         Versions <- 1..MaxVersions,
         content <- [i \in Ids |-> Read(i)],
         outstanding <- Writes(chain),
         onDisk <- phase = "written"

\* The file implements the durable log as long as no write is cut short, over
\* compactions, failed writes and process ends.
ImplementsLog == Log!Init /\ [][tears' = 0 => Log!Next]_(Log!lvars)

\* No failure wedges the chain: every append handed over is reported, one way
\* or the other, unless the process ends.
EveryAppendSettles ==
  \A r \in Records :
    r \in {chain[k] : k \in 1..Len(chain)} ~> r \notin {chain[k] : k \in 1..Len(chain)}

\* A corrupt line never keeps another record from being recovered: what was
\* reported as written is read back, whatever a killed process left behind.
DamageIsIsolated == \A i \in Ids : Read(i) >= reported[i]
=============================================================================
