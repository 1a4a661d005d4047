-------------------------- MODULE StorageBackends --------------------------
(***************************************************************************)
(* The two implementations of StorageAdapter side by side.  The log of     *)
(* FileWal and the tables of SqliteStorage are given the same records, and *)
(* the queries of the API are put to both: queryCommandHistory and         *)
(* queryAlarmHistory on the id-keyed log, queryTelemetry on a log that is  *)
(* never compacted.                                                        *)
(*                                                                         *)
(* The version of a record stands for its status, the last one for those   *)
(* that settle a command, and the id for the device.                       *)
(***************************************************************************)
EXTENDS FileWal, Integers, SequencesExt

CONSTANTS
  NotGiven,           \* a filter that is not given
  Clocks,        \* what the clock may show when each record is handed over
  Questions,     \* the filters of a query
  Limits,        \* the limit a caller asks for, a multiple of a half, or NotGiven
  DefaultLimit,  \* DEFAULT_LIMIT, MAX_LIMIT
  MaxLimit

ASSUME QueriesAssumption == /\ Clocks \subseteq [Records -> Nat \ {0}]
                            /\ NotGiven \notin Nat \cup Ids
                            /\ Limits \subseteq Nat \cup {NotGiven}
                            /\ DefaultLimit \in Nat /\ MaxLimit \in Nat

VARIABLES
  rows,     \* the table: what was inserted, by ascending primary key
  called,   \* the clock when each record is handed over
  stamps,   \* the ts of each record in the file
  carried   \* the ts of the record of each id that was recovered, 0 without one

bvars == <<vars, rows, called, stamps, carried>>

BInit == /\ Init /\ rows = <<>>
         /\ called \in Clocks /\ stamps = called
         /\ carried = [i \in Ids |-> 0]

\* `record.ts || Date.now()`: a record read from the file brings its old ts,
\* one read from the table has none.
HandOver(i) ==
  /\ Submit(i)
  /\ stamps' = [stamps EXCEPT ![[id |-> i, version |-> submitted'[i]]] =
                                IF carried[i] = 0 THEN @ ELSE carried[i]]
  /\ UNCHANGED <<rows, called, carried>>

\* The insertion, for a record that the other backend writes as well.
Insert(r) ==
  /\ AppendLands(r)
  /\ rows' = Append(rows, r)
  /\ UNCHANGED <<called, stamps, carried>>

Recover ==
  /\ Restart
  /\ carried' = [i \in Ids |-> IF Read(i) = 0 THEN 0
                               ELSE stamps[[id |-> i, version |-> Read(i)]]]
  /\ UNCHANGED <<rows, called, stamps>>

BNext == \/ \E i \in Ids : HandOver(i)
         \/ \E r \in Records : Insert(r)
         \/ Recover
         \/ /\ \/ \E r \in Records : \/ AppendResolves(r) \/ AppendFails(r)
                                     \/ AppendTears(r) \/ CrashTears(r)
               \/ Schedule \/ CompactReads \/ CompactSaves \/ CompactRenames
               \/ CompactResolves \/ CompactFails \/ Crash
            /\ UNCHANGED <<rows, called, stamps, carried>>

BackendsSpec == BInit /\ [][BNext]_bvars /\ WF_bvars(BNext /\ TaskSteps)

-----------------------------------------------------------------------------
(* Queries.                                                                *)

\* clampLimit: halves are rounded down, also to zero.
ClampLimit(raw) ==
  IF raw = NotGiven \/ raw = 0 THEN DefaultLimit
  ELSE IF raw \div 2 > MaxLimit THEN MaxLimit ELSE raw \div 2

\* resolveTimeFilter: a range ends now; a bound given explicitly wins over
\* the bound of the range.
TimeFilter(range, start, end, now) ==
  [start |-> IF start # NotGiven \/ range = NotGiven THEN start
             ELSE IF range > now THEN 0 ELSE now - range,
   end   |-> IF end # NotGiven \/ range = NotGiven THEN end ELSE now]

InRange(ts, f) == /\ f.start = NotGiven \/ ts >= f.start
                  /\ f.end = NotGiven \/ ts <= f.end

Selected(r, ts, f) == /\ f.device \in {NotGiven, r.id} /\ f.status \in {NotGiven, r.version}
                      /\ InRange(ts, f)

\* What is kept of s, by ascending key; elements with the same key stay in the
\* order of s, as the sort of JavaScript leaves them.
Arranged(s, kept, key) ==
  LET at      == {k \in 1..Len(s) : s[k] \in kept}
      Upto(k) == {m \in at : key[s[m]] < key[s[k]] \/ (key[s[m]] = key[s[k]] /\ m <= k)}
  IN  [n \in 1..Cardinality(at) |-> s[CHOOSE k \in at : Cardinality(Upto(k)) = n]]

Unsorted == [r \in Records |-> 0]
NewestFirst(ts) == [r \in Records |-> 0 - ts[r]]

\* The filters are applied before the latest record of an id is looked for.
FileHistoryFilteredFirst(limit, f) ==
  LET kept   == {r \in Records : Selected(r, stamps[r], f)}
      latest == CHOOSE s \in LatestStates(Arranged(Pieces, kept, Unsorted)) : TRUE
      all    == Arranged(latest, kept, NewestFirst(stamps))
  IN  SubSeq(all, 1, IF limit < Len(all) THEN limit ELSE Len(all))

\* FileWalStorage: the latest state of each id, filtered, newest first.
FileHistory(limit, f) ==
  LET latest == CHOOSE s \in LatestStates(Pieces) : TRUE
      kept   == {r \in Records : Selected(r, stamps[r], f)}
      all    == Arranged(latest, kept, NewestFirst(stamps))
  IN  SubSeq(all, 1, IF limit < Len(all) THEN limit ELSE Len(all))

\* slice(-limit): with a limit of zero it is slice(0).
Slice(s, limit) == IF limit = 0 \/ limit >= Len(s) THEN s
                    ELSE SubSeq(s, Len(s) - limit + 1, Len(s))

\* The order of the file is taken for that of time.
FileTelemetryUnsorted(log, limit, f) ==
  LET kept == {r \in Records : Selected(r, called[r], f)}
  IN  Reverse(Slice(Arranged(log, kept, Unsorted), limit))

\* FileWalStorage.queryTelemetry on a log that holds the points of `log`.
FileTelemetry(log, limit, f) ==
  LET kept == {r \in Records : Selected(r, called[r], f)}
  IN  Reverse(Slice(Arranged(log, kept, called), limit))

\* The join with MAX(id) GROUP BY command_id.
LatestRows == {rows[k] : k \in {n \in 1..Len(rows) :
                                  \A m \in n + 1..Len(rows) : rows[m].id # rows[n].id}}

\* SELECT ... FROM set WHERE f ORDER BY ts DESC LIMIT limit may answer s: rows
\* of the same ts come in any order.
MayAnswer(s, set, limit, f) ==
  LET kept == {r \in set : Selected(r, called[r], f)}
      n    == Cardinality(kept)
  IN  /\ Len(s) = IF limit < n THEN limit ELSE n
      /\ \A k \in 1..Len(s) : s[k] \in kept
      /\ \A k, m \in 1..Len(s) : k < m => s[k] # s[m] /\ called[s[k]] >= called[s[m]]
      /\ \A r \in kept \ {s[k] : k \in 1..Len(s)} :
           \A k \in 1..Len(s) : called[s[k]] >= called[r]

\* loadPendingCommands.
Unsettled(latest) == {r \in latest : r.version < MaxVersions}

FilePending == UNION {Unsettled(ToSet(s)) : s \in LatestStates(Pieces)}
TablePending == Unsettled(LatestRows)

-----------------------------------------------------------------------------
\* No process has gone on with a recovered record.
NoneContinued == stamps = called

\* The choice of the backend cannot be told from its answers: the commands
\* FileWalStorage recovers are those SqliteStorage would, and for every filter
\* and limit what it answers, over compactions, failures and restarts, is an
\* answer SqliteStorage could give.  Excepted are a write cut short, queries
\* after a recovered command went on (its records keep the old ts in the file),
\* and telemetry asked for with a limit that is rounded down to zero.
AnswersAgree ==
  tears = 0 =>
    /\ FilePending = TablePending
    /\ NoneContinued =>
         \A f \in Questions, raw \in Limits :
           LET limit == ClampLimit(raw)
           IN  /\ MayAnswer(FileHistory(limit, f), LatestRows, limit, f)
               /\ limit > 0 => MayAnswer(FileTelemetry(rows, limit, f), ToSet(rows), limit, f)
=============================================================================
