------------------------------ MODULE UserStore ------------------------------
(***************************************************************************)
(* UserStore: the accounts in users.json.  Nothing is kept in memory: every *)
(* call reads the file, and a change reads it, alters the list and rewrites *)
(* the file in place, as one task of a promise chain.  The process may be  *)
(* killed at any moment; stop() waits for the chain.  scripts/create-user  *)
(* does the same from a process of its own, which waits for nobody.  Both  *)
(* begin with init(), which looks for the file and writes '[]' when there  *)
(* is none: two awaits, with the other process in between.  access() is    *)
(* taken to fail only for a file that is not there.                        *)
(***************************************************************************)
EXTENDS Naturals, Sequences, SequencesExt

CONSTANTS
  Names,       \* usernames, trimmed and in lower case
  Admin,       \* bootstrapAdminUsername
  MaxCalls,    \* bound: changes handed over
  MaxFaults,   \* bound: reads and writes that fail
  MaxEnds      \* bound: kills, and calls of stop()

ASSUME NamesAssumption  == Admin \in Names
ASSUME BoundsAssumption == MaxCalls \in Nat /\ MaxFaults \in Nat /\ MaxEnds \in Nat

VARIABLES
  process,    \* "down", "initialising" in init(), "starting" until the bootstrap
              \* is over, "serving", "closing"
  chain,      \* the tasks of _writeChain that have not settled, oldest first
  file,       \* the state of users.json
  accounts,   \* the accounts it holds when it is whole
  script,     \* what the process of create-user.js has to do, in order
  overlapped, \* ghost: both processes had their lists in hand at once
  reported,   \* ghost: the accounts as callers were told of them
  calls, faults, ends   \* calls also numbers the accounts; bounded occurrences

disk   == <<file, accounts>>
counts == <<calls, faults, ends>>
cli    == <<script, overlapped>>
vars   == <<process, chain, disk, cli, reported, counts>>

Ids      == 0..MaxCalls   \* 0 is that of no account
Accounts == [id : Ids, username : Names, disabled : BOOLEAN]
Running  == process # "down"

\* What a task does is a creation of the account `user`, or that it is disabled;
\* `list` is what the task has read and altered.  The write of init() is a task
\* as well, for nobody, of a list that was decided on before.
Tasks == [op : {"init", "create", "disable"}, user : Accounts,
          step : {"waiting", "read", "opened"}, list : SUBSET Accounts]

Nobody   == [id |-> 0, username |-> Admin, disabled |-> FALSE]
WriteNil == [op |-> "init", user |-> Nobody, step |-> "read", list |-> {}]

Task(op, user) == [op |-> op, user |-> user, step |-> "waiting", list |-> {}]

NewAccount(n) == [id |-> calls + 1, username |-> n, disabled |-> FALSE]

Init ==
  /\ process = "down" /\ chain = <<>>
  /\ file = "absent" /\ accounts = {} /\ reported = {}
  /\ script = <<>> /\ overlapped = FALSE
  /\ calls = 0 /\ faults = 0 /\ ends = 0

-----------------------------------------------------------------------------
(* Calls.                                                                  *)

\* An empty file passes for an empty list; a fragment cannot be read.
Readable == file # "fragment"
List     == IF file = "whole" THEN accounts ELSE {}

\* What was reported is gone for good once an empty file was read as a list.
StillReported == IF file = "empty" THEN {} ELSE reported

InHand(tasks)   == \E k \in DOMAIN tasks : tasks[k].step # "waiting"
Open(tasks)     == \E k \in DOMAIN tasks : tasks[k].step = "opened"

Altered(op, user, list) ==
  {u \in list : u.id # user.id} \cup {[user EXCEPT !.disabled = (op = "disable")]}

\* Faulty variant: the list is read when the call is made.
HandOverRead(op, user) ==
  chain' = Append(chain, [op |-> op, user |-> user, step |-> "read",
                          list |-> Altered(op, user, List)])

\* The list is read when the turn of the task comes.
HandOver(op, user) == chain' = Append(chain, Task(op, user))

CreateUser(n) ==
  /\ process = "serving" /\ calls < MaxCalls
  /\ HandOver("create", NewAccount(n))
  /\ calls' = calls + 1
  /\ UNCHANGED <<process, disk, cli, reported, faults, ends>>

\* An operator disables an account listed before.
SetDisabled(user) ==
  /\ process = "serving" /\ calls < MaxCalls
  /\ HandOver("disable", user)
  /\ calls' = calls + 1
  /\ UNCHANGED <<process, disk, cli, reported, faults, ends>>

-----------------------------------------------------------------------------
(* Tasks.                                                                  *)

\* The chain starts a task when the one before it has settled.
InTurn(k) == k \in DOMAIN chain /\ k = 1

\* Faulty variant: disabling an account frees its name.
TakenByEnabled(n) == \E u \in List : u.username = n /\ ~u.disabled

Taken(n) == \E u \in List : u.username = n

Refused(t) ==
  \/ ~Readable
  \/ t.op = "create" /\ Taken(t.user.username)
  \/ t.op = "disable" /\ ~\E u \in List : u.id = t.user.id

\* The task has its list and alters it; a password is hashed meanwhile.
TaskReads(k) ==
  /\ Running /\ InTurn(k) /\ chain[k].step = "waiting" /\ ~Refused(chain[k])
  /\ chain' = [chain EXCEPT ![k].step = "read",
                            ![k].list = Altered(chain[k].op, chain[k].user, List)]
  /\ reported' = StillReported
  /\ overlapped' = (overlapped \/ InHand(script))
  /\ UNCHANGED <<process, disk, script, counts>>

\* The name is taken, the id unknown, or the file unreadable: the call is
\* rejected and the chain goes on.
TaskIsRefused(k) ==
  /\ Running /\ InTurn(k) /\ chain[k].step = "waiting" /\ Refused(chain[k])
  /\ chain' = RemoveAt(chain, k)
  /\ reported' = StillReported
  /\ UNCHANGED <<process, disk, cli, counts>>

\* fsp.writeFile truncates the file, then writes it.
WriteOpens(k) ==
  /\ Running /\ InTurn(k) /\ chain[k].step = "read"
  /\ chain' = [chain EXCEPT ![k].step = "opened"]
  /\ file' = "empty" /\ accounts' = {}
  /\ UNCHANGED <<process, cli, reported, counts>>

WriteProceeds ==
  /\ Open(chain) \/ Open(script)
  /\ file' = "fragment" /\ accounts' = {}
  /\ UNCHANGED <<process, chain, cli, reported, counts>>

\* Two writes in place may leave the end of the longer one behind the other.
Landed(others) == IF others \/ file = "whole" THEN {"whole", "fragment"} ELSE {"whole"}

Lands(list, user, others) ==
  /\ file' \in Landed(others)
  /\ accounts' = IF file' = "whole" THEN list ELSE {}
  /\ reported' = {u \in reported : u.id # user.id} \cup {u \in list : u.id = user.id}

WriteLands(k) ==
  /\ Running /\ InTurn(k) /\ chain[k].step = "opened"
  /\ Lands(chain[k].list, chain[k].user, Open(script))
  /\ chain' = RemoveAt(chain, k)
  /\ UNCHANGED <<process, cli, counts>>

\* The file cannot be read or opened and stays as it was, or it stays as far
\* as the write had come.
TaskFails(k) ==
  /\ Running /\ InTurn(k) /\ chain[k].op # "init" /\ faults < MaxFaults
  /\ chain' = RemoveAt(chain, k) /\ faults' = faults + 1
  /\ UNCHANGED <<process, disk, cli, reported, calls, ends>>

-----------------------------------------------------------------------------
(* The life of the process.                                                *)

\* init(), up to its await: what access() does not find is to be written.
Start ==
  /\ process = "down" /\ process' = "initialising"
  /\ chain' = IF file = "absent" THEN <<WriteNil>> ELSE <<>>
  /\ overlapped' = (overlapped \/ (file = "absent" /\ InHand(script)))
  /\ UNCHANGED <<disk, script, reported, counts>>

\* The write of init() fails, and the process exits.
InitFails ==
  /\ process = "initialising" /\ chain # <<>> /\ faults < MaxFaults
  /\ process' = "down" /\ chain' = <<>> /\ faults' = faults + 1
  /\ UNCHANGED <<disk, cli, reported, calls, ends>>

\* The bootstrap counts the accounts; without any the administrator is created.
Count ==
  /\ process = "initialising" /\ chain = <<>> /\ Readable
  /\ process' = "starting" /\ reported' = StillReported
  /\ IF List = {}
     THEN /\ calls < MaxCalls /\ calls' = calls + 1
          /\ HandOver("create", NewAccount(Admin))
     ELSE UNCHANGED <<chain, calls>>
  /\ UNCHANGED <<disk, cli, faults, ends>>

\* A fragment makes count() throw, and the process exits.
CountFails ==
  /\ process = "initialising" /\ chain = <<>> /\ ~Readable
  /\ process' = "down"
  /\ UNCHANGED <<chain, disk, cli, reported, counts>>

\* The creation has settled, or failed: the start goes on to the API server.
Serve ==
  /\ process = "starting" /\ chain = <<>>
  /\ process' = "serving"
  /\ UNCHANGED <<chain, disk, cli, reported, counts>>

\* stop() has closed the API server.
Stop ==
  /\ process = "serving" /\ ends < MaxEnds
  /\ process' = "closing" /\ ends' = ends + 1
  /\ UNCHANGED <<chain, disk, cli, reported, calls, faults>>

\* close() has seen the chain settle.
Exit ==
  /\ process = "closing" /\ chain = <<>>
  /\ process' = "down"
  /\ UNCHANGED <<chain, disk, cli, reported, counts>>

Kill ==
  /\ Running /\ ends < MaxEnds
  /\ process' = "down" /\ chain' = <<>> /\ ends' = ends + 1
  /\ UNCHANGED <<disk, cli, reported, calls, faults>>

-----------------------------------------------------------------------------
(* create-user.js, which creates one account and ends.                     *)

\* Its init(), up to the await.
ScriptStarts(n) ==
  /\ script = <<>> /\ calls < MaxCalls
  /\ script' = (IF file = "absent" THEN <<WriteNil>> ELSE <<>>)
                 \o <<Task("create", NewAccount(n))>>
  /\ overlapped' = (overlapped \/ (file = "absent" /\ InHand(chain)))
  /\ calls' = calls + 1
  /\ UNCHANGED <<process, chain, disk, reported, faults, ends>>

ScriptReads ==
  /\ script # <<>> /\ script[1].step = "waiting" /\ ~Refused(script[1])
  /\ script' = [script EXCEPT ![1].step = "read",
                              ![1].list = Altered(script[1].op, script[1].user, List)]
  /\ reported' = StillReported
  /\ overlapped' = (overlapped \/ InHand(chain))
  /\ UNCHANGED <<process, chain, disk, counts>>

ScriptIsRefused ==
  /\ script # <<>> /\ script[1].step = "waiting" /\ Refused(script[1])
  /\ script' = <<>>
  /\ reported' = StillReported
  /\ UNCHANGED <<process, chain, disk, overlapped, counts>>

ScriptOpens ==
  /\ script # <<>> /\ script[1].step = "read"
  /\ script' = [script EXCEPT ![1].step = "opened"]
  /\ file' = "empty" /\ accounts' = {}
  /\ UNCHANGED <<process, chain, overlapped, reported, counts>>

ScriptLands ==
  /\ script # <<>> /\ script[1].step = "opened"
  /\ Lands(script[1].list, script[1].user, Open(chain))
  /\ script' = Tail(script)
  /\ UNCHANGED <<process, chain, overlapped, counts>>

ScriptIsKilled ==
  /\ script # <<>> /\ ends < MaxEnds
  /\ script' = <<>> /\ ends' = ends + 1
  /\ UNCHANGED <<process, chain, disk, overlapped, reported, calls, faults>>

Next ==
  \/ \E n \in Names : CreateUser(n)
  \/ \E u \in reported : SetDisabled(u)
  \/ \E k \in DOMAIN chain :
       \/ TaskReads(k) \/ TaskIsRefused(k) \/ WriteOpens(k) \/ WriteLands(k) \/ TaskFails(k)
  \/ WriteProceeds
  \/ Start \/ InitFails \/ Count \/ CountFails \/ Serve \/ Stop \/ Exit \/ Kill
  \/ \E n \in Names : ScriptStarts(n)
  \/ ScriptReads \/ ScriptIsRefused \/ ScriptOpens \/ ScriptLands \/ ScriptIsKilled

Spec == Init /\ [][Next]_vars

-----------------------------------------------------------------------------
(* Properties.                                                             *)

\* The variables have their types; only the oldest task has begun, so only
\* one list of a process is in hand at a time (_enqueueWrite), and the file
\* holds no accounts unless it is whole.
TypeOK ==
  /\ process \in {"down", "initialising", "starting", "serving", "closing"}
  /\ chain \in Seq(Tasks)
  /\ file \in {"absent", "empty", "fragment", "whole"}
  /\ accounts \subseteq Accounts /\ reported \subseteq Accounts
  /\ script \in Seq(Tasks) /\ Len(script) <= 2
  /\ overlapped \in BOOLEAN
  /\ calls \in 0..MaxCalls /\ faults \in 0..MaxFaults /\ ends \in 0..MaxEnds
  /\ \A k \in DOMAIN chain : k > 1 => chain[k].step = "waiting"
  /\ \A k \in DOMAIN script : k > 1 => script[k].step = "waiting"
  /\ file # "whole" => accounts = {}

\* An account whose creation was reported stays, and stays disabled once that
\* was reported: the list a concurrent call writes back contains it, and so
\* does every later one, of the gateway or of create-user.js, over refusals,
\* failed writes and restarts, unless an empty file was read as a list or the
\* two processes had lists in hand at once: what a task has read and not yet
\* written, or the '[]' that init() will write for the file it did not find.
NoAccountForgotten ==
  file = "whole" /\ ~overlapped =>
    \A u \in reported : \E v \in accounts :
      v.id = u.id /\ v.username = u.username /\ (u.disabled => v.disabled)

\* No two accounts share a name, so findByUsername has one answer: also when
\* two creations of one name are under way, in one process or in two, when its
\* account was disabled, and when the bootstrap runs again after a kill.
NamesAreUnique ==
  \A u, v \in accounts : u.username = v.username => u = v
=============================================================================
