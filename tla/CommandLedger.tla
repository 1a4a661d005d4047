--------------------------- MODULE CommandLedger ---------------------------
(***************************************************************************)
(* What the durable command path promises, with no queue, process or crash *)
(* in it.  A command id is recorded once, a device may be handed it only   *)
(* between being recorded and being settled, and a settlement is final.    *)
(* This is the docblock of CommandQueue ("the guarantee is structural")    *)
(* read as a specification; CommandDelivery is shown to implement it.      *)
(***************************************************************************)

CONSTANT Commands

VARIABLES ledger,    \* what the durable record of each command says
          received   \* the commands some transport has taken at least once

lvars == <<ledger, received>>

Init == /\ ledger = [c \in Commands |-> "none"]
        /\ received = {}

\* The command is durably recorded; only now may it be sent.
Record(c) == /\ ledger[c] = "none"
             /\ ledger' = [ledger EXCEPT ![c] = "queued"]
             /\ UNCHANGED received

\* A transport takes the command, possibly not for the first time.
Receive(c) == /\ ledger[c] = "queued"
              /\ received' = received \cup {c}
              /\ UNCHANGED ledger

\* The delivery is recorded: only of a command some transport did take.
Acknowledge(c) == /\ ledger[c] = "queued"
                  /\ c \in received
                  /\ ledger' = [ledger EXCEPT ![c] = "acked"]
                  /\ UNCHANGED received

\* The command is given up for good, whether or not an attempt got through.
GiveUp(c) == /\ ledger[c] = "queued"
             /\ ledger' = [ledger EXCEPT ![c] = "failed"]
             /\ UNCHANGED received

Next == \E c \in Commands :
           Record(c) \/ Receive(c) \/ Acknowledge(c) \/ GiveUp(c)

Spec == Init /\ [][Next]_lvars
=============================================================================
