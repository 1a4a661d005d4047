------------------------- MODULE MCCommandDelivery -------------------------
(* CommandDelivery on small instances.                                     *)
EXTENDS CommandDelivery

CONSTANT Hung    \* commands whose adapter may never answer a send

\* The scheduling the event loop guarantees, and answers from every adapter
\* but that of the commands in Hung: an MQTT publish at QoS 1 calls back only
\* once the broker acknowledged it, and sendCommand sets no time limit.
HungSpec ==
  Spec /\ LoopFairness /\ \A c \in Commands \ Hung : WF_vars(SendEnds(c))

\* A failed subsystem does not block the rest (README, "One failed subsystem
\* never blocks the rest"): a command whose own adapter answers is decided
\* although another adapter hangs.
OthersAreServed ==
  \A c \in Commands \ Hung :
    (status[c] \in Unsettled) ~> (status[c] \in Terminal \/ blind)
=============================================================================
