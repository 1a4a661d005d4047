--------------------------- MODULE MqttConnection ---------------------------
(***************************************************************************)
(* MqttAdapter: the promise of connect(), the client that reconnects on    *)
(* its own, giving up, and disconnect().                                   *)
(*                                                                         *)
(* The client is a library: it calls the adapter's listeners when the      *)
(* broker connects, fails or goes away, in any order, as long as they are  *)
(* attached, also after the adapter has dropped its reference to it.       *)
(***************************************************************************)
EXTENDS Naturals

CONSTANT MaxReconnectAttempts   \* 0: unlimited
CONSTANT MaxEvents              \* bound: errors, closes, refusals and other changes

ASSUME ReconnectsAssumption == MaxReconnectAttempts \in Nat /\ MaxEvents \in Nat

VARIABLES
  client,      \* this.client: "none", "live", or "ending" in disconnect()
  listening,   \* the adapter's listeners are attached to the client
  link,        \* the client's connection, and how far its subscription is
  connected,   \* this.connected
  errorCount,  \* _consecutiveErrorCount
  gaveUp,      \* _gaveUp
  connecting,  \* connect() has not settled, and start() awaits it
  publishing,  \* a publish was handed to the client and not called back
  failed,      \* ghost: errors of the client since it last connected
  events       \* ghost: what has gone wrong or was changed so far

connection == <<client, listening, link, connected, errorCount, gaveUp,
                connecting, publishing, failed>>
mqtt == <<connection, events>>

\* Something happens that is bounded.
Happens == events < MaxEvents /\ events' = events + 1

Links == {"down", "subscribing", "subscribed", "unsubscribed"}

\* A process that has not called connect().
Unconnected ==
  /\ client = "none" /\ listening = FALSE /\ connecting = FALSE
  /\ link = "down" /\ connected = FALSE /\ errorCount = 0 /\ gaveUp = FALSE
  /\ publishing = FALSE /\ failed = 0 /\ events = 0

\* The end of the process.
ConnectionEnds ==
  /\ client' = "none" /\ listening' = FALSE /\ connecting' = FALSE
  /\ link' = "down" /\ connected' = FALSE /\ errorCount' = 0 /\ gaveUp' = FALSE
  /\ publishing' = FALSE /\ failed' = 0 /\ UNCHANGED events

\* connect(): a client that reconnects by itself, and the guard.
Connect ==
  /\ client' = "live" /\ listening' = TRUE /\ connecting' = TRUE
  /\ gaveUp' = FALSE
  /\ UNCHANGED <<link, connected, errorCount, publishing, failed, events>>

-----------------------------------------------------------------------------
(* The listeners.                                                          *)

\* onConnect, up to the call of subscribe.
OnConnect ==
  /\ listening /\ link = "down"
  /\ link' = "subscribing" /\ connected' = TRUE
  /\ errorCount' = 0 /\ failed' = 0
  /\ UNCHANGED <<client, listening, gaveUp, connecting, publishing, events>>

\* The callback of subscribe: an error leaves the promise as it is.
SubscribeAnswers ==
  /\ link = "subscribing" /\ client # "none"
  /\ \/ link' = "subscribed" /\ connecting' = FALSE /\ events' = events
     \/ link' = "unsubscribed" /\ connecting' = connecting /\ Happens
  /\ UNCHANGED <<client, listening, connected, errorCount, gaveUp, publishing, failed>>

\* A closed connection starts the count afresh.
CountFromZero == 0

CountAfterClose == errorCount

\* onClose: emitted for an established connection and for a failed attempt.
OnClose ==
  /\ listening /\ link' = "down"
  /\ IF link = "down" THEN UNCHANGED events ELSE Happens
  /\ IF gaveUp THEN UNCHANGED <<connected, errorCount>>
     ELSE connected' = FALSE /\ errorCount' = CountAfterClose
  /\ UNCHANGED <<client, listening, gaveUp, connecting, publishing, failed>>

GivesUp(n) == MaxReconnectAttempts > 0 /\ n >= MaxReconnectAttempts

\* onErr, with the teardown of the give-up path; the first error rejects.
OnErr ==
  /\ listening /\ ~gaveUp /\ Happens
  /\ errorCount' = errorCount + 1 /\ failed' = failed + 1
  /\ connecting' = FALSE
  /\ IF GivesUp(errorCount')
     THEN /\ gaveUp' = TRUE /\ listening' = FALSE /\ connected' = FALSE
          /\ client' = "none" /\ link' = "down"
     ELSE UNCHANGED <<gaveUp, listening, connected, client, link>>
  /\ UNCHANGED publishing

\* The timeout is called off when the broker answers.
TimesOutUnheard == connecting /\ ~connected

\* The timer of connect(); once the promise has settled it does nothing.
TimesOut == connecting

GuardFires ==
  /\ TimesOut
  /\ connecting' = FALSE
  /\ UNCHANGED <<client, listening, link, connected, errorCount, gaveUp,
                 publishing, failed, events>>

-----------------------------------------------------------------------------
(* Publishing and disconnecting.                                           *)

\* What sendCommand looks at.
CanPublish == client # "none" /\ connected

\* The client takes the message, unless it was told to end.
Publish ==
  /\ CanPublish /\ client = "live"
  /\ publishing' = TRUE
  /\ UNCHANGED <<client, listening, link, connected, errorCount, gaveUp,
                 connecting, failed, events>>

\* The broker acknowledged, or the client failed the publish.  A client that
\* is down keeps the message; one that was ended by force may never call back.
PublishAnswers ==
  /\ publishing /\ publishing' = FALSE
  /\ UNCHANGED <<client, listening, link, connected, errorCount, gaveUp,
                 connecting, failed, events>>

\* disconnect(), up to its await; without a client it returns at once.
Disconnect ==
  /\ client' = IF client = "none" THEN "none" ELSE "ending"
  /\ listening' = FALSE
  /\ UNCHANGED <<link, connected, errorCount, gaveUp, connecting, publishing,
                 failed, events>>

\* The callback of end(false): only when no publish is waiting for its answer.
EndAnswers ==
  /\ client = "ending" /\ ~publishing
  /\ client' = "none" /\ connected' = FALSE /\ link' = "down"
  /\ UNCHANGED <<listening, errorCount, gaveUp, connecting, publishing, failed, events>>

ConnectionSteps ==
  OnConnect \/ SubscribeAnswers \/ OnClose \/ OnErr \/ GuardFires

-----------------------------------------------------------------------------
MqttTypeOK ==
  /\ client \in {"none", "live", "ending"} /\ link \in Links
  /\ listening \in BOOLEAN /\ connected \in BOOLEAN /\ gaveUp \in BOOLEAN
  /\ connecting \in BOOLEAN /\ publishing \in BOOLEAN
  /\ errorCount \in 0..MaxEvents /\ failed \in 0..MaxEvents
  /\ events \in 0..MaxEvents

\* The adapter gives up exactly at the limit: while its client lives fewer than
\* maxReconnectAttempts errors have come since the client last connected, however
\* closes, answers to subscriptions and the guard mix with them; and an adapter
\* that gave up has no client and takes no command.
GivesUpAtTheLimit ==
  /\ client = "live" => ~GivesUp(failed)
  /\ gaveUp => GivesUp(failed) /\ ~CanPublish /\ ~listening
=============================================================================
