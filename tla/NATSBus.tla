------------------------------- MODULE NATSBus -------------------------------
(***************************************************************************)
(* NATSBus (core/messaging/nats/nats.go).  Subscribe makes a JetStream     *)
(* consumer of its own that starts with the first message of the topic; a  *)
(* callback acknowledges what its handler has handled and refuses the rest,*)
(* which JetStream delivers again.  The context is not looked at.          *)
(***************************************************************************)
EXTENDS MessageBus

\* New: the connection, then its JetStream context; without the second the first is
\* closed.
Connect ==
  /\ bus = "none"
  /\ bus' = "connecting" /\ conns' = {"conn"}
  /\ UNCHANGED <<subVars, msgVars>>
ConnectFails ==
  /\ bus = "none"
  /\ bus' = "failed"
  /\ UNCHANGED <<conns, subVars, msgVars>>
JetStream ==
  /\ bus = "connecting"
  /\ bus' = "open"
  /\ UNCHANGED <<conns, subVars, msgVars>>
JetStreamFails ==
  /\ bus = "connecting"
  /\ bus' = "failed" /\ conns' = {}
  /\ UNCHANGED <<subVars, msgVars>>

\* Refused without a connection, or by an error of JetStream (no stream has the topic).
Subscribe(s) ==
  /\ pc[s] = "new" /\ bus \in {"open", "closing", "closed"}
  /\ \/ "conn" \in conns /\ Goto(s, "consuming") /\ open' = open \cup {s}
     \/ Goto(s, "refused") /\ UNCHANGED open
  /\ UNCHANGED <<bus, conns, tracked, done, msgVars>>

\* A message is delivered for the first time, in order, or again because its handler
\* returned an error and it was refused.
AckedAnyway(s) == {}
Redelivered(s) == errored[s]
Callback(s) ==
  /\ s \in open
  /\ \E k \in Redelivered(s) \cup (IF Fresh(s) = {} THEN {} ELSE {Min(Fresh(s))}) :
       HandlerSucceeds(s, k) \/ HandlerFails(s, k)
  /\ UNCHANGED <<bus, conns, subVars, log, start>>

\* The end of Close: closing the connection ends every subscription on it.
CloseConnection ==
  /\ bus = "closing"
  /\ bus' = "closed" /\ conns' = {}
  /\ open' = {}
  /\ UNCHANGED <<pc, tracked, done, msgVars>>

NATSNext ==
  \/ Connect \/ ConnectFails \/ JetStream \/ JetStreamFails
  \/ \E s \in Subs : Subscribe(s) \/ Callback(s)
  \/ CloseConnection
=============================================================================
