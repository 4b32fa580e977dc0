------------------------------ MODULE KafkaBus ------------------------------
(***************************************************************************)
(* KafkaBus (core/messaging/kafka/kafka.go).  Subscribe opens a consumer   *)
(* of partition 0 at the newest offset and starts a goroutine that handles *)
(* messages until its context is done or the consumer is closed.           *)
(*                                                                         *)
(* The client library is external: it hands out one consumer of a          *)
(* partition at a time, and none once it is closed.  Closing a partition   *)
(* consumer ends its channel of messages.                                  *)
(***************************************************************************)
EXTENDS MessageBus

\* New: a producer, then a consumer; without the second the first is closed.
NewProducer ==
  /\ bus = "none"
  /\ bus' = "connecting" /\ conns' = {"producer"}
  /\ UNCHANGED <<subVars, msgVars>>
NewProducerFails ==
  /\ bus = "none"
  /\ bus' = "failed"
  /\ UNCHANGED <<conns, subVars, msgVars>>
NewConsumer ==
  /\ bus = "connecting"
  /\ bus' = "open" /\ conns' = conns \cup {"consumer"}
  /\ UNCHANGED <<subVars, msgVars>>
NewConsumerFails ==
  /\ bus = "connecting"
  /\ bus' = "failed" /\ conns' = {}
  /\ UNCHANGED <<subVars, msgVars>>

Available(t) == "consumer" \in conns /\ \A s \in open : Topic[s] # t

\* Refused by the client, or by an error of the brokers.
ConsumePartition(s) ==
  /\ pc[s] = "new" /\ bus \in {"open", "closing", "closed"}
  /\ \/ Available(Topic[s]) /\ Goto(s, "consuming") /\ open' = open \cup {s}
     \/ Goto(s, "refused") /\ UNCHANGED open
  /\ start' = [start EXCEPT ![s] = Len(log[Topic[s]])]
  /\ UNCHANGED <<bus, conns, tracked, done, log, handled, errored, errors>>

\* The messages of s: those of partition 0 since it began, each once and in order,
\* whatever the handler returned for the ones before.
Consumed(s) == {k \in DOMAIN log[Topic[s]] : k > start[s] /\ log[Topic[s]][k] = 0}

HandleMessage(s) ==
  /\ pc[s] = "handling" /\ s \in open
  /\ Consumed(s) \cap Fresh(s) # {}
  /\ LET k == Min(Consumed(s) \cap Fresh(s)) IN HandlerSucceeds(s, k) \/ HandlerFails(s, k)
  /\ UNCHANGED <<bus, conns, subVars, log, start>>

\* The goroutine leaves its loop: its context is done and it closes its consumer, or
\* the consumer has been closed.
LeavesOpen(s) ==
  /\ pc[s] = "handling"
  /\ s \in done \/ s \notin open
  /\ Goto(s, "leaving")
  /\ UNCHANGED <<bus, conns, open, tracked, done, msgVars>>
Leave(s) ==
  /\ pc[s] = "handling"
  /\ s \in done \/ s \notin open
  /\ open' = open \ {s}
  /\ Goto(s, "leaving")
  /\ UNCHANGED <<bus, conns, tracked, done, msgVars>>

\* The deferred function: the entry of the topic is removed, whosever it is.
Untrack(s) ==
  /\ pc[s] = "leaving"
  /\ tracked' = [tracked EXCEPT ![Topic[s]] = None]
  /\ Goto(s, "ended")
  /\ UNCHANGED <<bus, conns, open, done, msgVars>>

\* The end of Close: producer and consumer, whatever errors there were.
CloseConnections ==
  /\ bus = "closing"
  /\ bus' = "closed" /\ conns' = {}
  /\ UNCHANGED <<subVars, msgVars>>

Goroutine(s) == HandleMessage(s) \/ Leave(s) \/ Untrack(s)

KafkaNext ==
  \/ NewProducer \/ NewProducerFails \/ NewConsumer \/ NewConsumerFails
  \/ \E s \in Subs : ConsumePartition(s) \/ Goroutine(s)
  \/ CloseConnections
=============================================================================
