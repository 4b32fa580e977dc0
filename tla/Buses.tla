------------------------------- MODULE Buses --------------------------------
(***************************************************************************)
(* messaging.NewBus makes the bus the configuration names (core/messaging/ *)
(* registry.go), and EventWatchers (platform/k8s/eventwatcher.go) and the  *)
(* programs use it: they subscribe, publish, let a context end and close   *)
(* the bus, in any order.                                                  *)
(***************************************************************************)
EXTENDS MessageBus

VARIABLES
  kind,     \* the bus type asked for
  late,     \* calls of Subscribe that had not come to the map when Close took its lock
  robbed    \* Kafka consumers whose entry another's deferred function has removed

Kafka == INSTANCE KafkaBus
NATS  == INSTANCE NATSBus

busVars == <<kind, late, robbed, vars>>

\* The types that have registered a constructor.
Registered == {"kafka", "nats"}

TypeOK ==
  /\ BusTypeOK
  /\ kind \in Registered \cup {"unknown"}
  /\ late \subseteq Subs /\ robbed \subseteq Subs
  /\ \A s \in open : pc[s] \in {"consuming", "handling"}

Init == BusInit /\ kind \in Registered \cup {"unknown"} /\ late = {} /\ robbed = {}

UnknownType ==
  /\ kind \notin Registered /\ bus = "none"
  /\ bus' = "failed"
  /\ UNCHANGED <<conns, subVars, msgVars>>

\* JetStream has no partitions.
Publishes(t) == \E p \in IF kind = "nats" THEN {0} ELSE Partitions : Publish(t, p)

\* Subscriptions whose deferred function runs in this step, and what they had not come to
\* when Close began.
Untracking == {s \in Subs : pc[s] = "leaving" /\ pc'[s] = "ended"}
Recorded ==
  /\ robbed' = robbed \cup ({tracked[Topic[s]] : s \in Untracking} \ (Untracking \cup {None}))
  /\ late' = IF bus = "open" /\ bus' = "closing" THEN {s \in Subs : pc[s] \in {"new", "consuming"}}
                                                ELSE late

Next ==
  /\ \/ UnknownType
     \/ kind = "kafka" /\ Kafka!KafkaNext
     \/ kind = "nats" /\ NATS!NATSNext
     \/ \E s \in Subs : Track(s) \/ ContextDone(s)
     \/ \E t \in Topics : Publishes(t)
     \/ CloseTracked
  /\ UNCHANGED kind /\ Recorded

Spec == Init /\ [][Next]_busVars

\* Goroutines, callbacks and a Close once begun go on; a select that could leave its
\* loop again and again does.
FairSpec ==
  /\ Spec
  /\ \A s \in Subs :
       /\ WF_vars(Track(s))
       /\ WF_vars(kind = "kafka" /\ Kafka!HandleMessage(s))
       /\ SF_vars(kind = "kafka" /\ Kafka!Leave(s))
       /\ WF_vars(kind = "kafka" /\ Kafka!Untrack(s))
       /\ WF_vars(kind = "nats" /\ NATS!Callback(s))
  /\ WF_vars(kind = "kafka" /\ Kafka!CloseConnections)
  /\ WF_vars(kind = "nats" /\ NATS!CloseConnection)

-----------------------------------------------------------------------------

\* A Kafka consumer that is handling messages is in the map Close goes through, except
\* when an older subscription to its topic has come to its end since: the deferred
\* function removes the entry by the name of the topic, and with it the newer consumer's.
\* Nothing else takes it out, and no Subscribe overwrites it.
LostOnlyIfRobbed ==
  \A s \in Subs :
    kind = "kafka" /\ pc[s] = "handling" /\ s \in open => tracked[Topic[s]] = s \/ s \in robbed

\* "Close all partition consumers first": from there on only those consume whose Subscribe
\* had not come to the map when Close took the lock, and those that had been robbed of
\* their entry.  Whatever was handling messages by then has been closed.
CloseMissesOnlyLate ==
  kind = "kafka" /\ bus \in {"closing", "closed"} => \A s \in open : s \in late \/ s \in robbed

\* A Kafka subscription whose context is done, or whose consumer Close has closed, ends:
\* its goroutine returns, its consumer is closed and it is no longer in the map,
\* whatever else is going on.
DoneMeansEnded ==
  \A s \in Subs :
    kind = "kafka" /\ pc[s] = "handling" /\ (s \in done \/ s \notin open)
      ~> pc[s] = "ended" /\ s \notin open /\ tracked[Topic[s]] # s

\* What a subscription is owed: on NATS every message of the topic, on Kafka those put in
\* partition 0 after it began.
Owed(s, k) ==
  s \in open /\ k \in IF kind = "kafka" THEN Kafka!Consumed(s) ELSE DOMAIN log[Topic[s]]

\* A message a subscription is owed is handled, or the subscription closed first.  On NATS
\* that takes a handler that returned no error, and the end of the context does not stop
\* it; on Kafka the handler is called once.
EventuallyHandled ==
  \A s \in Subs, k \in 1..MaxMessages :
    Owed(s, k) ~> \/ k \in handled[s] \/ s \notin open
                  \/ kind = "kafka" /\ k \in errored[s]

-----------------------------------------------------------------------------
(* The inductive invariant behind these properties *)

\* Connections and consumers are those of a bus that has been made and not closed.
ConnectionsInUse ==
  /\ bus \in {"none", "failed", "closed"} => conns = {}
  /\ bus \in {"none", "connecting", "failed"} => open = {}
  /\ kind = "nats" /\ bus = "closed" => open = {}
  /\ kind = "unknown" => bus \in {"none", "failed"}

\* The broker's client has one consumer of a topic, and Subscribe holds it until the
\* map does: only a goroutine or Close closes it.
OneConsumerEach ==
  kind = "kafka" =>
    /\ \A s, u \in open : Topic[s] = Topic[u] => s = u
    /\ \A s \in Subs : pc[s] = "consuming" => s \in open

\* The entry of a topic is a subscription to it that Subscribe has entered and whose
\* goroutine has not come to its end.
MapConsistent ==
  \A t \in Topics : tracked[t] # None =>
    Topic[tracked[t]] = t /\ pc[tracked[t]] \in {"handling", "leaving"}

\* A Subscribe that comes to the map after Close has been there is late.
LateIsLate ==
  bus \in {"closing", "closed"} => \A s \in Subs : pc[s] \in {"new", "consuming"} => s \in late

BusesInv ==
  /\ TypeOK /\ ConnectionsInUse /\ OneConsumerEach /\ MapConsistent
  /\ LostOnlyIfRobbed /\ LateIsLate /\ CloseMissesOnlyLate
=============================================================================
