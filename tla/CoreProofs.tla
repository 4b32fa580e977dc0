----------------------------- MODULE CoreProofs -----------------------------
(***************************************************************************)
(* Proofs about what both programs use of core/: the message buses (module *)
(* Buses), for any subscriptions, topics, partitions and messages, and the *)
(* start and the end of a process (module Process), for any number of      *)
(* restarts.                                                               *)
(***************************************************************************)
EXTENDS Buses, Process, WellFoundedInduction, TLAPS

\* The next message to be delivered is one of those that wait.
LEMMA MinIsMember ==
  ASSUME NEW S \in SUBSET Nat, S # {}
  PROVE  Kafka!Min(S) \in S /\ NATS!Min(S) \in S
<1>1. \E m \in S : \A n \in S : m <= n
  <2>1. PICK m \in S : \A n \in S : ~(<<n, m>> \in OpToRel(<, Nat))
    BY NatLessThanWellFounded, WFMin
  <2>2. \A n \in S : ~(n < m)
    BY <2>1 DEF OpToRel
  <2> QED
    BY <2>2
<1> QED
  BY <1>1 DEF Kafka!Min, NATS!Min

\* What is recorded of a step in which no deferred function runs and Close does not begin.
LEMMA NothingRecorded ==
  ASSUME Recorded, \A s \in Subs : pc[s] = "leaving" => pc'[s] # "ended",
         bus = "open" => bus' # "closing"
  PROVE  UNCHANGED <<late, robbed>>
BY DEF Recorded, Untracking

\* A step that changes only messages.
LEMMA OnlyMessages ==
  ASSUME BusesInv, UNCHANGED <<bus, conns, subVars, kind, late, robbed>>, MessagesTypeOK'
  PROVE  BusesInv'
BY DEF BusesInv, TypeOK, BusTypeOK, CallsTypeOK, subVars, ConnectionsInUse, OneConsumerEach, MapConsistent,
   LostOnlyIfRobbed, LateIsLate, CloseMissesOnlyLate

\* A handler is called with a message of its topic.
LEMMA HandlerCalled ==
  ASSUME BusesInv, NEW s \in Subs, NEW k \in DOMAIN log[Topic[s]],
         HandlerSucceeds(s, k) \/ HandlerFails(s, k),
         UNCHANGED <<bus, conns, subVars, log, start, kind, late, robbed>>
  PROVE  BusesInv'
<1>1. MessagesTypeOK
  BY DEF BusesInv, TypeOK, BusTypeOK
<1>2. Topic[s] \in Topics /\ k \in Nat
  BY <1>1 DEF MessagesTypeOK, Topics
<1>3. /\ handled' \in [Subs -> SUBSET Nat] /\ errored' \in [Subs -> SUBSET Nat]
      /\ errors' \in Nat
  <2>1. handled[s] \cup {k} \in SUBSET Nat /\ errored[s] \cup {k} \in SUBSET Nat /\ errored[s] \ {k} \in SUBSET Nat
    BY <1>1, <1>2 DEF MessagesTypeOK
  <2>2. CASE HandlerSucceeds(s, k)
    BY <1>1, <2>1, <2>2 DEF MessagesTypeOK, HandlerSucceeds
  <2>3. CASE HandlerFails(s, k)
    BY <1>1, <2>1, <2>3 DEF MessagesTypeOK, HandlerFails
  <2> QED
    BY <2>2, <2>3
<1>4. \A u \in Subs : (handled'[u] \cup errored'[u]) \subseteq DOMAIN log[Topic[u]]
  <2>1. \A u \in Subs : /\ handled'[u] \subseteq handled[u] \cup (IF u = s THEN {k} ELSE {})
                       /\ errored'[u] \subseteq errored[u] \cup (IF u = s THEN {k} ELSE {})
    BY <1>1 DEF MessagesTypeOK, HandlerSucceeds, HandlerFails
  <2> QED
    BY <1>1, <2>1 DEF MessagesTypeOK
<1>5. MessagesTypeOK'
  BY <1>1, <1>3, <1>4 DEF MessagesTypeOK
<1> QED
  BY <1>5, OnlyMessages

\* A message is published, or handled.
LEMMA MessageSteps ==
  ASSUME BusesInv, UNCHANGED <<kind, late, robbed>>,
         \/ \E s \in Subs : Kafka!HandleMessage(s) \/ NATS!Callback(s)
         \/ \E t \in Topics : Publishes(t)
  PROVE  BusesInv'
<1>1. MessagesTypeOK
  BY DEF BusesInv, TypeOK, BusTypeOK
<1>2. ASSUME NEW s \in Subs, Kafka!HandleMessage(s) PROVE BusesInv'
  <2> DEFINE k == Kafka!Min(Kafka!Consumed(s) \cap Kafka!Fresh(s))
  <2>1. Topic[s] \in Topics /\ log[Topic[s]] \in Seq(Partitions)
    BY <1>1 DEF MessagesTypeOK, Topics
  <2>2. k \in Kafka!Consumed(s) \cap Kafka!Fresh(s)
    <3>1. Kafka!Consumed(s) \cap Kafka!Fresh(s) \subseteq Nat
      BY <2>1 DEF Kafka!Consumed
    <3> QED
      BY <1>2, <3>1, MinIsMember DEF Kafka!HandleMessage
  <2>3. k \in DOMAIN log[Topic[s]]
    BY <2>2 DEF Kafka!Consumed
  <2>4. /\ HandlerSucceeds(s, k) \/ HandlerFails(s, k)
        /\ UNCHANGED <<bus, conns, subVars, log, start>>
    BY <1>2 DEF Kafka!HandleMessage, Kafka!HandlerSucceeds, Kafka!HandlerFails, HandlerSucceeds,
       HandlerFails, Kafka!subVars, subVars
  <2> HIDE DEF k
  <2> QED
    BY <2>3, <2>4, HandlerCalled
<1>3. ASSUME NEW s \in Subs, NATS!Callback(s) PROVE BusesInv'
  <2>1. Topic[s] \in Topics /\ log[Topic[s]] \in Seq(Partitions)
    BY <1>1 DEF MessagesTypeOK, Topics
  <2>2. NATS!Fresh(s) # {} => NATS!Min(NATS!Fresh(s)) \in NATS!Fresh(s)
    <3>1. NATS!Fresh(s) \subseteq Nat
      BY <2>1 DEF NATS!Fresh
    <3> QED
      BY <3>1, MinIsMember
  <2>3. PICK k \in NATS!Redelivered(s) \cup (IF NATS!Fresh(s) = {} THEN {} ELSE {NATS!Min(NATS!Fresh(s))}) :
          NATS!HandlerSucceeds(s, k) \/ NATS!HandlerFails(s, k)
    BY <1>3 DEF NATS!Callback
  <2>4. k \in DOMAIN log[Topic[s]]
    BY <1>1, <2>2, <2>3 DEF NATS!Redelivered, NATS!Fresh, MessagesTypeOK
  <2>5. /\ HandlerSucceeds(s, k) \/ HandlerFails(s, k)
        /\ UNCHANGED <<bus, conns, subVars, log, start>>
    BY <1>3, <2>3 DEF NATS!Callback, NATS!HandlerSucceeds, NATS!HandlerFails, HandlerSucceeds,
       HandlerFails, NATS!subVars, subVars
  <2> QED
    BY <2>4, <2>5, HandlerCalled
<1>4. ASSUME NEW t \in Topics, NEW p \in Partitions, Publish(t, p) PROVE BusesInv'
  <2>1. /\ log' = [log EXCEPT ![t] = Append(@, p)]
        /\ UNCHANGED <<bus, conns, subVars, start, handled, errored, errors>>
    BY <1>4 DEF Publish
  <2>2. log' \in [Topics -> Seq(Partitions)]
    BY <1>1, <2>1 DEF MessagesTypeOK
  <2>3. \A u \in Topics : DOMAIN log[u] \subseteq DOMAIN log'[u]
    <3>1. DOMAIN log[t] \subseteq DOMAIN Append(log[t], p)
      BY <1>1 DEF MessagesTypeOK
    <3> QED
      BY <1>1, <2>1, <3>1 DEF MessagesTypeOK
  <2>4. \A s \in Subs : (handled[s] \cup errored[s]) \subseteq DOMAIN log'[Topic[s]]
    BY <1>1, <2>3 DEF MessagesTypeOK, Topics
  <2>5. MessagesTypeOK'
    BY <1>1, <2>1, <2>2, <2>4 DEF MessagesTypeOK
  <2> QED
    BY <2>1, <2>5, OnlyMessages
<1> QED
  BY <1>2, <1>3, <1>4, BusAssumption DEF Publishes

\* A step that leaves the messages alone.
LEMMA MessagesStay ==
  ASSUME MessagesTypeOK, UNCHANGED msgVars
  PROVE  MessagesTypeOK'
BY DEF MessagesTypeOK, msgVars

\* New, with whichever error.
LEMMA ConnectionSteps ==
  ASSUME BusesInv, UNCHANGED <<kind, late, robbed>>,
         \/ UnknownType
         \/ /\ kind = "kafka"
            /\ \/ Kafka!NewProducer \/ Kafka!NewProducerFails
               \/ Kafka!NewConsumer \/ Kafka!NewConsumerFails
         \/ kind = "nats" /\ (NATS!Connect \/ NATS!ConnectFails \/ NATS!JetStream \/ NATS!JetStreamFails)
  PROVE  BusesInv'
<1>1. /\ bus \in {"none", "connecting"} /\ bus' \in {"connecting", "failed", "open"}
      /\ conns' \subseteq {"producer", "consumer", "conn"}
      /\ bus' = "failed" => conns' = {}
      /\ kind = "unknown" => bus' = "failed"
  BY DEF BusesInv, TypeOK, BusTypeOK, CallsTypeOK, ConnectionsInUse, UnknownType, Registered,
     Kafka!NewProducer, Kafka!NewProducerFails, Kafka!NewConsumer, Kafka!NewConsumerFails,
     NATS!Connect, NATS!ConnectFails, NATS!JetStream, NATS!JetStreamFails
<1>2. UNCHANGED <<pc, open, tracked, done>> /\ UNCHANGED msgVars
  BY DEF UnknownType, Kafka!NewProducer, Kafka!NewProducerFails, Kafka!NewConsumer, Kafka!NewConsumerFails,
     NATS!Connect, NATS!ConnectFails, NATS!JetStream, NATS!JetStreamFails, subVars, msgVars,
     Kafka!subVars, Kafka!msgVars, NATS!subVars, NATS!msgVars
<1>3. MessagesTypeOK'
  BY <1>2, MessagesStay DEF BusesInv, TypeOK, BusTypeOK
<1>4. TypeOK'
  BY <1>1, <1>2, <1>3 DEF BusesInv, TypeOK, BusTypeOK, CallsTypeOK
<1>5. open = {}
  BY <1>1 DEF BusesInv, ConnectionsInUse
<1> QED
  BY <1>1, <1>2, <1>4, <1>5 DEF BusesInv, ConnectionsInUse, OneConsumerEach, MapConsistent, LostOnlyIfRobbed,
     LateIsLate, CloseMissesOnlyLate

\* Subscribe opens a consumer, or is refused.
LEMMA SubscribeSteps ==
  ASSUME BusesInv, UNCHANGED <<kind, late, robbed>>, NEW s \in Subs,
         \/ kind = "kafka" /\ Kafka!ConsumePartition(s)
         \/ kind = "nats" /\ NATS!Subscribe(s)
  PROVE  BusesInv'
<1> USE DEF BusesInv, TypeOK, BusTypeOK, CallsTypeOK
<1>1. /\ pc[s] = "new" /\ bus \in {"open", "closing", "closed"}
      /\ UNCHANGED <<bus, conns, tracked, done>>
      /\ \/ pc' = [pc EXCEPT ![s] = "consuming"] /\ open' = open \cup {s} /\ conns # {}
         \/ pc' = [pc EXCEPT ![s] = "refused"] /\ open' = open
      /\ kind = "kafka" /\ s \in open' => \A u \in open : Topic[u] # Topic[s]
  BY DEF Kafka!ConsumePartition, Kafka!Available, Kafka!Goto, NATS!Subscribe, NATS!Goto
<1>2. MessagesTypeOK'
  <2>1. CASE Kafka!ConsumePartition(s)
    <3>1. Len(log[Topic[s]]) \in Nat
      BY DEF MessagesTypeOK, Topics
    <3> QED
      BY <2>1, <3>1 DEF Kafka!ConsumePartition, MessagesTypeOK
  <2>2. CASE NATS!Subscribe(s)
    BY <2>2, MessagesStay DEF NATS!Subscribe, NATS!msgVars, msgVars
  <2> QED
    BY <2>1, <2>2
<1>3. TypeOK'
  BY <1>1, <1>2
<1>4. s \notin open
  BY <1>1
<1>5. ConnectionsInUse'
  BY <1>1 DEF ConnectionsInUse
<1>6. OneConsumerEach'
  BY <1>1, <1>4 DEF OneConsumerEach
<1>7. MapConsistent'
  BY <1>1 DEF MapConsistent
<1>8. LostOnlyIfRobbed'
  BY <1>1, <1>4 DEF LostOnlyIfRobbed
<1>9. LateIsLate' /\ CloseMissesOnlyLate'
  BY <1>1 DEF LateIsLate, CloseMissesOnlyLate
<1> QED
  BY <1>3, <1>5, <1>6, <1>7, <1>8, <1>9

\* Subscribe enters its consumer in the map, the only one of its topic that is open.
LEMMA TrackStep ==
  ASSUME BusesInv, UNCHANGED <<kind, late, robbed>>, NEW s \in Subs, Track(s)
  PROVE  BusesInv'
<1> USE DEF BusesInv, TypeOK, BusTypeOK, CallsTypeOK
<1>1. /\ pc[s] = "consuming" /\ pc' = [pc EXCEPT ![s] = "handling"]
      /\ tracked' = [tracked EXCEPT ![Topic[s]] = s]
      /\ UNCHANGED <<bus, conns, open, done>> /\ UNCHANGED msgVars
  BY DEF Track, Goto
<1>2. MessagesTypeOK'
  BY <1>1, MessagesStay
<1>3. Topic[s] \in Topics
  BY DEF Topics
<1>4. TypeOK'
  BY <1>1, <1>2, <1>3
<1>5. OneConsumerEach' /\ ConnectionsInUse'
  BY <1>1 DEF OneConsumerEach, ConnectionsInUse
<1>6. MapConsistent'
  BY <1>1, <1>3 DEF MapConsistent
<1>7. LostOnlyIfRobbed'
  <2> SUFFICES ASSUME NEW u \in Subs, kind = "kafka", pc'[u] = "handling", u \in open, u \notin robbed
               PROVE  tracked'[Topic[u]] = u
    BY <1>1 DEF LostOnlyIfRobbed
  <2>1. CASE Topic[u] = Topic[s]
    BY <1>1, <1>3, <2>1 DEF OneConsumerEach
  <2>2. CASE Topic[u] # Topic[s]
    <3>1. pc[u] = "handling"
      BY <1>1, <2>2
    <3> QED
      BY <1>1, <2>2, <3>1 DEF LostOnlyIfRobbed, Topics
  <2> QED
    BY <2>1, <2>2
<1>8. LateIsLate' /\ CloseMissesOnlyLate'
  BY <1>1 DEF LateIsLate, CloseMissesOnlyLate
<1> QED
  BY <1>4, <1>5, <1>6, <1>7, <1>8

\* The goroutine of a subscription leaves its loop, then takes the topic's entry away.
LEMMA GoroutineSteps ==
  ASSUME BusesInv, kind' = kind, Recorded, NEW s \in Subs, Kafka!Leave(s) \/ Kafka!Untrack(s)
  PROVE  BusesInv'
<1> USE DEF BusesInv, TypeOK, BusTypeOK, CallsTypeOK
<1>1. UNCHANGED <<bus, conns, done>> /\ UNCHANGED msgVars
  BY DEF Kafka!Leave, Kafka!Untrack, Kafka!msgVars, msgVars
<1>2. MessagesTypeOK'
  BY <1>1, MessagesStay
<1>3. CASE Kafka!Leave(s)
  <2>1. /\ pc[s] = "handling" /\ pc' = [pc EXCEPT ![s] = "leaving"]
        /\ open' = open \ {s} /\ tracked' = tracked
    BY <1>3 DEF Kafka!Leave, Kafka!Goto
  <2>2. UNCHANGED <<late, robbed>>
    BY <1>1, <2>1, NothingRecorded
  <2>3. TypeOK'
    BY <1>1, <1>2, <2>1, <2>2
  <2>4. OneConsumerEach' /\ ConnectionsInUse' /\ MapConsistent'
    BY <1>1, <2>1 DEF OneConsumerEach, ConnectionsInUse, MapConsistent
  <2>5. LostOnlyIfRobbed' /\ LateIsLate' /\ CloseMissesOnlyLate'
    BY <1>1, <2>1, <2>2 DEF LostOnlyIfRobbed, LateIsLate, CloseMissesOnlyLate
  <2> QED
    BY <2>3, <2>4, <2>5
<1>4. CASE Kafka!Untrack(s)
  <2>1. /\ pc[s] = "leaving" /\ pc' = [pc EXCEPT ![s] = "ended"]
        /\ open' = open /\ tracked' = [tracked EXCEPT ![Topic[s]] = None]
    BY <1>4 DEF Kafka!Untrack, Kafka!Goto, Kafka!None, None
  <2>2. late' = late /\ robbed' = robbed \cup ({tracked[Topic[s]]} \ {s, None})
    <3>1. {u \in Subs : pc[u] = "leaving" /\ pc'[u] = "ended"} = {s}
      BY <2>1
    <3> QED
      BY <1>1, <3>1 DEF Recorded, Untracking
  <2>3. TypeOK'
    <3>1. {tracked[Topic[s]]} \ {s, None} \subseteq Subs
      BY DEF Topics
    <3> QED
      BY <1>1, <1>2, <2>1, <2>2, <3>1
  <2>4. OneConsumerEach' /\ ConnectionsInUse' /\ MapConsistent'
    BY <1>1, <2>1 DEF OneConsumerEach, ConnectionsInUse, MapConsistent, Topics
  <2>5. LostOnlyIfRobbed'
    <3> SUFFICES ASSUME NEW u \in Subs, kind = "kafka", pc'[u] = "handling", u \in open, u \notin robbed'
                 PROVE  tracked'[Topic[u]] = u
      BY <1>1, <2>1 DEF LostOnlyIfRobbed
    <3>1. u # s /\ u # None /\ pc[u] = "handling" /\ tracked[Topic[u]] = u
      BY <2>1, <2>2, BusAssumption DEF LostOnlyIfRobbed
    <3>2. Topic[u] # Topic[s]
      BY <2>2, <3>1
    <3> QED
      BY <2>1, <3>1, <3>2 DEF Topics
  <2>6. LateIsLate' /\ CloseMissesOnlyLate'
    BY <1>1, <2>1, <2>2 DEF LateIsLate, CloseMissesOnlyLate
  <2> QED
    BY <2>3, <2>4, <2>5, <2>6
<1> QED
  BY <1>3, <1>4

\* A context ends, and the two halves of Close.
LEMMA CloseSteps ==
  ASSUME BusesInv, kind' = kind, Recorded,
         \/ \E s \in Subs : ContextDone(s)
         \/ CloseTracked
         \/ kind = "kafka" /\ Kafka!CloseConnections
         \/ kind = "nats" /\ NATS!CloseConnection
  PROVE  BusesInv'
<1> USE DEF BusesInv, TypeOK, BusTypeOK, CallsTypeOK
<1>1. pc' = pc /\ UNCHANGED msgVars
  BY DEF ContextDone, CloseTracked, Kafka!CloseConnections, NATS!CloseConnection, Kafka!subVars,
     Kafka!msgVars, NATS!msgVars, msgVars
<1>2. MessagesTypeOK'
  BY <1>1, MessagesStay
<1>3. CASE \E s \in Subs : ContextDone(s)
  <2>1. UNCHANGED <<bus, conns, open, tracked>> /\ done' \subseteq Subs
    BY <1>3 DEF ContextDone
  <2>2. UNCHANGED <<late, robbed>>
    BY <1>1, <2>1, NothingRecorded
  <2> QED
    BY <1>1, <1>2, <2>1, <2>2 DEF ConnectionsInUse, OneConsumerEach, MapConsistent, LostOnlyIfRobbed,
       LateIsLate, CloseMissesOnlyLate
<1>4. CASE CloseTracked
  <2>1. /\ bus = "open" /\ bus' = "closing" /\ UNCHANGED <<conns, done>>
        /\ open' = open \ {tracked[t] : t \in Topics}
        /\ tracked' = [t \in Topics |-> None]
    BY <1>4 DEF CloseTracked
  <2>0. robbed' = robbed /\ late' = {s \in Subs : pc[s] \in {"new", "consuming"}}
    BY <1>1, <2>1 DEF Recorded, Untracking
  <2>2. TypeOK'
    BY <1>1, <1>2, <2>0, <2>1
  <2>3. ConnectionsInUse'
    BY <2>1 DEF ConnectionsInUse
  <2>4. OneConsumerEach'
    <3>1. \A u \in Subs : pc[u] = "consuming" => u \notin {tracked[t] : t \in Topics}
      BY BusAssumption DEF MapConsistent
    <3> QED
      BY <1>1, <2>1, <3>1 DEF OneConsumerEach
  <2>5. MapConsistent'
    BY <2>1 DEF MapConsistent
  <2>6. LostOnlyIfRobbed'
    BY <1>1, <2>0, <2>1 DEF LostOnlyIfRobbed, Topics
  <2>7. LateIsLate'
    BY <1>1, <2>0 DEF LateIsLate
  <2>8. CloseMissesOnlyLate'
    <3> SUFFICES ASSUME kind = "kafka", NEW s \in open', s \notin robbed PROVE s \in late'
      BY <2>0 DEF CloseMissesOnlyLate
    <3>1. s \in Subs /\ s \in open /\ tracked[Topic[s]] # s
      BY <2>1 DEF Topics
    <3>2. pc[s] = "consuming"
      BY <3>1 DEF LostOnlyIfRobbed
    <3> QED
      BY <2>0, <3>1, <3>2
  <2> QED
    BY <2>2, <2>3, <2>4, <2>5, <2>6, <2>7, <2>8
<1>5. CASE \/ kind = "kafka" /\ Kafka!CloseConnections
           \/ kind = "nats" /\ NATS!CloseConnection
  <2>1. /\ bus = "closing" /\ bus' = "closed" /\ conns' = {} /\ UNCHANGED <<tracked, done>>
        /\ open' = IF kind = "nats" THEN {} ELSE open
    BY <1>5 DEF Kafka!CloseConnections, Kafka!subVars, NATS!CloseConnection
  <2>2. UNCHANGED <<late, robbed>>
    BY <1>1, <2>1, NothingRecorded
  <2> QED
    BY <1>1, <1>2, <2>1, <2>2 DEF ConnectionsInUse, OneConsumerEach, MapConsistent, LostOnlyIfRobbed,
       LateIsLate, CloseMissesOnlyLate
<1> QED
  BY <1>3, <1>4, <1>5

\* At the start nothing is subscribed.
LEMMA BusesInvInit == Init => BusesInv
<1> SUFFICES ASSUME Init PROVE BusesInv
  OBVIOUS
<1>1. MessagesTypeOK
  <2>1. \A t \in Topics : log[t] = <<>> /\ log[t] \in Seq(Partitions)
    BY DEF Init, BusInit
  <2> QED
    BY <2>1 DEF Init, BusInit, MessagesTypeOK
<1>2. TypeOK
  BY <1>1 DEF Init, BusInit, TypeOK, BusTypeOK, CallsTypeOK
<1> QED
  BY <1>2 DEF Init, BusInit, BusesInv, ConnectionsInUse, OneConsumerEach, MapConsistent,
     LostOnlyIfRobbed, LateIsLate, CloseMissesOnlyLate, Registered

\* Every step keeps the invariant.
LEMMA BusesInvStep == BusesInv /\ [Next]_busVars => BusesInv'
<1> SUFFICES ASSUME BusesInv, [Next]_busVars PROVE BusesInv'
  OBVIOUS
<1>1. CASE UNCHANGED busVars
  <2>1. UNCHANGED <<bus, conns, subVars, kind, late, robbed>> /\ UNCHANGED msgVars
    BY <1>1 DEF busVars, vars
  <2> QED
    BY <2>1, MessagesStay, OnlyMessages DEF BusesInv, TypeOK, BusTypeOK
<1>2. CASE Next
  <2>0. kind' = kind /\ Recorded
    BY <1>2 DEF Next
  <2>1. CASE \/ UnknownType
             \/ /\ kind = "kafka"
                /\ \/ Kafka!NewProducer \/ Kafka!NewProducerFails
                   \/ Kafka!NewConsumer \/ Kafka!NewConsumerFails
             \/ kind = "nats" /\ (NATS!Connect \/ NATS!ConnectFails \/ NATS!JetStream \/ NATS!JetStreamFails)
    <3>1. pc' = pc /\ bus # "open"
      BY <2>1 DEF UnknownType, Kafka!NewProducer, Kafka!NewProducerFails, Kafka!NewConsumer,
         Kafka!NewConsumerFails, NATS!Connect, NATS!ConnectFails, NATS!JetStream, NATS!JetStreamFails,
         subVars, Kafka!subVars, NATS!subVars
    <3>2. UNCHANGED <<late, robbed>>
      BY <2>0, <3>1, NothingRecorded
    <3> QED
      BY <2>0, <2>1, <3>2, ConnectionSteps
  <2>2. CASE \E s \in Subs : \/ kind = "kafka" /\ Kafka!ConsumePartition(s)
                             \/ kind = "nats" /\ NATS!Subscribe(s)
    <3> PICK s \in Subs : \/ kind = "kafka" /\ Kafka!ConsumePartition(s)
                          \/ kind = "nats" /\ NATS!Subscribe(s)
      BY <2>2
    <3>1. bus' = bus /\ \A u \in Subs : pc'[u] # "ended" \/ pc'[u] = pc[u]
      BY DEF Kafka!ConsumePartition, Kafka!Goto, NATS!Subscribe, NATS!Goto, BusesInv, TypeOK, BusTypeOK,
         CallsTypeOK
    <3>2. UNCHANGED <<late, robbed>>
      BY <2>0, <3>1, NothingRecorded
    <3> QED
      BY <2>0, <3>2, SubscribeSteps
  <2>3. CASE \E s \in Subs : Kafka!Leave(s) \/ Kafka!Untrack(s)
    BY <2>0, <2>3, GoroutineSteps
  <2>4. CASE \E s \in Subs : Track(s)
    <3> PICK s \in Subs : Track(s)
      BY <2>4
    <3>1. bus' = bus /\ \A u \in Subs : pc'[u] # "ended" \/ pc'[u] = pc[u]
      BY DEF Track, Goto, BusesInv, TypeOK, BusTypeOK, CallsTypeOK
    <3>2. UNCHANGED <<late, robbed>>
      BY <2>0, <3>1, NothingRecorded
    <3> QED
      BY <2>0, <3>2, TrackStep
  <2>5. CASE \/ \E s \in Subs : Kafka!HandleMessage(s) \/ NATS!Callback(s)
             \/ \E t \in Topics : Publishes(t)
    <3>1. UNCHANGED <<bus, pc>>
      BY <2>5 DEF Kafka!HandleMessage, NATS!Callback, Publishes, Publish, Kafka!subVars, NATS!subVars, subVars
    <3>2. UNCHANGED <<late, robbed>>
      BY <2>0, <3>1, NothingRecorded
    <3> QED
      BY <2>0, <2>5, <3>2, MessageSteps
  <2>6. CASE \/ \E s \in Subs : ContextDone(s)
             \/ CloseTracked
             \/ kind = "kafka" /\ Kafka!CloseConnections
             \/ kind = "nats" /\ NATS!CloseConnection
    BY <2>0, <2>6, CloseSteps
  <2> QED
    BY <1>2, <2>1, <2>2, <2>3, <2>4, <2>5, <2>6 DEF Next, Kafka!KafkaNext, Kafka!Goroutine, NATS!NATSNext
<1> QED
  BY <1>1, <1>2

\* On either bus, whatever is subscribed, published and closed in whatever order: one
\* Kafka consumer of a topic at a time, and a map of those that have not come to an end.
THEOREM BusesInvariance == Spec => []BusesInv
BY BusesInvInit, BusesInvStep, PTL DEF Spec

\* A Kafka consumer that handles messages is in the map Close goes through, unless the
\* deferred function of an older subscription to its topic has taken its entry out.
THEOREM OnlyTheRobbedAreLost == Spec => []LostOnlyIfRobbed
<1>1. BusesInv => LostOnlyIfRobbed
  BY DEF BusesInv
<1> QED
  BY <1>1, BusesInvariance, PTL

\* From when KafkaBus.Close has emptied its map, the only consumers open are those of a
\* Subscribe that had not come to the map by then and those that had been robbed of their
\* entry: whatever else was handling messages has been closed.
THEOREM CloseClosesWhatItKnew == Spec => []CloseMissesOnlyLate
<1>1. BusesInv => CloseMissesOnlyLate
  BY DEF BusesInv
<1> QED
  BY <1>1, BusesInvariance, PTL

-----------------------------------------------------------------------------
(* Process *)

\* The steps of a start are those the type invariant lists.
LEMMA StartupType ==
  ASSUME NEW p \in Programs
  PROVE  StartupSteps(p) \in Seq({"logger", "tracing", "metrics", "config", "client", "manager",
                                  "adapter", "reconcilers"})
<1> DEFINE S == {"logger", "tracing", "metrics", "config", "client", "manager", "adapter", "reconcilers"}
<1>1. /\ "logger" \in S /\ "tracing" \in S /\ "metrics" \in S /\ "config" \in S
      /\ "client" \in S /\ "manager" \in S /\ "adapter" \in S /\ "reconcilers" \in S
  OBVIOUS
<1> HIDE DEF S
<1>2. /\ <<"logger", "tracing", "config", "client">> \in Seq(S)
      /\ <<"logger", "tracing", "metrics", "config", "manager", "adapter", "reconcilers">> \in Seq(S)
  BY <1>1
<1> QED
  BY <1>2 DEF StartupSteps, S

\* A process that starts, first or again, has nothing open.
LEMMA FreshProcess ==
  ASSUME prog' \in Programs, at' = "startup", todo' = StartupSteps(prog'),
         configured' \subseteq Exporters, down' \subseteq Exporters,
         exporter' = [e \in Exporters |-> "none"],
         shutdowns' = {}, running' = {}, deadline' = FALSE, signals' = 0, restarts' \in Nat
  PROVE  ProcessInv'
<1>1. RunTypeOK'
  BY StartupType DEF RunTypeOK
<1>2. \A e \in Exporters : exporter'[e] = "none"
  OBVIOUS
<1> QED
  BY <1>1, <1>2 DEF ProcessInv, OpenIsOwned, DeadlineForHanging

\* A step of the start, done or failed, leaves an exporter open only in the hands of the
\* step itself or of a callback.
LEMMA StartupStepOwns == ASSUME ProcessInv, StartupStep PROVE ProcessInv'
<1> USE DEF given
<1>0. /\ RunTypeOK /\ at = "startup" /\ todo # <<>> /\ ~deadline
      /\ \A e \in Exporters : exporter[e] \in {"created", "provider"} =>
           e \in configured /\ (AtStep(e) \/ (exporter[e] = "provider" /\ e \in shutdowns))
      /\ \A e \in Exporters : exporter[e] = "lost" => e \in down
  BY DEF ProcessInv, OpenIsOwned, DeadlineForHanging, Owing, StartupStep, PlainStep, PlainStepFails, AtStep,
     InitNoEndpoint, CreateExporter, CreateFails, BuildProvider, BuildInstruments, InitFails
<1> DEFINE Steps == {"logger", "tracing", "metrics", "config", "client", "manager", "adapter", "reconcilers"}
<1>1. Head(todo) \in Steps /\ Tail(todo) \in Seq(Steps) /\ todo \in Seq(Steps)
  BY <1>0 DEF RunTypeOK
<1> HIDE DEF Steps
\* What is left to show for a step that goes on, and for one that fails.
<1>2. ASSUME at' = "startup", todo' \in Seq(Steps), UNCHANGED <<given, running, deadline, signals>>,
             exporter' \in [Exporters -> {"none", "created", "provider", "closed", "lost"}],
             shutdowns' \subseteq Exporters, shutdowns \subseteq shutdowns',
             \A e \in Exporters : exporter'[e] = "lost" => exporter[e] = "lost",
             \A e \in Exporters : exporter'[e] \in {"created", "provider"} =>
               /\ e \in configured
               /\ (todo' = todo /\ Head(todo) = e) \/ (exporter'[e] = "provider" /\ e \in shutdowns')
      PROVE  ProcessInv'
  <2>1. RunTypeOK'
    BY <1>0, <1>2 DEF RunTypeOK, Steps
  <2>2. OpenIsOwned'
    BY <1>0, <1>2 DEF OpenIsOwned, AtStep, Owing
  <2> QED
    BY <1>0, <1>2, <2>1, <2>2 DEF ProcessInv, DeadlineForHanging
<1>3. ASSUME StartupFails,
             exporter' \in [Exporters -> {"none", "created", "provider", "closed", "lost"}],
             \A e \in Exporters : exporter'[e] = "lost" => exporter[e] = "lost",
             \A e \in Exporters : exporter'[e] \in {"created", "provider"} =>
               exporter'[e] = "provider" /\ e \in configured /\ e \in shutdowns
      PROVE  ProcessInv'
  <2>1. RunTypeOK'
    BY <1>0, <1>3 DEF RunTypeOK, StartupFails, RunReturns
  <2>2. OpenIsOwned'
    BY <1>3 DEF OpenIsOwned, Owing, StartupFails, RunReturns
  <2> QED
    BY <1>0, <1>3, <2>1, <2>2 DEF ProcessInv, DeadlineForHanging, StartupFails, RunReturns
<1>4. CASE PlainStep
  BY <1>0, <1>1, <1>2, <1>4 DEF PlainStep, AtStep, RunTypeOK
<1>5. CASE PlainStepFails
  BY <1>0, <1>3, <1>5 DEF PlainStepFails, AtStep, RunTypeOK
<1>6. ASSUME NEW e \in Exporters, InitNoEndpoint(e) PROVE ProcessInv'
  <2>1. ASSUME NEW d \in Exporters, exporter[d] \in {"created", "provider"}
        PROVE  exporter[d] = "provider" /\ d \in shutdowns'
    BY <1>0, <1>6, <2>1 DEF InitNoEndpoint, AtStep, InitReturns
  <2> QED
    BY <1>0, <1>1, <1>2, <1>6, <2>1 DEF InitNoEndpoint, AtStep, InitReturns, RunTypeOK
<1>7. ASSUME NEW e \in Exporters, CreateExporter(e) PROVE ProcessInv'
  BY <1>0, <1>1, <1>2, <1>7 DEF CreateExporter, AtStep, Set, RunTypeOK
<1>8. ASSUME NEW e \in Exporters, CreateFails(e) PROVE ProcessInv'
  BY <1>0, <1>3, <1>8 DEF CreateFails, AtStep, RunTypeOK
<1>9. ASSUME NEW e \in Exporters, BuildProvider(e) PROVE ProcessInv'
  BY <1>0, <1>1, <1>2, <1>9 DEF BuildProvider, AtStep, Set, InitReturns, RunTypeOK
<1>10. ASSUME NEW e \in Exporters, BuildInstruments(e) PROVE ProcessInv'
  BY <1>0, <1>1, <1>2, <1>10 DEF BuildInstruments, AtStep, InitReturns, RunTypeOK
<1>11. ASSUME NEW e \in Exporters, InitFails(e) PROVE ProcessInv'
  BY <1>0, <1>3, <1>11 DEF InitFails, AtStep, Set, RunTypeOK
<1> QED
  BY <1>4, <1>5, <1>6, <1>7, <1>8, <1>9, <1>10, <1>11 DEF StartupStep

\* A callback that returns has closed its exporter, or has lost what it held to a
\* collector that does not answer.
LEMMA FuncReturnsOwns ==
  ASSUME ProcessInv, NEW e \in Exporters, FuncReturns(e)
  PROVE  ProcessInv'
<1>0. /\ RunTypeOK /\ at = "shutdown" /\ e \in running /\ running' = running \ {e}
      /\ UNCHANGED <<given, at, todo, shutdowns, deadline, signals>>
      /\ deadline => \A d \in running : Hangs(d)
      /\ \A d \in Exporters : exporter[d] = "lost" => d \in down
      /\ \A d \in Exporters : /\ exporter[d] # "created"
                              /\ exporter[d] = "provider" => d \in configured /\ d \in running
  BY DEF ProcessInv, OpenIsOwned, DeadlineForHanging, Owing, AtStep, FuncReturns, AtWork
<1>1. /\ exporter' \in [Exporters -> {"none", "created", "provider", "closed", "lost"}]
      /\ exporter'[e] \in {exporter[e], "closed", "lost"} \ {"provider"}
      /\ exporter'[e] = "lost" => deadline \/ exporter[e] = "lost"
      /\ \A d \in Exporters \ {e} : exporter'[d] = exporter[d]
  BY <1>0 DEF FuncReturns, RunTypeOK, Set
<1>2. RunTypeOK'
  BY <1>0, <1>1 DEF RunTypeOK, given
<1>3. OpenIsOwned'
  BY <1>0, <1>1 DEF OpenIsOwned, Owing, given
<1>4. DeadlineForHanging'
  BY <1>0, <1>1 DEF DeadlineForHanging, Hangs, given, RunTypeOK
<1> QED
  BY <1>2, <1>3, <1>4 DEF ProcessInv

\* However the process starts, is stopped and ends, what is open is owed to a callback.
LEMMA ProcessInvInit == RunInit => ProcessInv
<1> SUFFICES ASSUME RunInit PROVE ProcessInv
  OBVIOUS
<1>1. RunTypeOK
  BY StartupType DEF RunInit, RunTypeOK
<1>2. \A e \in Exporters : exporter[e] = "none"
  BY DEF RunInit
<1> QED
  BY <1>1, <1>2 DEF ProcessInv, OpenIsOwned, DeadlineForHanging, RunInit

LEMMA ProcessInvStep == ProcessInv /\ [RunNext]_runVars => ProcessInv'
<1> SUFFICES ASSUME ProcessInv, [RunNext]_runVars PROVE ProcessInv'
  OBVIOUS
<1>0. RunTypeOK /\ OpenIsOwned /\ DeadlineForHanging
  BY DEF ProcessInv
<1> USE DEF given, Owing, AtStep, Hangs
<1>1. CASE Serve
  BY <1>0, <1>1 DEF ProcessInv, RunTypeOK, OpenIsOwned, DeadlineForHanging, Serve
<1>2. CASE ServingEnds
  BY <1>0, <1>2 DEF ProcessInv, RunTypeOK, OpenIsOwned, DeadlineForHanging, ServingEnds
<1>3. CASE Signal
  <2>1. at' \in {at, "killed"} \/ (at = "serving" /\ at' = "stopping")
    BY <1>3 DEF Signal
  <2>2. RunTypeOK' /\ UNCHANGED <<given, todo, exporter, shutdowns, running, deadline>>
    BY <1>0, <1>3 DEF Signal, RunTypeOK
  <2> QED
    BY <1>0, <2>1, <2>2 DEF ProcessInv, OpenIsOwned, DeadlineForHanging
<1>4. CASE Stopped
  BY <1>0, <1>4 DEF ProcessInv, RunTypeOK, OpenIsOwned, DeadlineForHanging, Stopped, RunReturns
<1>5. CASE DeadlinePasses
  BY <1>0, <1>5 DEF ProcessInv, RunTypeOK, OpenIsOwned, DeadlineForHanging, DeadlinePasses, AtWork
<1>6. CASE Exit
  BY <1>0, <1>6 DEF ProcessInv, RunTypeOK, OpenIsOwned, DeadlineForHanging, Exit
<1>7. CASE Restart
  <2>1. prog' \in Programs /\ configured' \subseteq Exporters /\ restarts' \in Nat /\ todo' = StartupSteps(prog')
    BY <1>0, <1>7 DEF Restart, RunTypeOK
  <2> QED
    BY <1>7, <2>1, FreshProcess DEF Restart
<1>8. CASE UNCHANGED runVars
  BY <1>0, <1>8 DEF ProcessInv, RunTypeOK, OpenIsOwned, DeadlineForHanging, runVars
<1> QED
  BY <1>1, <1>2, <1>3, <1>4, <1>5, <1>6, <1>7, <1>8, StartupStepOwns, FuncReturnsOwns DEF RunNext, AllStep

\* In every process (cmd/*/main.go, core/shutdown) an open exporter has an owner, and the
\* deadline cuts off only what waits for a collector that does not answer.
THEOREM ProcessInvariance == RunSpec => []ProcessInv
BY ProcessInvInit, ProcessInvStep, PTL DEF RunSpec

\* When run() has returned, no exporter is open, and nothing is lost but what goes to a
\* collector that does not answer: the deferred shutdown.All of cmd/*/main.go, whatever
\* step of the start failed.
THEOREM ExitFlushes == RunSpec => []FlushedAtExit
<1>1. ProcessInv => FlushedAtExit
  BY DEF ProcessInv, OpenIsOwned, DeadlineForHanging, Owing, AtStep, FlushedAtExit
<1> QED
  BY <1>1, ProcessInvariance, PTL
=============================================================================
