----------------------------- MODULE MessageBus -----------------------------
(***************************************************************************)
(* What KafkaBus and NATSBus have in common (core/messaging): the calls of *)
(* Subscribe, of which an EventWatcher makes one each, the map they are    *)
(* entered in, and the topics.  A message is handled in one step.          *)
(***************************************************************************)
EXTENDS Integers, Sequences, FiniteSetsExt

CONSTANTS Subs,         \* Subscribe calls
          Topic,        \* Topic[s]: the topic of call s
          Partitions,   \* partitions a Kafka message can be put in
          MaxMessages,  \* bound on messages published
          MaxErrors     \* bound on handler calls that return an error

None == "none"

ASSUME BusAssumption ==
  None \notin Subs /\ 0 \in Partitions /\ MaxMessages \in Nat /\ MaxErrors \in Nat

Topics == {Topic[s] : s \in Subs}

VARIABLES
  bus,       \* the bus: being made, in use, or how far Close has got
  conns,     \* its connections to the brokers
  pc,        \* pc[s]: where the call, and then its goroutine, is
  open,      \* calls whose consumer or subscription is open
  tracked,   \* tracked[t]: the map's entry for t
  done,      \* calls whose context is done
  log,       \* log[t]: the messages of t, each by its partition
  start,     \* start[s]: how many there were when s began to consume
  handled,   \* handled[s]: messages s has handled without an error
  errored,   \* errored[s]: messages whose handler returned an error, when last called
  errors

subVars == <<pc, open, tracked, done>>
msgVars == <<log, start, handled, errored, errors>>
vars == <<bus, conns, subVars, msgVars>>

CallsTypeOK ==
  /\ bus \in {"none", "connecting", "failed", "open", "closing", "closed"}
  /\ conns \subseteq {"producer", "consumer", "conn"}
  /\ pc \in [Subs -> {"new", "consuming", "handling", "leaving", "ended", "refused"}]
  /\ open \subseteq Subs /\ done \subseteq Subs
  /\ tracked \in [Topics -> Subs \cup {None}]
MessagesTypeOK ==
  /\ log \in [Topics -> Seq(Partitions)]
  /\ start \in [Subs -> Nat] /\ errors \in Nat
  /\ handled \in [Subs -> SUBSET Nat] /\ errored \in [Subs -> SUBSET Nat]
  /\ \A s \in Subs : handled[s] \cup errored[s] \subseteq DOMAIN log[Topic[s]]
BusTypeOK == CallsTypeOK /\ MessagesTypeOK

BusInit ==
  /\ bus = "none" /\ conns = {}
  /\ pc = [s \in Subs |-> "new"]
  /\ open = {} /\ done = {}
  /\ tracked = [t \in Topics |-> None]
  /\ log = [t \in Topics |-> <<>>]
  /\ start = [s \in Subs |-> 0]
  /\ handled = [s \in Subs |-> {}] /\ errored = [s \in Subs |-> {}] /\ errors = 0

Goto(s, l) == pc' = [pc EXCEPT ![s] = l]

\* Subscribe enters its consumer in the map, under the lock, and returns.
Track(s) ==
  /\ pc[s] = "consuming"
  /\ tracked' = [tracked EXCEPT ![Topic[s]] = s]
  /\ Goto(s, "handling")
  /\ UNCHANGED <<bus, conns, open, done, msgVars>>

ContextDone(s) ==
  /\ s \notin done
  /\ done' = done \cup {s}
  /\ UNCHANGED <<bus, conns, pc, open, tracked, msgVars>>

\* Somebody publishes, on this bus or elsewhere; no key is given, so that the broker's
\* client picks any partition.
Publish(t, p) ==
  /\ MapThenSumSet(LAMBDA u : Len(log[u]), Topics) < MaxMessages
  /\ log' = [log EXCEPT ![t] = Append(@, p)]
  /\ UNCHANGED <<bus, conns, subVars, start, handled, errored, errors>>

\* The handler of s is called with message k.
HandlerSucceeds(s, k) ==
  /\ handled' = [handled EXCEPT ![s] = @ \cup {k}]
  /\ errored' = [errored EXCEPT ![s] = @ \ {k}]
  /\ UNCHANGED errors
HandlerFails(s, k) ==
  /\ errors < MaxErrors
  /\ errors' = errors + 1
  /\ errored' = [errored EXCEPT ![s] = @ \cup {k}]
  /\ UNCHANGED handled

\* The messages of s that its handler has not been called with.
Fresh(s) == DOMAIN log[Topic[s]] \ (handled[s] \cup errored[s])

\* Close, under the lock: every tracked consumer is closed and the map emptied.
CloseSkipsConsumers ==
  /\ bus = "open" /\ bus' = "closing"
  /\ UNCHANGED <<conns, subVars, msgVars>>
EmptyWithoutClosing ==
  /\ bus = "open"
  /\ tracked' = [t \in Topics |-> None]
  /\ bus' = "closing"
  /\ UNCHANGED <<conns, pc, open, done, msgVars>>
CloseTracked ==
  /\ bus = "open"
  /\ open' = open \ {tracked[t] : t \in Topics}
  /\ tracked' = [t \in Topics |-> None]
  /\ bus' = "closing"
  /\ UNCHANGED <<conns, pc, done, msgVars>>
=============================================================================
