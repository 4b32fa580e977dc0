------------------------------ MODULE Process ------------------------------
(***************************************************************************)
(* The life of a muto process: run() of cmd/muto-mcp and cmd/muto-operator *)
(* sets up logging, tracing and metrics and then what it serves, serves    *)
(* until it is stopped, and on every return shuts the exporters down, all  *)
(* at once and under one deadline (core/shutdown).                         *)
(*                                                                         *)
(* Signals, the collectors and whoever starts the process again are        *)
(* external.  A signal kills the process until a handler is installed:     *)
(* ServeStdio's stops serving and ignores further ones, SetupSignalHandler *)
(* stops serving and exits at once, with no deferred call, on a second one.*)
(***************************************************************************)
EXTENDS Integers, Sequences

CONSTANTS Programs,     \* which of the two programs are considered
          MaxRestarts   \* bound on starts after the first

ASSUME ProcessAssumption ==
  Programs \subseteq {"muto-mcp", "muto-operator"} /\ MaxRestarts \in Nat

Exporters == {"tracing", "metrics"}

StartupSteps(p) ==
  IF p = "muto-mcp" THEN <<"logger", "tracing", "config", "client">>
  ELSE <<"logger", "tracing", "metrics", "config", "manager", "adapter", "reconcilers">>

VARIABLES
  prog,        \* the program
  at,          \* where run() is
  todo,        \* startup steps still to do
  configured,  \* exporters with an OTLP endpoint in the environment
  down,        \* exporters whose collector does not answer
  exporter,    \* exporter[e]: what has become of it
  shutdowns,   \* the callbacks that run() will have called when it returns
  running,     \* the callbacks at work
  deadline,    \* their shared deadline has passed
  signals,     \* signals received
  restarts

runVars == <<prog, at, todo, configured, down, exporter, shutdowns, running, deadline,
              signals, restarts>>

RunTypeOK ==
  /\ prog \in Programs
  /\ at \in {"startup", "serving", "stopping", "shutdown", "exited", "killed"}
  /\ todo \in Seq({"logger", "tracing", "metrics", "config", "client", "manager",
                   "adapter", "reconcilers"})
  /\ configured \subseteq Exporters /\ down \subseteq Exporters
  /\ exporter \in [Exporters -> {"none", "created", "provider", "closed", "lost"}]
  /\ shutdowns \subseteq Exporters /\ running \subseteq shutdowns
  /\ deadline \in BOOLEAN /\ signals \in Nat /\ restarts \in Nat

RunInit ==
  /\ prog \in Programs
  /\ at = "startup" /\ todo = StartupSteps(prog)
  /\ configured \in SUBSET Exporters /\ down \in SUBSET Exporters
  /\ exporter = [e \in Exporters |-> "none"]
  /\ shutdowns = {} /\ running = {} /\ deadline = FALSE
  /\ signals = 0 /\ restarts = 0

given == <<prog, configured, down, restarts>>

-----------------------------------------------------------------------------
(* Startup *)

AtStep(s) == at = "startup" /\ todo # <<>> /\ Head(todo) = s

\* run() returns: the deferred closure reads the list of callbacks now, and
\* shutdown.All starts them all.
RunReturns == at' = "shutdown" /\ running' = shutdowns /\ UNCHANGED deadline

StartupFails ==
  /\ RunReturns
  /\ UNCHANGED <<given, todo, shutdowns, signals>>

PlainStep ==
  /\ at = "startup" /\ todo # <<>> /\ Head(todo) \notin Exporters
  /\ todo' = Tail(todo)
  /\ UNCHANGED <<given, at, exporter, shutdowns, running, deadline, signals>>

PlainStepFails ==
  /\ at = "startup" /\ todo # <<>> /\ Head(todo) \notin Exporters
  /\ StartupFails
  /\ UNCHANGED exporter

Set(e, s) == exporter' = [exporter EXCEPT ![e] = s]

\* Init returns a callback, which run() appends to the list.
InitReturns(e) ==
  /\ todo' = Tail(todo)
  /\ shutdowns' = shutdowns \cup {e}
  /\ UNCHANGED <<given, at, running, deadline, signals>>

\* No endpoint in the environment: the callback does nothing.
InitNoEndpoint(e) == AtStep(e) /\ e \notin configured /\ InitReturns(e) /\ UNCHANGED exporter

CreateExporter(e) ==
  /\ AtStep(e) /\ e \in configured /\ exporter[e] = "none"
  /\ Set(e, "created")
  /\ UNCHANGED <<given, at, todo, shutdowns, running, deadline, signals>>

CreateFails(e) ==
  /\ AtStep(e) /\ e \in configured /\ exporter[e] = "none"
  /\ StartupFails
  /\ UNCHANGED exporter

\* BuildResource, then the provider; tracing is then done.
BuildProvider(e) ==
  /\ AtStep(e) /\ exporter[e] = "created"
  /\ Set(e, "provider")
  /\ IF e = "tracing" THEN InitReturns(e)
     ELSE UNCHANGED <<given, at, todo, shutdowns, running, deadline, signals>>

BuildInstruments(e) ==
  /\ AtStep(e) /\ exporter[e] = "provider"
  /\ InitReturns(e)
  /\ UNCHANGED exporter

\* Init fails after the exporter is made: it shuts it down itself, ignoring errors.
\* Nothing has been recorded yet.
InitFails(e) ==
  /\ AtStep(e) /\ exporter[e] \in {"created", "provider"}
  /\ Set(e, "closed")
  /\ StartupFails

\* The signal handler is installed and serving begins.
Serve ==
  /\ at = "startup" /\ todo = <<>>
  /\ at' = "serving"
  /\ UNCHANGED <<given, todo, exporter, shutdowns, running, deadline, signals>>

StartupStep ==
  \/ PlainStep \/ PlainStepFails
  \/ \E e \in Exporters :
       \/ InitNoEndpoint(e) \/ CreateExporter(e) \/ CreateFails(e)
       \/ BuildProvider(e) \/ BuildInstruments(e) \/ InitFails(e)

-----------------------------------------------------------------------------
(* The end *)

Handled == at # "startup" /\ todo = <<>>

\* mgr.Start or ServeStdio ends by itself: an error, or the end of the input.
ServingEnds ==
  /\ at = "serving"
  /\ at' = "stopping"
  /\ UNCHANGED <<given, todo, exporter, shutdowns, running, deadline, signals>>

Signal ==
  /\ at \in {"startup", "serving", "stopping", "shutdown"}
  /\ signals < 2
  /\ signals' = signals + 1
  /\ at' = IF ~Handled \/ (prog = "muto-operator" /\ signals = 1) THEN "killed"
           ELSE IF at = "serving" THEN "stopping" ELSE at
  /\ UNCHANGED <<given, todo, exporter, shutdowns, running, deadline>>

Stopped ==
  /\ at = "stopping"
  /\ RunReturns
  /\ UNCHANGED <<given, todo, exporter, shutdowns, signals>>

\* A callback returns: at once when it has nothing to do, after a flush when the
\* collector answers, with an error at the deadline when it does not.
InTurn(e) == at = "shutdown" /\ e \in running /\ (e = "metrics" => "tracing" \notin running)
AtWork(e) == at = "shutdown" /\ e \in running
Hangs(e) == exporter[e] = "provider" /\ e \in down
FuncReturns(e) ==
  /\ AtWork(e)
  /\ Hangs(e) => deadline
  /\ running' = running \ {e}
  /\ IF exporter[e] # "provider" THEN UNCHANGED exporter
     ELSE Set(e, IF deadline THEN "lost" ELSE "closed")
  /\ UNCHANGED <<given, at, todo, shutdowns, deadline, signals>>

\* Five seconds are enough for every collector that answers.
NoDeadline ==
  /\ at = "shutdown" /\ ~deadline
  /\ running \cap down = {}
  /\ deadline' = TRUE
  /\ UNCHANGED <<given, at, todo, exporter, shutdowns, running, signals>>
DeadlinePasses ==
  /\ at = "shutdown" /\ ~deadline
  /\ \A e \in Exporters : AtWork(e) => Hangs(e)
  /\ deadline' = TRUE
  /\ UNCHANGED <<given, at, todo, exporter, shutdowns, running, signals>>

\* wg.Wait has returned, and run() has.
Exit ==
  /\ at = "shutdown" /\ running = {}
  /\ at' = "exited"
  /\ UNCHANGED <<given, todo, exporter, shutdowns, running, deadline, signals>>

\* A new process, in the same environment; the collectors may have come or gone.
Restart ==
  /\ at \in {"exited", "killed"}
  /\ restarts < MaxRestarts
  /\ restarts' = restarts + 1
  /\ at' = "startup" /\ todo' = StartupSteps(prog)
  /\ down' \in SUBSET Exporters
  /\ exporter' = [e \in Exporters |-> "none"]
  /\ shutdowns' = {} /\ running' = {} /\ deadline' = FALSE /\ signals' = 0
  /\ UNCHANGED <<prog, configured>>

AllStep == (\E e \in Exporters : FuncReturns(e)) \/ DeadlinePasses \/ Exit

RunNext == StartupStep \/ Serve \/ ServingEnds \/ Signal \/ Stopped \/ AllStep \/ Restart

RunSpec == RunInit /\ [][RunNext]_runVars

\* run() goes on; nothing makes serving end, and nobody has to start a process again.
RunFairSpec == RunSpec /\ WF_runVars(StartupStep \/ Serve \/ Stopped \/ AllStep)

-----------------------------------------------------------------------------
(* Properties *)

\* However far the start got, whatever step failed and whichever collector hangs: when
\* run() has returned no exporter is left open, and nothing is lost but what goes to a
\* collector that does not answer.  (A second signal, or one before a handler is there,
\* ends the process without that.)
FlushedAtExit ==
  at = "exited" =>
    \A e \in Exporters : /\ exporter[e] \notin {"created", "provider"}
                         /\ exporter[e] = "lost" => e \in down

\* A process that is starting serves or ends, and one that was told to stop, or whose
\* start failed, ends: no callback keeps it beyond the deadline.
ProcessSettles ==
  /\ at = "startup" ~> at \in {"serving", "exited", "killed"}
  /\ at \in {"stopping", "shutdown"} ~> at \in {"exited", "killed"}

-----------------------------------------------------------------------------
(* The inductive invariant behind FlushedAtExit *)

\* The callbacks that are still to return.
Owing == IF at \in {"shutdown", "exited"} THEN running ELSE shutdowns

\* An exporter is open while the step of the start that makes it is under way, and then
\* until its callback returns: no step of the start, failed or not, lets go of one.
OpenIsOwned ==
  at # "killed" =>
    \A e \in Exporters : exporter[e] \in {"created", "provider"} =>
      e \in configured /\ (AtStep(e) \/ (exporter[e] = "provider" /\ e \in Owing))

\* The deadline passes once, in shutdown.All, and those that it finds at work wait for a
\* collector that does not answer.
DeadlineForHanging ==
  /\ at \in {"startup", "serving", "stopping"} => ~deadline
  /\ at = "exited" => running = {}
  /\ deadline => \A e \in running : Hangs(e)
  /\ \A e \in Exporters : exporter[e] = "lost" => e \in down

ProcessInv == RunTypeOK /\ OpenIsOwned /\ DeadlineForHanging
=============================================================================
