----------------------------- MODULE ProcessHost -----------------------------
(***************************************************************************)
(* The life of one process (process/host): components assembled in order,    *)
(* tasks and started goroutines that fail or panic at any moment, requests    *)
(* that come until the server drains, a signal that may come before the       *)
(* process serves, and the stop, in its order, up to the pools' closing.      *)
(*                                                                         *)
(* A failure is named by what failed.  What a task, a goroutine or a request  *)
(* does is left out but for its ending, and for its asking a starter.         *)
(***************************************************************************)
EXTENDS Naturals, FiniteSets

CONSTANTS
    Components, \* the number of components, each of which opens a pool
    Task,       \* the background tasks of all components
    Routine,    \* the goroutines that may be started
    Request     \* the requests that may come

ASSUME CountAssumption == Components \in Nat
ASSUME TaskAssumption == IsFiniteSet(Task)

VARIABLES
    phase,     \* where the process is
    assembled, \* the components assembled so far
    pools,     \* the components whose pools are open
    signalled, \* the process was told to stop
    after,     \* the function that ends the run when the signal comes before the process serves
    run,       \* the context of the tasks, the goroutines and the requests has ended
    expired,   \* the time requests and probes have to finish is up
    app,       \* the application server
    probes,    \* the operations server
    task, routine, request,
    failed,    \* the channel the servers and the tasks send to
    joining,   \* nothing is started any more
    failures,  \* the goroutines whose panics are recorded
    error,     \* what the process returns
    broken     \* history: the tasks and goroutines that failed

work == <<task, routine, request>>
servers == <<app, probes, expired>>
start == <<assembled, pools, signalled, after>>
vars == <<phase, start, run, servers, work, failed, joining, failures, error, broken>>

Phases == {"assembling", "listening", "starting", "serving", "draining", "stopping", "joining",
           "shutting", "closing", "closed", "returned"}
\* Where the process has served and has not stopped its operations server.
Served == {"serving", "draining", "stopping", "joining", "shutting"}

Server == {"app", "probes"}
Starts == {"assembly", "listen", "tls", "drain"}

\* Mutant: a channel with a slot for each server only.
SlotsOfServers == 2

\* One slot for each server and each task.
Slots == 2 + Cardinality(Task)

Running(w) == {x \in DOMAIN w : w[x] = "running"}
Over(w) == \A x \in DOMAIN w : w[x] \notin {"running", "failing"}

-----------------------------------------------------------------------------
\* The start.

OpenPool ==
    /\ phase = "assembling" /\ assembled < Components
    /\ pools' = pools \cup {assembled + 1}
    /\ UNCHANGED <<phase, assembled, signalled, after, run, servers, work, failed, joining, failures, error, broken>>

Assemble ==
    /\ phase = "assembling" /\ assembled < Components
    /\ assembled' = assembled + 1
    /\ UNCHANGED <<phase, pools, signalled, after, run, servers, work, failed, joining, failures, error, broken>>

\* The function no longer runs, unless the signal has started it.
StopAfter == after' = IF after = "armed" THEN "stopped" ELSE after

Refuse(why) == /\ error' = error \cup {why}
               /\ phase' = "closing"

AssemblyFails ==
    /\ phase = "assembling" /\ assembled < Components
    /\ StopAfter
    /\ Refuse("assembly")
    /\ UNCHANGED <<assembled, pools, signalled, run, servers, work, failed, joining, failures, broken>>

EndAssembly ==
    /\ phase = "assembling" /\ assembled = Components
    /\ StopAfter
    /\ phase' = "listening"
    /\ UNCHANGED <<assembled, pools, signalled, run, servers, work, failed, joining, failures, error, broken>>

ListenFails ==
    /\ phase = "listening"
    /\ Refuse("listen")
    /\ UNCHANGED <<start, run, servers, work, failed, joining, failures, broken>>

Listen ==
    /\ phase = "listening"
    /\ phase' = "starting"
    /\ UNCHANGED <<start, run, servers, work, failed, joining, failures, error, broken>>

KeyPairFails ==
    /\ phase = "starting"
    /\ Refuse("tls")
    /\ UNCHANGED <<start, run, servers, work, failed, joining, failures, broken>>

Serve ==
    /\ phase = "starting"
    /\ phase' = "serving"
    /\ app' = "serving" /\ probes' = "serving"
    /\ task' = [t \in Task |-> "running"]
    /\ UNCHANGED <<start, run, expired, routine, request, failed, joining, failures, error, broken>>

\* The signal, at any moment.
Signal ==
    /\ ~ signalled /\ phase /= "returned"
    /\ signalled' = TRUE
    /\ after' = IF after = "armed" THEN "firing" ELSE after
    /\ UNCHANGED <<phase, assembled, pools, run, servers, work, failed, joining, failures, error, broken>>

StopRun ==
    /\ after = "firing"
    /\ after' = "fired"
    /\ run' = TRUE
    /\ UNCHANGED <<phase, assembled, pools, signalled, servers, work, failed, joining, failures, error, broken>>

-----------------------------------------------------------------------------
\* The work.

\* Mutant: a starter starts whatever it is asked.
StartAnyway(r) ==
    /\ routine[r] = "none"
    /\ phase = "assembling" \/ \E w \in {task, routine, request} : Running(w) /= {}
    /\ routine' = [routine EXCEPT ![r] = "running"]
    /\ UNCHANGED <<phase, start, run, servers, task, request, failed, joining, failures, error, broken>>

\* An assembly, a task, a goroutine or a request asks its starter, which starts
\* nothing once the host waits for what it started.
Start(r) ==
    /\ routine[r] = "none"
    /\ phase = "assembling" \/ \E w \in {task, routine, request} : Running(w) /= {}
    /\ ~ joining
    /\ routine' = [routine EXCEPT ![r] = "running"]
    /\ UNCHANGED <<phase, start, run, servers, task, request, failed, joining, failures, error, broken>>

EndRoutine(r) ==
    /\ routine[r] \in {"running", "failing"}
    /\ routine' = [routine EXCEPT ![r] = "returned"]
    /\ UNCHANGED <<phase, start, run, servers, task, request, failed, joining, failures, error, broken>>

\* A panic is recorded before the goroutine is counted as done.
Panic(r) ==
    /\ routine[r] = "running"
    /\ routine' = [routine EXCEPT ![r] = "failing"]
    /\ failures' = failures \cup {r}
    /\ broken' = broken \cup {r}
    /\ UNCHANGED <<phase, start, run, servers, task, request, failed, joining, error>>

EndTask(t) ==
    /\ task[t] = "running"
    /\ task' = [task EXCEPT ![t] = "returned"]
    /\ UNCHANGED <<phase, start, run, servers, routine, request, failed, joining, failures, error, broken>>

FailTask(t) ==
    /\ task[t] = "running"
    /\ task' = [task EXCEPT ![t] = "failing"]
    /\ broken' = broken \cup {t}
    /\ UNCHANGED <<phase, start, run, servers, routine, request, failed, joining, failures, error>>

SendFailure(t) ==
    /\ task[t] = "failing"
    /\ Cardinality(failed) < Slots
    /\ failed' = failed \cup {t}
    /\ task' = [task EXCEPT ![t] = "returned"]
    /\ UNCHANGED <<phase, start, run, servers, routine, request, joining, failures, error, broken>>

\* A server that fails sends its error, one that was shut down nothing of
\* note.
ServerFails ==
    /\ \/ app = "serving" /\ app' = "failed" /\ failed' = failed \cup {"app"} /\ UNCHANGED probes
       \/ probes = "serving" /\ probes' = "failed" /\ failed' = failed \cup {"probes"} /\ UNCHANGED app
    /\ Cardinality(failed) < Slots
    /\ UNCHANGED <<phase, start, run, expired, work, joining, failures, error, broken>>

Accept(q) ==
    /\ app = "serving"
    /\ request[q] = "none"
    /\ request' = [request EXCEPT ![q] = "running"]
    /\ UNCHANGED <<phase, start, run, servers, task, routine, failed, joining, failures, error, broken>>

Answer(q) ==
    /\ request[q] = "running"
    /\ request' = [request EXCEPT ![q] = "answered"]
    /\ UNCHANGED <<phase, start, run, servers, task, routine, failed, joining, failures, error, broken>>

-----------------------------------------------------------------------------
\* The stop.

\* A failure taken from the channel, a panic or the signal; the application
\* server takes no more requests.
Stop ==
    /\ phase = "serving"
    /\ \/ \E x \in failed : failed' = failed \ {x} /\ error' = error \cup {x}
       \/ (failures /= {} \/ signalled) /\ UNCHANGED <<failed, error>>
    /\ phase' = "draining"
    /\ app' = "down"
    /\ UNCHANGED <<start, run, probes, expired, work, joining, failures, broken>>

\* The ten seconds from the stop on.
Expire ==
    /\ phase \in {"draining", "stopping", "joining", "shutting"}
    /\ ~ expired
    /\ expired' = TRUE
    /\ UNCHANGED <<phase, start, run, app, probes, work, failed, joining, failures, error, broken>>

\* Mutant: the tasks are told to stop with the requests.
DrainedAtOnce ==
    /\ phase = "draining"
    /\ phase' = "stopping"
    /\ run' = TRUE
    /\ UNCHANGED <<start, servers, work, failed, joining, failures, error, broken>>

Drained ==
    /\ phase = "draining"
    /\ Running(request) = {} \/ expired
    /\ error' = IF Running(request) = {} THEN error ELSE error \cup {"drain"}
    /\ phase' = "stopping"
    /\ run' = TRUE
    /\ UNCHANGED <<start, servers, work, failed, joining, failures, broken>>

JoinTasks ==
    /\ phase = "stopping"
    /\ Over(task)
    /\ phase' = "joining"
    /\ joining' = TRUE
    /\ UNCHANGED <<start, run, servers, work, failed, failures, error, broken>>

\* Mutant: the failures that were recorded while the process stopped are not
\* looked for.
JoinedSilently ==
    /\ phase = "joining"
    /\ Over(routine)
    /\ error' = error \cup failures
    /\ failed' = {}
    /\ phase' = "shutting"
    /\ UNCHANGED <<start, run, servers, work, joining, failures, broken>>

Joined ==
    /\ phase = "joining"
    /\ Over(routine)
    /\ error' = error \cup failed \cup failures
    /\ failed' = {}
    /\ phase' = "shutting"
    /\ UNCHANGED <<start, run, servers, work, joining, failures, broken>>

ShutProbes ==
    /\ phase = "shutting"
    /\ probes' = "down"
    /\ phase' = "closing"
    /\ UNCHANGED <<start, run, app, expired, work, failed, joining, failures, error, broken>>

\* The host's end, of a process that served and of a start that failed.
Close ==
    /\ phase = "closing"
    /\ phase' = "closed"
    /\ run' = TRUE
    /\ joining' = TRUE
    /\ UNCHANGED <<start, servers, work, failed, failures, error, broken>>

Return ==
    /\ phase = "closed"
    /\ Over(routine)
    /\ pools' = {}
    /\ error' = IF "assembly" \in error THEN error \cup failures ELSE error
    /\ phase' = "returned"
    /\ UNCHANGED <<assembled, signalled, after, run, servers, work, failed, joining, failures, broken>>

-----------------------------------------------------------------------------
Init ==
    /\ phase = "assembling" /\ assembled = 0 /\ pools = {}
    /\ signalled = FALSE /\ after = "armed" /\ run = FALSE /\ expired = FALSE
    /\ app = "none" /\ probes = "none"
    /\ task = [t \in Task |-> "none"]
    /\ routine = [r \in Routine |-> "none"]
    /\ request = [q \in Request |-> "none"]
    /\ failed = {} /\ joining = FALSE /\ failures = {} /\ error = {} /\ broken = {}

Starting == \/ OpenPool \/ Assemble \/ AssemblyFails \/ EndAssembly
            \/ ListenFails \/ Listen \/ KeyPairFails \/ Serve
Stopping == Stop \/ Drained \/ JoinTasks \/ Joined \/ ShutProbes \/ Close \/ Return

RoutineStep(r) == Start(r) \/ EndRoutine(r) \/ Panic(r)
TaskStep(t) == EndTask(t) \/ FailTask(t) \/ SendFailure(t)
RequestStep(q) == Accept(q) \/ Answer(q)

Next ==
    \/ Starting \/ Signal \/ StopRun \/ ServerFails \/ Expire \/ Stopping
    \/ \E r \in Routine : RoutineStep(r)
    \/ \E t \in Task : TaskStep(t)
    \/ \E q \in Request : RequestStep(q)

Spec == Init /\ [][Next]_vars

\* The process goes on, a failure is sent, the time to finish runs out, and a
\* task and a goroutine return once their context has ended.  A request need
\* never end.
Fairness ==
    /\ WF_vars(Assemble \/ EndAssembly \/ Listen \/ Serve) /\ WF_vars(StopRun)
    /\ WF_vars(Stopping) /\ WF_vars(Expire)
    /\ \A t \in Task : WF_vars(SendFailure(t)) /\ WF_vars(run /\ EndTask(t))
    /\ \A r \in Routine : WF_vars((run \/ routine[r] = "failing") /\ EndRoutine(r))

FairSpec == Spec /\ Fairness

-----------------------------------------------------------------------------
\* Type invariant.
TypeOK ==
    /\ phase \in Phases /\ assembled \in 0..Components /\ pools \subseteq 1..Components
    /\ signalled \in BOOLEAN /\ run \in BOOLEAN /\ expired \in BOOLEAN /\ joining \in BOOLEAN
    /\ after \in {"armed", "stopped", "firing", "fired"}
    /\ app \in {"none", "serving", "failed", "down"} /\ probes \in {"none", "serving", "failed", "down"}
    /\ task \in [Task -> {"none", "running", "failing", "returned"}]
    /\ routine \in [Routine -> {"none", "running", "failing", "returned"}]
    /\ request \in [Request -> {"none", "running", "answered"}]
    /\ failed \subseteq Task \cup Server /\ failures \subseteq Routine
    /\ error \subseteq Task \cup Routine \cup Server \cup Starts
    /\ broken \subseteq Task \cup Routine

\* The pools close behind everything that uses them: no task and no goroutine
\* runs on, whoever started it and however late, and a request that does has
\* been told to stop.
PoolsCloseLast ==
    phase = "returned" => Over(task) /\ Over(routine) /\ run /\ pools = {}

\* A process not told to stop before it served ends what its requests run
\* under only once they are answered or their time is up.
RequestsDrainFirst ==
    [][run' /= run /\ phase \in Served /\ after = "stopped" => Running(request) = {} \/ expired]_vars

\* What a process that served returns names every task and goroutine that
\* failed, those that failed while it stopped among them.
FailuresReported ==
    phase = "returned" /\ error \cap {"assembly", "listen", "tls"} = {} => broken \subseteq error

\* A process that returns no failure was told to stop.
CleanExit == phase = "returned" /\ error = {} => signalled

\* A process that is told to stop, or has a failure, comes to its end, whatever
\* fails on the way and however long its requests go on.
StopCompletes == (signalled \/ broken /= {} \/ failed /= {}) ~> phase = "returned"

=============================================================================
