-------------------------- MODULE ProcessHost_proofs --------------------------
(***************************************************************************)
(* Proofs about ProcessHost, for any components, tasks, goroutines and        *)
(* requests: the order of the stop, and what the process returns.             *)
(***************************************************************************)
EXTENDS ProcessHost, TLAPS

-----------------------------------------------------------------------------
(* The inductive invariant. *)

\* What each phase of the process's life leaves behind it.
PhaseInv ==
    /\ phase \in {"assembling", "listening", "starting"} =>
           task = [t \in Task |-> "none"] /\ ~ joining
    /\ phase \in {"joining", "shutting", "closing", "closed", "returned"} => Over(task)
    /\ phase \in {"joining", "shutting", "closed", "returned"} => joining
    /\ phase \in {"stopping", "joining", "shutting", "closed", "returned"} => run
    /\ phase \in {"shutting", "returned"} => Over(routine)
    /\ phase = "returned" => pools = {}

\* A failure is on its way to the error until the process has joined, and in it
\* from then on, but for a start that was refused.
Refused == error \cap {"assembly", "listen", "tls"} /= {}
ReportInv ==
    /\ broken \subseteq error \cup failed \cup failures \cup {t \in Task : task[t] = "failing"}
    /\ phase \in {"closing", "closed"} /\ ~ Refused => Over(routine) /\ joining
    /\ phase \in {"shutting", "closing", "closed", "returned"} /\ ~ Refused => broken \subseteq error

\* What stopped the process is known until it is returned.
CauseInv ==
    /\ phase \in {"draining", "stopping", "joining"} => signalled \/ error /= {} \/ failures /= {}
    /\ phase \in {"shutting", "closing", "closed", "returned"} => signalled \/ error /= {}

IInv == TypeOK /\ PhaseInv /\ ReportInv /\ CauseInv

-----------------------------------------------------------------------------
(* TypeOK in parts. *)

LifeType == /\ phase \in Phases /\ assembled \in 0..Components /\ pools \subseteq 1..Components
            /\ signalled \in BOOLEAN /\ run \in BOOLEAN /\ expired \in BOOLEAN /\ joining \in BOOLEAN
            /\ after \in {"armed", "stopped", "firing", "fired"}
ServerType == /\ app \in {"none", "serving", "failed", "down"}
              /\ probes \in {"none", "serving", "failed", "down"}
WorkType == /\ task \in [Task -> {"none", "running", "failing", "returned"}]
            /\ routine \in [Routine -> {"none", "running", "failing", "returned"}]
            /\ request \in [Request -> {"none", "running", "answered"}]
FailureType == /\ failed \subseteq Task \cup Server /\ failures \subseteq Routine
               /\ error \subseteq Task \cup Routine \cup Server \cup Starts
               /\ broken \subseteq Task \cup Routine

LEMMA Parts == IInv <=> /\ LifeType /\ ServerType /\ WorkType /\ FailureType
                        /\ PhaseInv /\ ReportInv /\ CauseInv
BY DEF IInv, TypeOK, LifeType, ServerType, WorkType, FailureType

LEMMA InitInv == Init => IInv
<1> SUFFICES ASSUME Init PROVE IInv
  OBVIOUS
<1> USE DEF Init
<1>1. LifeType /\ ServerType /\ WorkType /\ FailureType
  <2>1. assembled \in 0..Components /\ pools \subseteq 1..Components
    BY CountAssumption
  <2>3. LifeType /\ ServerType
    BY <2>1 DEF LifeType, ServerType, Phases
  <2>2. WorkType /\ FailureType
    BY DEF WorkType, FailureType
  <2> QED
    BY <2>2, <2>3
<1>2. PhaseInv
  BY DEF PhaseInv
<1>3. ReportInv /\ CauseInv
  BY DEF ReportInv, CauseInv
<1> QED
  BY <1>1, <1>2, <1>3, Parts

LEMMA StartingKeeps == ASSUME IInv, Starting PROVE IInv'
<1>0. LifeType /\ ServerType /\ WorkType /\ FailureType /\ PhaseInv /\ ReportInv /\ CauseInv
  BY Parts
<1>1. CASE OpenPool
  <2>1. LifeType' /\ ServerType'
    BY <1>0, <1>1, CountAssumption DEF OpenPool, LifeType, ServerType, Phases, servers, start
  <2>2. WorkType'
    BY <1>0, <1>1 DEF OpenPool, WorkType, work
  <2>3. FailureType'
    BY <1>0, <1>1 DEF OpenPool, FailureType, Server
  <2>4. PhaseInv'
    BY <1>0, <1>1 DEF OpenPool, PhaseInv, WorkType, Over, work, start, servers
  <2>5. ReportInv'
    BY <1>0, <1>1 DEF OpenPool, PhaseInv, ReportInv, Refused, WorkType, Over, work
  <2>6. CauseInv'
    BY <1>0, <1>1 DEF OpenPool, CauseInv, FailureType, start
  <2> QED
    BY <2>1, <2>2, <2>3, <2>4, <2>5, <2>6, Parts, PTL
<1>2. CASE Assemble
  <2>1. LifeType' /\ ServerType'
    BY <1>0, <1>2, CountAssumption DEF Assemble, LifeType, ServerType, Phases, servers, start
  <2>2. WorkType'
    BY <1>0, <1>2 DEF Assemble, WorkType, work
  <2>3. FailureType'
    BY <1>0, <1>2 DEF Assemble, FailureType, Server
  <2>4. PhaseInv'
    BY <1>0, <1>2 DEF Assemble, PhaseInv, WorkType, Over, work, start, servers
  <2>5. ReportInv'
    BY <1>0, <1>2 DEF Assemble, PhaseInv, ReportInv, Refused, WorkType, Over, work
  <2>6. CauseInv'
    BY <1>0, <1>2 DEF Assemble, CauseInv, FailureType, start
  <2> QED
    BY <2>1, <2>2, <2>3, <2>4, <2>5, <2>6, Parts, PTL
<1>3. CASE AssemblyFails
  <2>1. LifeType' /\ ServerType'
    BY <1>0, <1>3, CountAssumption DEF AssemblyFails, StopAfter, Refuse, Starts, LifeType, ServerType, Phases, servers, start
  <2>2. WorkType'
    BY <1>0, <1>3 DEF AssemblyFails, StopAfter, Refuse, Starts, WorkType, work
  <2>3. FailureType'
    BY <1>0, <1>3 DEF AssemblyFails, StopAfter, Refuse, Starts, FailureType, Server
  <2>4. PhaseInv'
    BY <1>0, <1>3 DEF AssemblyFails, StopAfter, Refuse, Starts, PhaseInv, WorkType, Over, work, start, servers
  <2>5. ReportInv'
    BY <1>0, <1>3 DEF AssemblyFails, StopAfter, Refuse, Starts, PhaseInv, ReportInv, Refused, WorkType, Over, work
  <2>6. CauseInv'
    BY <1>0, <1>3 DEF AssemblyFails, StopAfter, Refuse, Starts, CauseInv, FailureType, start
  <2> QED
    BY <2>1, <2>2, <2>3, <2>4, <2>5, <2>6, Parts, PTL
<1>4. CASE EndAssembly
  <2>1. LifeType' /\ ServerType'
    BY <1>0, <1>4, CountAssumption DEF EndAssembly, StopAfter, LifeType, ServerType, Phases, servers, start
  <2>2. WorkType'
    BY <1>0, <1>4 DEF EndAssembly, StopAfter, WorkType, work
  <2>3. FailureType'
    BY <1>0, <1>4 DEF EndAssembly, StopAfter, FailureType, Server
  <2>4. PhaseInv'
    BY <1>0, <1>4 DEF EndAssembly, StopAfter, PhaseInv, WorkType, Over, work, start, servers
  <2>5. ReportInv'
    BY <1>0, <1>4 DEF EndAssembly, StopAfter, PhaseInv, ReportInv, Refused, WorkType, Over, work
  <2>6. CauseInv'
    BY <1>0, <1>4 DEF EndAssembly, StopAfter, CauseInv, FailureType, start
  <2> QED
    BY <2>1, <2>2, <2>3, <2>4, <2>5, <2>6, Parts, PTL
<1>5. CASE ListenFails
  <2>1. LifeType' /\ ServerType'
    BY <1>0, <1>5, CountAssumption DEF ListenFails, Refuse, Starts, LifeType, ServerType, Phases, servers, start
  <2>2. WorkType'
    BY <1>0, <1>5 DEF ListenFails, Refuse, Starts, WorkType, work
  <2>3. FailureType'
    BY <1>0, <1>5 DEF ListenFails, Refuse, Starts, FailureType, Server
  <2>4. PhaseInv'
    BY <1>0, <1>5 DEF ListenFails, Refuse, Starts, PhaseInv, WorkType, Over, work, start, servers
  <2>5. ReportInv'
    BY <1>0, <1>5 DEF ListenFails, Refuse, Starts, PhaseInv, ReportInv, Refused, WorkType, Over, work
  <2>6. CauseInv'
    BY <1>0, <1>5 DEF ListenFails, Refuse, Starts, CauseInv, FailureType, start
  <2> QED
    BY <2>1, <2>2, <2>3, <2>4, <2>5, <2>6, Parts, PTL
<1>6. CASE Listen
  <2>1. LifeType' /\ ServerType'
    BY <1>0, <1>6, CountAssumption DEF Listen, LifeType, ServerType, Phases, servers, start
  <2>2. WorkType'
    BY <1>0, <1>6 DEF Listen, WorkType, work
  <2>3. FailureType'
    BY <1>0, <1>6 DEF Listen, FailureType, Server
  <2>4. PhaseInv'
    BY <1>0, <1>6 DEF Listen, PhaseInv, WorkType, Over, work, start, servers
  <2>5. ReportInv'
    BY <1>0, <1>6 DEF Listen, PhaseInv, ReportInv, Refused, WorkType, Over, work
  <2>6. CauseInv'
    BY <1>0, <1>6 DEF Listen, CauseInv, FailureType, start
  <2> QED
    BY <2>1, <2>2, <2>3, <2>4, <2>5, <2>6, Parts, PTL
<1>7. CASE KeyPairFails
  <2>1. LifeType' /\ ServerType'
    BY <1>0, <1>7, CountAssumption DEF KeyPairFails, Refuse, Starts, LifeType, ServerType, Phases, servers, start
  <2>2. WorkType'
    BY <1>0, <1>7 DEF KeyPairFails, Refuse, Starts, WorkType, work
  <2>3. FailureType'
    BY <1>0, <1>7 DEF KeyPairFails, Refuse, Starts, FailureType, Server
  <2>4. PhaseInv'
    BY <1>0, <1>7 DEF KeyPairFails, Refuse, Starts, PhaseInv, WorkType, Over, work, start, servers
  <2>5. ReportInv'
    BY <1>0, <1>7 DEF KeyPairFails, Refuse, Starts, PhaseInv, ReportInv, Refused, WorkType, Over, work
  <2>6. CauseInv'
    BY <1>0, <1>7 DEF KeyPairFails, Refuse, Starts, CauseInv, FailureType, start
  <2> QED
    BY <2>1, <2>2, <2>3, <2>4, <2>5, <2>6, Parts, PTL
<1>8. CASE Serve
  <2>1. LifeType' /\ ServerType'
    BY <1>0, <1>8, CountAssumption DEF Serve, LifeType, ServerType, Phases, servers, start
  <2>2. WorkType'
    BY <1>0, <1>8 DEF Serve, WorkType, work
  <2>3. FailureType'
    BY <1>0, <1>8 DEF Serve, FailureType, Server
  <2>4. PhaseInv'
    BY <1>0, <1>8 DEF Serve, PhaseInv, WorkType, Over, work, start, servers
  <2>5. ReportInv'
    BY <1>0, <1>8 DEF Serve, PhaseInv, ReportInv, Refused, WorkType, Over, work
  <2>6. CauseInv'
    BY <1>0, <1>8 DEF Serve, CauseInv, FailureType, start
  <2> QED
    BY <2>1, <2>2, <2>3, <2>4, <2>5, <2>6, Parts, PTL
<1> QED
  BY <1>1, <1>2, <1>3, <1>4, <1>5, <1>6, <1>7, <1>8 DEF Starting

LEMMA StoppingKeeps == ASSUME IInv, Stopping PROVE IInv'
<1>0. LifeType /\ ServerType /\ WorkType /\ FailureType /\ PhaseInv /\ ReportInv /\ CauseInv
  BY Parts
<1>1. CASE Stop
  <2>1. LifeType' /\ ServerType'
    BY <1>0, <1>1, CountAssumption DEF Stop, LifeType, ServerType, Phases, servers, start
  <2>2. WorkType'
    BY <1>0, <1>1 DEF Stop, WorkType, work
  <2>3. FailureType'
    BY <1>0, <1>1 DEF Stop, FailureType, Server
  <2>4. PhaseInv'
    BY <1>0, <1>1 DEF Stop, PhaseInv, WorkType, Over, work, start, servers
  <2>5. ReportInv'
    BY <1>0, <1>1 DEF Stop, PhaseInv, ReportInv, Refused, WorkType, Over, work
  <2>6. CauseInv'
    BY <1>0, <1>1 DEF Stop, CauseInv, FailureType, start
  <2> QED
    BY <2>1, <2>2, <2>3, <2>4, <2>5, <2>6, Parts, PTL
<1>2. CASE Drained
  <2>1. LifeType' /\ ServerType'
    BY <1>0, <1>2, CountAssumption DEF Drained, Starts, LifeType, ServerType, Phases, servers, start
  <2>2. WorkType'
    BY <1>0, <1>2 DEF Drained, Starts, WorkType, work
  <2>3. FailureType'
    BY <1>0, <1>2 DEF Drained, Starts, FailureType, Server
  <2>4. PhaseInv'
    BY <1>0, <1>2 DEF Drained, Starts, PhaseInv, WorkType, Over, work, start, servers
  <2>5. ReportInv'
    BY <1>0, <1>2 DEF Drained, Starts, PhaseInv, ReportInv, Refused, WorkType, Over, work
  <2>6. CauseInv'
    BY <1>0, <1>2 DEF Drained, Starts, CauseInv, FailureType, start
  <2> QED
    BY <2>1, <2>2, <2>3, <2>4, <2>5, <2>6, Parts, PTL
<1>3. CASE JoinTasks
  <2>1. LifeType' /\ ServerType'
    BY <1>0, <1>3, CountAssumption DEF JoinTasks, LifeType, ServerType, Phases, servers, start
  <2>2. WorkType'
    BY <1>0, <1>3 DEF JoinTasks, WorkType, work
  <2>3. FailureType'
    BY <1>0, <1>3 DEF JoinTasks, FailureType, Server
  <2>4. PhaseInv'
    BY <1>0, <1>3 DEF JoinTasks, PhaseInv, WorkType, Over, work, start, servers
  <2>5. ReportInv'
    BY <1>0, <1>3 DEF JoinTasks, PhaseInv, ReportInv, Refused, WorkType, Over, work
  <2>6. CauseInv'
    BY <1>0, <1>3 DEF JoinTasks, CauseInv, FailureType, start
  <2> QED
    BY <2>1, <2>2, <2>3, <2>4, <2>5, <2>6, Parts, PTL
<1>4. CASE Joined
  <2>1. LifeType' /\ ServerType'
    BY <1>0, <1>4, CountAssumption DEF Joined, LifeType, ServerType, Phases, servers, start
  <2>2. WorkType'
    BY <1>0, <1>4 DEF Joined, WorkType, work
  <2>3. FailureType'
    BY <1>0, <1>4 DEF Joined, FailureType, Server
  <2>4. PhaseInv'
    BY <1>0, <1>4 DEF Joined, PhaseInv, WorkType, Over, work, start, servers
  <2>5. ReportInv'
    BY <1>0, <1>4 DEF Joined, PhaseInv, ReportInv, Refused, WorkType, Over, work
  <2>6. CauseInv'
    BY <1>0, <1>4 DEF Joined, CauseInv, FailureType, start
  <2> QED
    BY <2>1, <2>2, <2>3, <2>4, <2>5, <2>6, Parts, PTL
<1>5. CASE ShutProbes
  <2>1. LifeType' /\ ServerType'
    BY <1>0, <1>5, CountAssumption DEF ShutProbes, LifeType, ServerType, Phases, servers, start
  <2>2. WorkType'
    BY <1>0, <1>5 DEF ShutProbes, WorkType, work
  <2>3. FailureType'
    BY <1>0, <1>5 DEF ShutProbes, FailureType, Server
  <2>4. PhaseInv'
    BY <1>0, <1>5 DEF ShutProbes, PhaseInv, WorkType, Over, work, start, servers
  <2>5. ReportInv'
    BY <1>0, <1>5 DEF ShutProbes, PhaseInv, ReportInv, Refused, WorkType, Over, work
  <2>6. CauseInv'
    BY <1>0, <1>5 DEF ShutProbes, CauseInv, FailureType, start
  <2> QED
    BY <2>1, <2>2, <2>3, <2>4, <2>5, <2>6, Parts, PTL
<1>6. CASE Close
  <2>1. LifeType' /\ ServerType'
    BY <1>0, <1>6, CountAssumption DEF Close, LifeType, ServerType, Phases, servers, start
  <2>2. WorkType'
    BY <1>0, <1>6 DEF Close, WorkType, work
  <2>3. FailureType'
    BY <1>0, <1>6 DEF Close, FailureType, Server
  <2>4. PhaseInv'
    BY <1>0, <1>6 DEF Close, PhaseInv, WorkType, Over, work, start, servers
  <2>5. ReportInv'
    BY <1>0, <1>6 DEF Close, PhaseInv, ReportInv, Refused, WorkType, Over, work
  <2>6. CauseInv'
    BY <1>0, <1>6 DEF Close, CauseInv, FailureType, start
  <2> QED
    BY <2>1, <2>2, <2>3, <2>4, <2>5, <2>6, Parts, PTL
<1>7. CASE Return
  <2>1. LifeType' /\ ServerType'
    BY <1>0, <1>7, CountAssumption DEF Return, LifeType, ServerType, Phases, servers, start
  <2>2. WorkType'
    BY <1>0, <1>7 DEF Return, WorkType, work
  <2>3. FailureType'
    BY <1>0, <1>7 DEF Return, FailureType, Server
  <2>4. PhaseInv'
    BY <1>0, <1>7 DEF Return, PhaseInv, WorkType, Over, work, start, servers
  <2>5. ReportInv'
    BY <1>0, <1>7 DEF Return, PhaseInv, ReportInv, Refused, WorkType, Over, work
  <2>6. CauseInv'
    BY <1>0, <1>7 DEF Return, CauseInv, FailureType, start
  <2> QED
    BY <2>1, <2>2, <2>3, <2>4, <2>5, <2>6, Parts, PTL
<1> QED
  BY <1>1, <1>2, <1>3, <1>4, <1>5, <1>6, <1>7 DEF Stopping

LEMMA WorkKeeps ==
    ASSUME IInv,
           \/ Signal \/ StopRun \/ ServerFails \/ Expire
           \/ \E r \in Routine : RoutineStep(r)
           \/ \E t \in Task : TaskStep(t)
           \/ \E q \in Request : RequestStep(q)
    PROVE  IInv'
<1>0. LifeType /\ ServerType /\ WorkType /\ FailureType /\ PhaseInv /\ ReportInv /\ CauseInv
  BY Parts
<1>1. CASE Signal
  <2>1. LifeType' /\ ServerType'
    BY <1>0, <1>1, CountAssumption DEF Signal, LifeType, ServerType, Phases, servers, start
  <2>2. WorkType'
    BY <1>0, <1>1 DEF Signal, WorkType, work
  <2>3. FailureType'
    BY <1>0, <1>1 DEF Signal, FailureType, Server
  <2>4. PhaseInv'
    BY <1>0, <1>1 DEF Signal, PhaseInv, WorkType, Over, work, start, servers
  <2>5. ReportInv'
    BY <1>0, <1>1 DEF Signal, PhaseInv, ReportInv, Refused, WorkType, Over, work
  <2>6. CauseInv'
    BY <1>0, <1>1 DEF Signal, CauseInv, FailureType, start
  <2> QED
    BY <2>1, <2>2, <2>3, <2>4, <2>5, <2>6, Parts, PTL
<1>2. CASE StopRun
  <2>1. LifeType' /\ ServerType'
    BY <1>0, <1>2, CountAssumption DEF StopRun, LifeType, ServerType, Phases, servers, start
  <2>2. WorkType'
    BY <1>0, <1>2 DEF StopRun, WorkType, work
  <2>3. FailureType'
    BY <1>0, <1>2 DEF StopRun, FailureType, Server
  <2>4. PhaseInv'
    BY <1>0, <1>2 DEF StopRun, PhaseInv, WorkType, Over, work, start, servers
  <2>5. ReportInv'
    BY <1>0, <1>2 DEF StopRun, PhaseInv, ReportInv, Refused, WorkType, Over, work
  <2>6. CauseInv'
    BY <1>0, <1>2 DEF StopRun, CauseInv, FailureType, start
  <2> QED
    BY <2>1, <2>2, <2>3, <2>4, <2>5, <2>6, Parts, PTL
<1>3. CASE Expire
  <2>1. LifeType' /\ ServerType'
    BY <1>0, <1>3, CountAssumption DEF Expire, LifeType, ServerType, Phases, servers, start
  <2>2. WorkType'
    BY <1>0, <1>3 DEF Expire, WorkType, work
  <2>3. FailureType'
    BY <1>0, <1>3 DEF Expire, FailureType, Server
  <2>4. PhaseInv'
    BY <1>0, <1>3 DEF Expire, PhaseInv, WorkType, Over, work, start, servers
  <2>5. ReportInv'
    BY <1>0, <1>3 DEF Expire, PhaseInv, ReportInv, Refused, WorkType, Over, work
  <2>6. CauseInv'
    BY <1>0, <1>3 DEF Expire, CauseInv, FailureType, start
  <2> QED
    BY <2>1, <2>2, <2>3, <2>4, <2>5, <2>6, Parts, PTL
<1>4. CASE ServerFails
  <2>1. LifeType' /\ ServerType'
    BY <1>0, <1>4, CountAssumption DEF ServerFails, LifeType, ServerType, Phases, servers, start
  <2>2. WorkType'
    BY <1>0, <1>4 DEF ServerFails, WorkType, work
  <2>3. FailureType'
    BY <1>0, <1>4 DEF ServerFails, FailureType, Server
  <2>4. PhaseInv'
    BY <1>0, <1>4 DEF ServerFails, PhaseInv, WorkType, Over, work, start, servers
  <2>5. ReportInv'
    BY <1>0, <1>4 DEF ServerFails, PhaseInv, ReportInv, Refused, WorkType, Over, work
  <2>6. CauseInv'
    BY <1>0, <1>4 DEF ServerFails, CauseInv, FailureType, start
  <2> QED
    BY <2>1, <2>2, <2>3, <2>4, <2>5, <2>6, Parts, PTL
<1>5. ASSUME NEW r \in Routine, Start(r) PROVE IInv'
  <2>1. LifeType' /\ ServerType'
    BY <1>0, <1>5, CountAssumption DEF Start, LifeType, ServerType, Phases, servers, start
  <2>2. WorkType'
    BY <1>0, <1>5 DEF Start, WorkType, work
  <2>3. FailureType'
    BY <1>0, <1>5 DEF Start, FailureType, Server
  <2>4. PhaseInv'
    BY <1>0, <1>5 DEF Start, PhaseInv, WorkType, Over, work, start, servers
  <2>5. ReportInv'
    BY <1>0, <1>5 DEF Start, PhaseInv, ReportInv, Refused, WorkType, Over, work
  <2>6. CauseInv'
    BY <1>0, <1>5 DEF Start, CauseInv, FailureType, start
  <2> QED
    BY <2>1, <2>2, <2>3, <2>4, <2>5, <2>6, Parts, PTL
<1>6. ASSUME NEW r \in Routine, EndRoutine(r) PROVE IInv'
  <2>1. LifeType' /\ ServerType'
    BY <1>0, <1>6, CountAssumption DEF EndRoutine, LifeType, ServerType, Phases, servers, start
  <2>2. WorkType'
    BY <1>0, <1>6 DEF EndRoutine, WorkType, work
  <2>3. FailureType'
    BY <1>0, <1>6 DEF EndRoutine, FailureType, Server
  <2>4. PhaseInv'
    BY <1>0, <1>6 DEF EndRoutine, PhaseInv, WorkType, Over, work, start, servers
  <2>5. ReportInv'
    BY <1>0, <1>6 DEF EndRoutine, PhaseInv, ReportInv, Refused, WorkType, Over, work
  <2>6. CauseInv'
    BY <1>0, <1>6 DEF EndRoutine, CauseInv, FailureType, start
  <2> QED
    BY <2>1, <2>2, <2>3, <2>4, <2>5, <2>6, Parts, PTL
<1>7. ASSUME NEW r \in Routine, Panic(r) PROVE IInv'
  <2>1. LifeType' /\ ServerType'
    BY <1>0, <1>7, CountAssumption DEF Panic, LifeType, ServerType, Phases, servers, start
  <2>2. WorkType'
    BY <1>0, <1>7 DEF Panic, WorkType, work
  <2>3. FailureType'
    BY <1>0, <1>7 DEF Panic, FailureType, Server
  <2>4. PhaseInv'
    BY <1>0, <1>7 DEF Panic, PhaseInv, WorkType, Over, work, start, servers
  <2>5. ReportInv'
    BY <1>0, <1>7 DEF Panic, PhaseInv, ReportInv, Refused, WorkType, Over, work
  <2>6. CauseInv'
    BY <1>0, <1>7 DEF Panic, CauseInv, FailureType, start
  <2> QED
    BY <2>1, <2>2, <2>3, <2>4, <2>5, <2>6, Parts, PTL
<1>8. ASSUME NEW t \in Task, EndTask(t) PROVE IInv'
  <2>1. LifeType' /\ ServerType'
    BY <1>0, <1>8, CountAssumption DEF EndTask, LifeType, ServerType, Phases, servers, start
  <2>2. WorkType'
    BY <1>0, <1>8 DEF EndTask, WorkType, work
  <2>3. FailureType'
    BY <1>0, <1>8 DEF EndTask, FailureType, Server
  <2>4. PhaseInv'
    BY <1>0, <1>8 DEF EndTask, PhaseInv, WorkType, Over, work, start, servers
  <2>5. ReportInv'
    BY <1>0, <1>8 DEF EndTask, PhaseInv, ReportInv, Refused, WorkType, Over, work
  <2>6. CauseInv'
    BY <1>0, <1>8 DEF EndTask, CauseInv, FailureType, start
  <2> QED
    BY <2>1, <2>2, <2>3, <2>4, <2>5, <2>6, Parts, PTL
<1>9. ASSUME NEW t \in Task, FailTask(t) PROVE IInv'
  <2>1. LifeType' /\ ServerType'
    BY <1>0, <1>9, CountAssumption DEF FailTask, LifeType, ServerType, Phases, servers, start
  <2>2. WorkType'
    BY <1>0, <1>9 DEF FailTask, WorkType, work
  <2>3. FailureType'
    BY <1>0, <1>9 DEF FailTask, FailureType, Server
  <2>4. PhaseInv'
    BY <1>0, <1>9 DEF FailTask, PhaseInv, WorkType, Over, work, start, servers
  <2>5. ReportInv'
    BY <1>0, <1>9 DEF FailTask, PhaseInv, ReportInv, Refused, WorkType, Over, work
  <2>6. CauseInv'
    BY <1>0, <1>9 DEF FailTask, CauseInv, FailureType, start
  <2> QED
    BY <2>1, <2>2, <2>3, <2>4, <2>5, <2>6, Parts, PTL
<1>10. ASSUME NEW t \in Task, SendFailure(t) PROVE IInv'
  <2>1. LifeType' /\ ServerType'
    BY <1>0, <1>10, CountAssumption DEF SendFailure, LifeType, ServerType, Phases, servers, start
  <2>2. WorkType'
    BY <1>0, <1>10 DEF SendFailure, WorkType, work
  <2>3. FailureType'
    BY <1>0, <1>10 DEF SendFailure, FailureType, Server
  <2>4. PhaseInv'
    BY <1>0, <1>10 DEF SendFailure, PhaseInv, WorkType, Over, work, start, servers
  <2>5. ReportInv'
    BY <1>0, <1>10 DEF SendFailure, PhaseInv, ReportInv, Refused, WorkType, Over, work
  <2>6. CauseInv'
    BY <1>0, <1>10 DEF SendFailure, CauseInv, FailureType, start
  <2> QED
    BY <2>1, <2>2, <2>3, <2>4, <2>5, <2>6, Parts, PTL
<1>11. ASSUME NEW q \in Request, Accept(q) PROVE IInv'
  <2>1. LifeType' /\ ServerType'
    BY <1>0, <1>11, CountAssumption DEF Accept, LifeType, ServerType, Phases, servers, start
  <2>2. WorkType'
    BY <1>0, <1>11 DEF Accept, WorkType, work
  <2>3. FailureType'
    BY <1>0, <1>11 DEF Accept, FailureType, Server
  <2>4. PhaseInv'
    BY <1>0, <1>11 DEF Accept, PhaseInv, WorkType, Over, work, start, servers
  <2>5. ReportInv'
    BY <1>0, <1>11 DEF Accept, PhaseInv, ReportInv, Refused, WorkType, Over, work
  <2>6. CauseInv'
    BY <1>0, <1>11 DEF Accept, CauseInv, FailureType, start
  <2> QED
    BY <2>1, <2>2, <2>3, <2>4, <2>5, <2>6, Parts, PTL
<1>12. ASSUME NEW q \in Request, Answer(q) PROVE IInv'
  <2>1. LifeType' /\ ServerType'
    BY <1>0, <1>12, CountAssumption DEF Answer, LifeType, ServerType, Phases, servers, start
  <2>2. WorkType'
    BY <1>0, <1>12 DEF Answer, WorkType, work
  <2>3. FailureType'
    BY <1>0, <1>12 DEF Answer, FailureType, Server
  <2>4. PhaseInv'
    BY <1>0, <1>12 DEF Answer, PhaseInv, WorkType, Over, work, start, servers
  <2>5. ReportInv'
    BY <1>0, <1>12 DEF Answer, PhaseInv, ReportInv, Refused, WorkType, Over, work
  <2>6. CauseInv'
    BY <1>0, <1>12 DEF Answer, CauseInv, FailureType, start
  <2> QED
    BY <2>1, <2>2, <2>3, <2>4, <2>5, <2>6, Parts, PTL
<1> QED
  BY <1>1, <1>2, <1>3, <1>4, <1>5, <1>6, <1>7, <1>8, <1>9, <1>10, <1>11, <1>12 DEF RoutineStep, TaskStep, RequestStep

LEMMA Invariant == Spec => []IInv
<1>1. IInv /\ UNCHANGED vars => IInv'
  BY DEF IInv, TypeOK, Phases, PhaseInv, ReportInv, CauseInv, Over, Refused, vars, servers, work, start
<1>2. IInv /\ [Next]_vars => IInv'
  BY <1>1, StartingKeeps, StoppingKeeps, WorkKeeps DEF Next
<1> QED
  BY <1>2, InitInv, PTL DEF Spec

\* Every variable keeps its type.
THEOREM TypeCorrect == Spec => []TypeOK
BY Invariant, PTL DEF IInv

\* The pools close behind every task and goroutine, whoever started it and
\* however late, and behind the requests' context.
THEOREM PoolsCorrect == Spec => []PoolsCloseLast
<1>1. IInv => PoolsCloseLast
  BY DEF IInv, PhaseInv, PoolsCloseLast
<1> QED
  BY <1>1, Invariant, PTL

\* What a process that served returns names every task and goroutine that
\* failed.
THEOREM ReportCorrect == Spec => []FailuresReported
<1>1. IInv => FailuresReported
  BY DEF IInv, ReportInv, Refused, FailuresReported
<1> QED
  BY <1>1, Invariant, PTL

\* A process that returns no failure was told to stop.
THEOREM ExitCorrect == Spec => []CleanExit
<1>1. IInv => CleanExit
  BY DEF IInv, CauseInv, CleanExit
<1> QED
  BY <1>1, Invariant, PTL

\* A process not told to stop before it served ends its tasks' and requests'
\* context only once the requests are answered or their time is up.
THEOREM DrainCorrect == Spec => RequestsDrainFirst
<1> DEFINE A == run' /= run /\ phase \in Served /\ after = "stopped" => Running(request) = {} \/ expired
<1>1. [Next]_vars => [A]_vars
  <2> SUFFICES ASSUME Next, run' /= run, phase \in Served, after = "stopped"
               PROVE  Running(request) = {} \/ expired
    OBVIOUS
  <2>1. Drained \/ StopRun \/ Close
    BY DEF Next, Starting, Stopping, RoutineStep, TaskStep, RequestStep, OpenPool, Assemble,
       AssemblyFails, EndAssembly, ListenFails, Listen, KeyPairFails, Serve, Signal, ServerFails,
       Expire, Stop, JoinTasks, Joined, ShutProbes, Return, Start, EndRoutine, Panic, EndTask,
       FailTask, SendFailure, Accept, Answer
  <2> QED
    BY <2>1 DEF Drained, StopRun, Close, Served
<1> QED
  BY <1>1, PTL DEF Spec, RequestsDrainFirst

=============================================================================
