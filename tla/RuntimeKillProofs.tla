-------------------------- MODULE RuntimeKillProofs --------------------------
(***************************************************************************)
(* Proofs about RuntimeKill for any number of kill requests, all faults    *)
(* and both platforms.  What is said about host runtimes holds until the   *)
(* wall clock is set.                                                      *)
(***************************************************************************)
EXTENDS RuntimeKill, TLAPS

\* The pid has been given to the runtime; the runtime has ended.
Born == pid # "unborn"
Over == pid \notin {"unborn", "runtime"}

\* Until the clock is set the start time in the row is the runtime's, if that has
\* not ended, and a host session has no container.
HostFacts ==
  /\ clock = 0 => start_time = 0 \/ Over
  /\ isolation = "Host" => container = "none"

\* What the row and the sweep say is true of the process.
RowIsTrue ==
  /\ row.pids => Born
  /\ row.state = "Running" => Born
  /\ row.state \in Terminal => Over
  /\ sweep \in {"probe", "compare"} => Born
  /\ sweep = "lost" => Over

\* A request that has sent its signal was sent to the runtime if that lives.
KillIsTrue ==
  \A r \in Request :
    /\ kill[r].pc # "idle" /\ kill[r].outcome # "Error" => Born
    /\ kill[r].outcome = "Signalled" /\ kill[r].signal = "KILL" /\ pid = "runtime"
       => "KILL" \in hits

Beliefs == RowIsTrue /\ KillIsTrue /\ KillIsForced

IInv == TypeOK /\ HostFacts /\ (Steady => Beliefs)

-----------------------------------------------------------------------------
(* Type correctness.                                                       *)

\* Marking a row gives a row in the state that the mark says.
LEMMA MarkedRows ==
  ASSUME NEW l \in Row
  PROVE  /\ mark_running(l) \in Row /\ mark_running(l).state = "Running"
         /\ mark_exited(l) \in Row /\ mark_exited(l).state = "Exited"
         /\ mark_exited(l).pids = l.pids
         /\ mark_lost(l) \in Row /\ mark_lost(l).state = "Lost"
         /\ mark_lost(l).pids = l.pids
BY DEF Row, LifecycleState, mark_running, mark_exited, mark_lost

\* The part of the types that is about requests.
KillTypes ==
  /\ kill \in [Request -> KillState]
  /\ \A r \in Request : kill[r].outcome = "none" <=> kill[r].pc \in {"idle", "signal"}

\* A request that moves on keeps its type.
LEMMA Moved ==
  ASSUME KillTypes, NEW r \in Request, NEW k \in KillState,
         k.outcome = "none" <=> k.pc \in {"idle", "signal"},
         kill' = [kill EXCEPT ![r] = k]
  PROVE  KillTypes'
BY DEF KillTypes

\* An answer is well-typed.
LEMMA AnsweredTypes ==
  ASSUME KillTypes, NEW r \in Request, NEW o \in KillOutcome \cup {"Error"}, Answered(r, o)
  PROVE  KillTypes'
<1> DEFINE k == [kill[r] EXCEPT !.pc = "answered", !.outcome = o]
<1>1. k \in KillState /\ (k.outcome = "none" <=> k.pc \in {"idle", "signal"})
  BY DEF KillTypes, KillState, KillOutcome
<1>2. kill' = [kill EXCEPT ![r] = k]
  BY DEF Answered, KillTypes
<1> QED BY <1>1, <1>2, Moved

\* So is a request whose first signal was sent.
LEMMA SignalledTypes ==
  ASSUME KillTypes, NEW r \in Request, Signalled(r)
  PROVE  KillTypes'
<1> DEFINE k == [kill[r] EXCEPT !.pc = "poll", !.outcome = "Signalled"]
<1>1. k \in KillState /\ (k.outcome = "none" <=> k.pc \in {"idle", "signal"})
  BY DEF KillTypes, KillState, KillOutcome
<1>2. kill' = [kill EXCEPT ![r] = k]
  BY DEF Signalled, KillTypes
<1> QED BY <1>1, <1>2, Moved

\* So is one that goes round its loop.
LEMMA GoTypes ==
  ASSUME KillTypes, NEW r \in Request, kill[r].pc \notin {"idle", "signal"},
         NEW pc \in {"poll", "alive", "escalate", "kill"}, Go(r, pc)
  PROVE  KillTypes'
<1> DEFINE k == [kill[r] EXCEPT !.pc = pc]
<1>1. k \in KillState /\ (k.outcome = "none" <=> k.pc \in {"idle", "signal"})
  BY DEF KillTypes, KillState
<1>2. kill' = [kill EXCEPT ![r] = k]
  BY DEF Go, KillTypes
<1> QED BY <1>1, <1>2, Moved

\* So is one that begins.
LEMMA BeginTypes ==
  ASSUME KillTypes, NEW r \in Request, kill[r].pc = "idle",
         NEW by \in {"session", "pid"}, NEW sig \in RuntimeSignal, begin(r, by, sig)
  PROVE  KillTypes'
<1> DEFINE k == [kill[r] EXCEPT !.pc = "signal", !.by = by, !.signal = sig]
<1>1. k \in KillState /\ (k.outcome = "none" <=> k.pc \in {"idle", "signal"})
  BY DEF KillTypes, KillState
<1>2. kill' = [kill EXCEPT ![r] = k]
  BY DEF begin, KillTypes
<1> QED BY <1>1, <1>2, Moved

\* Every step of Next keeps the types.
LEMMA TypeStep == TypeOK /\ [Next]_vars => TypeOK'
<1> SUFFICES ASSUME TypeOK, [Next]_vars PROVE TypeOK'
  OBVIOUS
<1>0. KillTypes
  BY DEF TypeOK, KillTypes
<1>1. ASSUME NEW r \in Request, Killing(r) PROVE TypeOK'
  <2>1. KillTypes' /\ hits' \in SUBSET RuntimeSignal
    <3> USE <1>0 DEF KillOutcome, TypeOK
    <3>0. kill[r] \in KillState /\ kill[r].signal \in RuntimeSignal
      BY DEF KillState
    <3>a. kill[r].pc \in {"poll", "alive", "escalate", "kill"}
          => kill[r].outcome \in KillOutcome \cup {"Error"}
      BY <3>0 DEF KillState
    <3>1. ASSUME NEW sig \in RuntimeSignal, kill_runtime(r, sig)
          PROVE  KillTypes' /\ hits' \in SUBSET RuntimeSignal
      BY <3>1, AnsweredTypes, BeginTypes DEF kill_runtime
    <3>2. ASSUME NEW sig \in RuntimeSignal, kill_pid(r, sig)
          PROVE  KillTypes' /\ hits' \in SUBSET RuntimeSignal
      BY <3>2, BeginTypes DEF kill_pid
    <3>3. CASE send_signal(r)
      BY <3>0, <3>3, AnsweredTypes, SignalledTypes DEF send_signal, Hit
    <3>4. CASE kill_container(r)
      BY <3>0, <3>4, AnsweredTypes, SignalledTypes DEF kill_container, Hit
    <3>5. CASE deadline_passes(r)
      <4> DEFINE k == [kill[r] EXCEPT !.late = TRUE]
      <4>1. k \in KillState /\ k.outcome = kill[r].outcome /\ k.pc = kill[r].pc
        BY <3>0 DEF KillState
      <4>2. kill' = [kill EXCEPT ![r] = k] /\ hits' = hits
        BY <3>5 DEF deadline_passes, KillTypes
      <4>3. k.outcome = "none" <=> k.pc \in {"idle", "signal"}
        BY <4>1 DEF KillTypes
      <4> HIDE DEF k
      <4> QED BY <4>1, <4>2, <4>3, Moved
    <3>6. CASE poll(r)
      BY <3>a, <3>6, AnsweredTypes, GoTypes DEF poll
    <3>7. CASE still_alive(r)
      BY <3>a, <3>7, AnsweredTypes, GoTypes DEF still_alive
    <3>8. CASE escalate(r)
      BY <3>a, <3>8, AnsweredTypes, GoTypes DEF escalate
    <3>9. CASE send_kill(r)
      BY <3>a, <3>9, AnsweredTypes DEF send_kill, Hit, RuntimeSignal
    <3>10. CASE docker_unavailable(r)
      BY <3>10, AnsweredTypes DEF docker_unavailable
    <3> QED BY <1>1, <3>1, <3>2, <3>3, <3>4, <3>5, <3>6, <3>7, <3>8, <3>9, <3>10 DEF Killing
  <2>2. UNCHANGED <<isolation, row, start_time, pid, container, clock, sweep>>
    BY <1>1 DEF Killing, kill_runtime, kill_pid, send_signal, kill_container,
         deadline_passes, poll, still_alive, escalate, send_kill, docker_unavailable,
         processes
  <2> QED BY <2>1, <2>2 DEF TypeOK, KillTypes
<1>2. CASE Sweeping
  <2>1. UNCHANGED <<isolation, start_time, pid, container, clock, kill, hits>>
    BY <1>2 DEF Sweeping, sweep_begin, lost_evidence, host_lost_evidence, record_lost,
         processes
  <2>2. row' \in Row /\ sweep' \in {"idle", "probe", "compare", "lost"}
    BY <1>2, MarkedRows
    DEF TypeOK, Sweeping, sweep_begin, lost_evidence, host_lost_evidence, record_lost
  <2> QED BY <2>1, <2>2 DEF TypeOK
<1>3. CASE Environment
  BY <1>3, MarkedRows, MaxStepsNatural
  DEF TypeOK, Environment, start_runtime, container_starts, container_ends, process_ends,
      pid_changes, clock_steps, record_running, record_exited, processes, utc_now
<1>4. CASE UNCHANGED vars
  BY <1>4 DEF TypeOK, vars, processes
<1> QED BY <1>1, <1>2, <1>3, <1>4 DEF Next

\* The initial state is of the types.
LEMMA TypeInit == Init => TypeOK
BY DEF Init, TypeOK, forking, Row, LifecycleState, NoKill, KillState, KillOutcome,
       RuntimeSignal

\* Requests, row and processes are always of their types, and a request has an
\* outcome exactly from its first signal on (kill_runtime, kill_pid).
THEOREM TypeCorrect == Spec => []TypeOK
BY TypeInit, TypeStep, PTL DEF Spec

-----------------------------------------------------------------------------
(* What the daemon believes about the runtime.                             *)

\* Initially nothing has been started, believed or asked.
LEMMA InvInit == Init => IInv
BY TypeInit
DEF Beliefs, Init, IInv, HostFacts, RowIsTrue, KillIsTrue, KillIsForced, forking,
    NoKill, Terminal, Born, Over

\* A step that leaves the processes alone and only moves requests.
LEMMA KillStep ==
  ASSUME TypeOK, HostFacts, Steady, Beliefs, TypeOK', NEW r \in Request, Killing(r)
  PROVE  Beliefs'
<1> USE DEF Beliefs, Steady, TypeOK, HostFacts, processes
<1>1. /\ UNCHANGED <<isolation, row, start_time, pid, container, clock, sweep>>
      /\ hits \subseteq hits'
      /\ \A x \in Request : x # r => kill'[x] = kill[x]
  BY DEF Killing, kill_runtime, kill_pid, send_signal, kill_container, deadline_passes,
         poll, still_alive, escalate, send_kill, docker_unavailable, Answered, Go,
         Signalled, begin, Hit
<1>2. RowIsTrue'
  BY <1>1 DEF RowIsTrue, Born, Over
<1> DEFINE New ==
      /\ kill'[r].pc # "idle" /\ kill'[r].outcome # "Error" => Born
      /\ kill'[r].outcome = "Signalled" /\ kill'[r].signal = "KILL" /\ pid = "runtime"
         => "KILL" \in hits'
      /\ kill'[r].pc = "answered" /\ kill'[r].outcome = "Signalled" /\ pid = "runtime"
         => "KILL" \in hits'
<1>3. New
  <2> USE DEF KillIsTrue, KillIsForced, RuntimeAlive, Born, KillState
  <2>1. ASSUME NEW sig \in RuntimeSignal, kill_runtime(r, sig) PROVE New
    BY <2>1 DEF kill_runtime, Answered, begin, RowIsTrue
  <2>2. ASSUME NEW sig \in RuntimeSignal, kill_pid(r, sig) PROVE New
    BY <2>2 DEF kill_pid, begin
  <2>3. CASE send_signal(r)
    BY <2>3 DEF send_signal, Answered, Signalled, Hit
  <2>4. CASE kill_container(r)
    BY <2>4 DEF kill_container
  <2>5. CASE deadline_passes(r)
    BY <2>5 DEF deadline_passes
  <2>6. CASE poll(r)
    BY <2>6 DEF poll, Answered, Go, RowIsTrue, Over
  <2>7. CASE still_alive(r)
    BY <2>7 DEF still_alive, Answered, Go, is_alive, pid_alive
  <2>8. CASE escalate(r)
    BY <2>8 DEF escalate, Answered, Go, is_alive, pid_alive
  <2>9. CASE send_kill(r)
    BY <2>9 DEF send_kill, Answered, Hit
  <2>10. CASE docker_unavailable(r)
    BY <2>10 DEF docker_unavailable
  <2> QED BY <2>1, <2>2, <2>3, <2>4, <2>5, <2>6, <2>7, <2>8, <2>9, <2>10 DEF Killing
<1>4. KillIsTrue' /\ KillIsForced'
  BY <1>1, <1>3 DEF KillIsTrue, KillIsForced, RuntimeAlive, Born
<1> QED BY <1>2, <1>4

\* A step of a process, of a recorder or of the sweep.
LEMMA WorldStep ==
  ASSUME TypeOK, HostFacts, Steady, Beliefs, TypeOK', Sweeping \/ Environment
  PROVE  Beliefs'
<1> USE DEF Beliefs, Steady, TypeOK, HostFacts, processes
<1>1. UNCHANGED <<kill, hits, isolation>>
  BY DEF Sweeping, sweep_begin, lost_evidence, host_lost_evidence, record_lost,
         Environment, start_runtime, container_starts, container_ends, process_ends,
         pid_changes, clock_steps, record_running, record_exited
<1>2. /\ Born => Born'
      /\ Over => Over'
      /\ pid' = "runtime" => pid = "runtime" \/ ~Born
  BY DEF Born, Over, Sweeping, sweep_begin, lost_evidence, host_lost_evidence, record_lost,
         Environment, start_runtime, container_starts, container_ends, process_ends,
         pid_changes, clock_steps, record_running, record_exited
<1>3. RowIsTrue'
  <2>1. CASE sweep_begin
    BY <2>1 DEF sweep_begin, RowIsTrue, Born, Over
  <2>2. CASE lost_evidence
    BY <2>2 DEF lost_evidence, is_alive, pid_alive, RowIsTrue, Born, Over
  <2>3. CASE host_lost_evidence
    BY <2>3 DEF host_lost_evidence, gone, start_time_from_ticks, pid_alive, RowIsTrue,
                Born, Over
  <2>4. CASE record_lost
    BY <2>4, MarkedRows DEF record_lost, RowIsTrue, Born, Over, Terminal
  <2>5. CASE record_running
    BY <2>5, MarkedRows DEF record_running, RowIsTrue, Born, Over, Terminal
  <2>6. CASE record_exited
    BY <2>6, MarkedRows DEF record_exited, RowIsTrue, Born, Over, Terminal
  <2>7. CASE UNCHANGED <<row, sweep>>
    BY <1>2, <2>7 DEF RowIsTrue
  <2> QED
    BY <2>1, <2>2, <2>3, <2>4, <2>5, <2>6, <2>7
    DEF Sweeping, Environment, start_runtime, container_starts, container_ends,
        process_ends, pid_changes, clock_steps
<1>4. KillIsTrue' /\ KillIsForced'
  BY <1>1, <1>2 DEF KillIsTrue, KillIsForced, RuntimeAlive
<1> QED BY <1>3, <1>4

\* Isolation does not change, the clock only goes on, and containers are made
\* for docker sessions only.
LEMMA FactsStep ==
  ASSUME TypeOK, HostFacts, [Next]_vars
  PROVE  HostFacts' /\ (Steady' => Steady)
<1> USE DEF TypeOK, HostFacts, Steady, processes, Over
<1>1. ASSUME NEW r \in Request, Killing(r)
      PROVE  UNCHANGED <<isolation, start_time, pid, container, clock>>
  BY <1>1
  DEF Killing, kill_runtime, kill_pid, send_signal, kill_container, deadline_passes,
      poll, still_alive, escalate, send_kill, docker_unavailable
<1>2. CASE Sweeping
  BY <1>2 DEF Sweeping, sweep_begin, lost_evidence, host_lost_evidence, record_lost
<1>3. CASE Environment
  BY <1>3
  DEF Environment, start_runtime, container_starts, container_ends, process_ends,
      pid_changes, clock_steps, record_running, record_exited
<1>4. CASE UNCHANGED vars
  BY <1>4 DEF vars
<1> QED BY <1>1, <1>2, <1>3, <1>4 DEF Next

\* Every step of Next keeps the invariant.
LEMMA InvStep == IInv /\ [Next]_vars => IInv'
<1> SUFFICES ASSUME IInv, [Next]_vars PROVE IInv'
  OBVIOUS
<1>1. TypeOK' /\ HostFacts' /\ (Steady' => Steady)
  BY TypeStep, FactsStep DEF IInv
<1>2. ASSUME Steady' PROVE Beliefs'
  <2>1. TypeOK /\ HostFacts /\ Steady /\ Beliefs
    BY <1>1, <1>2 DEF IInv
  <2>2. CASE UNCHANGED vars
    BY <2>1, <2>2
    DEF vars, processes, Beliefs, RowIsTrue, KillIsTrue, KillIsForced, Born, Over,
        RuntimeAlive, Steady
  <2> QED BY <1>1, <2>1, <2>2, KillStep, WorldStep DEF Next
<1> QED BY <1>1, <1>2 DEF IInv

\* Until the clock is set the sweep never calls a live host runtime lost,
\* although pid and start time are read in separate steps and the pid may change
\* hands in between (host_lost_evidence, record_lost).
THEOREM LostOnlyWhenDead == Spec => []SteadyLostIsTrue
<1>1. IInv => SteadyLostIsTrue
  BY DEF IInv, Beliefs, Steady, RowIsTrue, SteadyLostIsTrue, LostIsTrue, RuntimeAlive,
         Terminal, Over
<1> QED BY <1>1, InvInit, InvStep, PTL DEF Spec

\* Until the clock is set a host runtime that outlives a kill request answered
\* with Signalled has been sent KILL (run_kill_loop and kill_pid).
THEOREM SignalledIsForced == Spec => []KillIsForced
<1>1. IInv => KillIsForced
  BY DEF IInv, Beliefs, KillIsForced
<1> QED BY <1>1, InvInit, InvStep, PTL DEF Spec

-----------------------------------------------------------------------------
(* Containers.                                                             *)

\* Already when the first signal counts as sent it has been delivered.
Delivered ==
  isolation = "Docker" =>
    \A r \in Request : kill[r].outcome = "Signalled" => kill[r].signal \in hits

\* A request that is answered keeps its signal.
LEMMA AnswerKeeps ==
  ASSUME kill \in [Request -> KillState], NEW r \in Request, NEW o, Answered(r, o)
  PROVE  kill'[r].outcome = o /\ kill'[r].signal = kill[r].signal
BY DEF Answered, KillState

\* One that goes round its loop keeps outcome and signal.
LEMMA GoKeeps ==
  ASSUME kill \in [Request -> KillState], NEW r \in Request, NEW pc, Go(r, pc)
  PROVE  kill'[r].outcome = kill[r].outcome /\ kill'[r].signal = kill[r].signal
BY DEF Go, KillState

\* Every step of Next keeps Delivered.
LEMMA DeliveredStep == TypeOK /\ Delivered /\ [Next]_vars => Delivered'
<1> SUFFICES ASSUME TypeOK, Delivered, [Next]_vars PROVE Delivered'
  OBVIOUS
<1> USE DEF TypeOK, Delivered, processes
<1>1. ASSUME NEW r \in Request, Killing(r) PROVE Delivered'
  <2>1. /\ isolation' = isolation /\ hits \subseteq hits'
        /\ \A x \in Request : x # r => kill'[x] = kill[x]
    BY <1>1 DEF Killing, kill_runtime, kill_pid, send_signal, kill_container,
         deadline_passes, poll, still_alive, escalate, send_kill, docker_unavailable,
         Answered, Go, Signalled, begin, Hit
  <2>2. ASSUME isolation = "Docker", kill'[r].outcome = "Signalled"
        PROVE  kill'[r].signal \in hits'
    <3>1. CASE kill_container(r)
      BY <2>2, <3>1 DEF kill_container, Answered, Signalled, Hit, KillState
    <3>2. CASE deadline_passes(r) \/ poll(r) \/ still_alive(r) \/ escalate(r)
      <4>1. kill'[r].outcome = kill[r].outcome /\ kill'[r].signal = kill[r].signal
        <5>1. CASE deadline_passes(r)
          BY <5>1 DEF deadline_passes, KillState
        <5>2. CASE poll(r)
          BY <5>2, AnswerKeeps, GoKeeps DEF poll
        <5>3. CASE still_alive(r)
          BY <5>3, AnswerKeeps, GoKeeps DEF still_alive
        <5>4. CASE escalate(r)
          BY <5>4, AnswerKeeps, GoKeeps DEF escalate
        <5> QED BY <3>2, <5>1, <5>2, <5>3, <5>4
      <4> QED BY <2>1, <2>2, <4>1
    <3>3. CASE send_kill(r) \/ docker_unavailable(r)
      BY <2>1, <2>2, <3>3 DEF send_kill, docker_unavailable, Answered, KillState
    <3>4. ASSUME NEW sig \in RuntimeSignal, kill_runtime(r, sig) \/ kill_pid(r, sig)
          PROVE  FALSE
      BY <2>2, <3>4 DEF kill_runtime, kill_pid, begin, KillState
    <3>5. ~send_signal(r)
      BY <2>2 DEF send_signal
    <3> QED BY <1>1, <3>1, <3>2, <3>3, <3>4, <3>5 DEF Killing
  <2> QED BY <2>1, <2>2
<1>2. CASE Sweeping \/ Environment
  BY <1>2
  DEF Sweeping, sweep_begin, lost_evidence, host_lost_evidence, record_lost, Environment,
      start_runtime, container_starts, container_ends, process_ends, pid_changes,
      clock_steps, record_running, record_exited
<1>3. CASE UNCHANGED vars
  BY <1>3 DEF vars
<1> QED BY <1>1, <1>2, <1>3 DEF Next

\* A kill of a container that is answered with Signalled has delivered the
\* signal, whichever docker commands fail and whatever a second kill does
\* (kill_container, run_kill_loop).
THEOREM SignalledIsDelivered == Spec => []ContainerIsSignalled
<1>1. Init => Delivered
  BY DEF Init, Delivered, NoKill
<1>2. Delivered => ContainerIsSignalled
  BY DEF Delivered, ContainerIsSignalled
<1> QED BY <1>1, <1>2, TypeInit, TypeStep, DeliveredStep, PTL DEF Spec
=============================================================================
