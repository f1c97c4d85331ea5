----------------------------- MODULE RuntimeKill -----------------------------
(***************************************************************************)
(* Ending a runtime and finding out that it has ended, at the level of     *)
(* process ids and containers: the kill loop (runtime_kill.rs), the admin  *)
(* kill by pid (server/termination.rs), the docker commands                *)
(* (docker_runtime.rs) and the sweep's evidence (host_lost_evidence and    *)
(* DockerCliLiveness in reconcile.rs).  One session; pids are reused, a    *)
(* process lingers until it is reaped, a container lives independently of  *)
(* the docker client that started it, and every system call or docker      *)
(* command is a step.  The row is written by the sweep here; the writes of *)
(* the other recorders, with their races, are in Rtmd and are single steps *)
(* of this module.                                                         *)
(***************************************************************************)
EXTENDS Naturals, Lifecycle

CONSTANTS
  Request,     \* kill requests
  Isolations,  \* the isolation policies the session may have
  Linux,       \* TRUE: an unreaped process has a start time; FALSE: macOS
  Faults,      \* what may happen: see KnownFaults
  MaxSteps     \* bound on steps of the wall clock

\* "reuse": the pid goes to another process; "clock": the wall clock, and with
\* it btime, is set; "probe": a start time cannot be read; "docker": a docker
\* command fails; "hangup": the docker client ends before its container.
ASSUME KnownFaults == Faults \subseteq {"reuse", "clock", "probe", "docker", "hangup"}

ASSUME KnownIsolations == Isolations \subseteq {"Host", "Docker"}

ASSUME MaxStepsNatural == MaxSteps \in Nat /\ Linux \in BOOLEAN

VARIABLES
  isolation,   \* Lifecycle::isolation
  row,         \* the session's row
  start_time,  \* Lifecycle::start_time, as the shim read it
  pid,         \* who has the runtime pid (for docker, the client's)
  container,   \* the session's container
  clock,       \* steps of the wall clock so far
  kill,        \* the kill requests
  sweep,       \* where the sweep is with this session
  hits         \* signals that reached the runtime

processes == <<pid, container>>

vars == <<isolation, row, start_time, processes, clock, kill, sweep, hits>>

\* HUP and INT are treated like TERM by all of the code.
RuntimeSignal == {"TERM", "KILL"}

KillOutcome == {"Signalled", "AlreadyExited"}

\* A kill request: where its loop is, what was asked, the outcome of the first
\* signal or the answer, and whether the grace period is over.
KillState == [pc : {"idle", "signal", "poll", "alive", "escalate", "kill", "answered"},
              by : {"session", "pid"}, signal : RuntimeSignal,
              outcome : KillOutcome \cup {"none", "Error"}, late : BOOLEAN]

NoKill == [pc |-> "idle", by |-> "session", signal |-> "TERM", outcome |-> "none",
           late |-> FALSE]

TypeOK ==
  /\ isolation \in Isolations
  /\ row \in Row
  /\ start_time \in Nat
  /\ pid \in {"unborn", "runtime", "unreaped", "free", "stranger"}
  /\ container \in {"none", "running", "stopped", "removed"}
  /\ clock \in Nat
  /\ kill \in [Request -> KillState]
  /\ \A r \in Request : kill[r].outcome = "none" <=> kill[r].pc \in {"idle", "signal"}
  /\ sweep \in {"idle", "probe", "compare", "lost"}
  /\ hits \in SUBSET RuntimeSignal

Init ==
  /\ isolation \in Isolations
  /\ row = forking
  /\ start_time = 0
  /\ pid = "unborn" /\ container = "none"
  /\ clock = 0
  /\ kill = [r \in Request |-> NoKill]
  /\ sweep = "idle"
  /\ hits = {}

-----------------------------------------------------------------------------
(* Processes, containers and time.                                         *)

\* What the operating system and docker say.
pid_alive == pid \in {"runtime", "unreaped", "stranger"}

\* Whether the runtime itself, in the container or on the host, runs.
RuntimeAlive ==
  IF isolation = "Host" THEN pid = "runtime" ELSE container = "running"

\* The time by the wall clock, a later one than any process shows.
utc_now == 2 * MaxSteps + 2

\* The shim starts the runtime and reads its start time, perhaps when it has
\* ended already: macOS shows nothing then, and the shim takes the time it is.
\* (A machine that shows no start times at all gives that time too, but then the
\* sweep has nothing to compare it with: every probe takes host_lost_evidence's
\* second disjunct.  After an error the shim ends, and ShimReady never comes.)
start_runtime ==
  /\ pid = "unborn"
  /\ \/ pid' = "runtime" /\ start_time' = clock
     \/ pid' = "unreaped" /\ start_time' = IF Linux THEN clock ELSE utc_now
  /\ UNCHANGED <<isolation, row, container, clock, kill, sweep, hits>>

\* The docker client creates the container, some time after it was started.
container_starts ==
  /\ isolation = "Docker"
  /\ pid = "runtime" /\ container = "none"
  /\ container' = "running"
  /\ UNCHANGED <<isolation, row, start_time, pid, clock, kill, sweep, hits>>

\* The runtime in the container ends; docker run --rm removes the container.
container_ends ==
  /\ \/ container = "running" /\ container' = "stopped"
     \/ container = "stopped" /\ container' = "removed"
  /\ UNCHANGED <<isolation, row, start_time, pid, clock, kill, sweep, hits>>

\* The process ends and is reaped, by the shim or by init; later its pid may
\* be another process's.  A docker client normally ends after its container.
process_ends ==
  /\ pid = "runtime"
  /\ container = "running" => "hangup" \in Faults
  /\ pid' = "unreaped"
  /\ UNCHANGED <<isolation, row, start_time, container, clock, kill, sweep, hits>>

pid_changes ==
  /\ \/ pid = "unreaped" /\ pid' = "free"
     \/ pid = "free" /\ "reuse" \in Faults /\ pid' = "stranger"
     \/ pid = "stranger" /\ pid' = "free"
  /\ UNCHANGED <<isolation, row, start_time, container, clock, kill, sweep, hits>>

\* On Linux alone do the start times that processes show move with the clock.
clock_steps ==
  /\ Linux /\ "clock" \in Faults
  /\ clock < MaxSteps
  /\ clock' = clock + 1
  /\ UNCHANGED <<isolation, row, start_time, processes, kill, sweep, hits>>

\* ShimReady has been recorded.
record_running ==
  /\ accepts_running(row)
  /\ pid # "unborn"
  /\ row' = mark_running(row)
  /\ UNCHANGED <<isolation, start_time, processes, clock, kill, sweep, hits>>

\* The shim's report or the exit watcher's, both about the process with the
\* runtime pid, has been recorded.
record_exited ==
  /\ accepts_exit(row)
  /\ pid \notin {"unborn", "runtime"}
  /\ row' = mark_exited(row)
  /\ UNCHANGED <<isolation, start_time, processes, clock, kill, sweep, hits>>

-----------------------------------------------------------------------------
(* Kill requests.                                                          *)

Answered(r, outcome) ==
  kill' = [kill EXCEPT ![r].pc = "answered", ![r].outcome = outcome]

Go(r, pc) == kill' = [kill EXCEPT ![r].pc = pc]

\* The first signal was sent, and the loop begins.
Signalled(r) == kill' = [kill EXCEPT ![r].pc = "poll", ![r].outcome = "Signalled"]

begin(r, by, signal) ==
  kill' = [kill EXCEPT ![r].pc = "signal", ![r].by = by, ![r].signal = signal]

\* The row is read; on the host it must have a pid.  Its state does not matter.
kill_runtime(r, signal) ==
  /\ kill[r].pc = "idle"
  /\ IF isolation = "Host" /\ ~row.pids
       THEN Answered(r, "Error")
       ELSE begin(r, "session", signal)
  /\ UNCHANGED <<isolation, row, start_time, processes, clock, sweep, hits>>

\* The admin names the pid of a host runtime.
kill_pid(r, signal) ==
  /\ kill[r].pc = "idle"
  /\ isolation = "Host" /\ pid # "unborn"
  /\ begin(r, "pid", signal)
  /\ UNCHANGED <<isolation, row, start_time, processes, clock, sweep, hits>>

\* kill(2) or docker kill with r's signal reached the runtime.
Hit(signal) == hits' = hits \cup {signal}

\* send_signal_for_kill: a process that is gone is an outcome, not an error;
\* another process with the pid takes the signal or belongs to another user.
send_signal(r) ==
  /\ kill[r].pc = "signal" /\ isolation = "Host"
  /\ \/ pid = "free" /\ Answered(r, "AlreadyExited") /\ UNCHANGED hits
     \/ pid \in {"runtime", "unreaped"} /\ Signalled(r) /\ Hit(kill[r].signal)
     \/ pid = "stranger" /\ (Signalled(r) \/ Answered(r, "Error")) /\ UNCHANGED hits
  /\ UNCHANGED <<isolation, row, start_time, processes, clock, sweep>>

\* Mutant of kill_container: every failure of docker kill passes for a signal.
kill_container_ok(r) ==
  /\ kill[r].pc = "signal" /\ isolation = "Docker"
  /\ Signalled(r)
  /\ hits' = IF container = "running" THEN hits \cup {kill[r].signal} ELSE hits
  /\ UNCHANGED <<isolation, row, start_time, processes, clock, sweep>>

\* docker kill: "No such container" is the outcome AlreadyExited, a container
\* that has stopped but is not removed yet an error.
kill_container(r) ==
  /\ kill[r].pc = "signal" /\ isolation = "Docker"
  /\ \/ container \in {"none", "removed"} /\ Answered(r, "AlreadyExited") /\ UNCHANGED hits
     \/ container = "running" /\ Signalled(r) /\ Hit(kill[r].signal)
     \/ container = "stopped" /\ Answered(r, "Error") /\ UNCHANGED hits
  /\ UNCHANGED <<isolation, row, start_time, processes, clock, sweep>>

\* The grace period is over.
deadline_passes(r) ==
  /\ kill[r].pc \in {"poll", "alive"} /\ ~kill[r].late
  /\ kill' = [kill EXCEPT ![r].late = TRUE]
  /\ UNCHANGED <<isolation, row, start_time, processes, clock, sweep, hits>>

\* Mutant of poll: the loop has no deadline.
poll_forever(r) ==
  /\ kill[r].pc = "poll"
  /\ IF kill[r].by = "session" /\ row.state \in Terminal
       THEN Answered(r, kill[r].outcome) ELSE Go(r, "alive")
  /\ UNCHANGED <<isolation, row, start_time, processes, clock, sweep, hits>>

\* Head of the loop, and is_terminal for a session.
poll(r) ==
  /\ kill[r].pc = "poll"
  /\ \/ kill[r].late /\ Go(r, "escalate")
     \/ /\ ~kill[r].late
        /\ IF kill[r].by = "session" /\ row.state \in Terminal
             THEN Answered(r, kill[r].outcome) ELSE Go(r, "alive")
  /\ UNCHANGED <<isolation, row, start_time, processes, clock, sweep, hits>>

\* is_alive: pid_alive, or docker inspect, whose failure reads as not running.
is_alive(answer) ==
  \/ isolation = "Host" /\ answer = pid_alive
  \/ isolation = "Docker" /\ answer = (container = "running")
  \/ isolation = "Docker" /\ "docker" \in Faults /\ answer = FALSE

\* Rest of the loop's body.
still_alive(r) ==
  /\ kill[r].pc = "alive"
  /\ \/ is_alive(TRUE) /\ Go(r, "poll")
     \/ is_alive(FALSE) /\ Answered(r, kill[r].outcome)
  /\ UNCHANGED <<isolation, row, start_time, processes, clock, sweep, hits>>

\* Mutant of escalate: TERM is not escalated.
escalate_kill_only(r) ==
  /\ kill[r].pc = "escalate"
  /\ \/ is_alive(TRUE) /\ kill[r].signal = "KILL" /\ Go(r, "kill")
     \/ is_alive(FALSE) /\ Answered(r, kill[r].outcome)
     \/ is_alive(TRUE) /\ kill[r].signal # "KILL" /\ Answered(r, kill[r].outcome)
  /\ UNCHANGED <<isolation, row, start_time, processes, clock, sweep, hits>>

\* After the grace period: is_alive decides whether KILL is sent.
escalate(r) ==
  /\ kill[r].pc = "escalate"
  /\ \/ is_alive(TRUE) /\ kill[r].signal # "KILL" /\ Go(r, "kill")
     \/ is_alive(FALSE) /\ Answered(r, kill[r].outcome)
     \/ is_alive(TRUE) /\ kill[r].signal = "KILL" /\ Answered(r, kill[r].outcome)
  /\ UNCHANGED <<isolation, row, start_time, processes, clock, sweep, hits>>

\* send_kill: on the host a process that is gone is now an error; docker's
\* "No such container" is not, its "is not running" is.
send_kill(r) ==
  /\ kill[r].pc = "kill"
  /\ \/ /\ IF isolation = "Host" THEN pid = "free" ELSE container = "stopped"
        /\ Answered(r, "Error") /\ UNCHANGED hits
     \/ /\ IF isolation = "Host" THEN pid \in {"runtime", "unreaped"}
                                 ELSE container = "running"
        /\ Answered(r, kill[r].outcome) /\ Hit("KILL")
     \/ /\ isolation = "Docker" /\ container \in {"none", "removed"}
        /\ Answered(r, kill[r].outcome) /\ UNCHANGED hits
     \/ /\ isolation = "Host" /\ pid = "stranger"
        /\ Answered(r, kill[r].outcome) \/ Answered(r, "Error")
        /\ UNCHANGED hits
  /\ UNCHANGED <<isolation, row, start_time, processes, clock, sweep>>

\* A docker command that cannot be run ends the request with an error.
docker_unavailable(r) ==
  /\ isolation = "Docker" /\ "docker" \in Faults
  /\ kill[r].pc \in {"signal", "alive", "escalate", "kill"}
  /\ Answered(r, "Error")
  /\ UNCHANGED <<isolation, row, start_time, processes, clock, sweep, hits>>

-----------------------------------------------------------------------------
(* The sweep's evidence about this session.                                *)

sweep_begin ==
  /\ sweep = "idle"
  /\ row.state = "Running"
  /\ sweep' = "probe"
  /\ UNCHANGED <<isolation, row, start_time, processes, clock, kill, hits>>

\* lost_evidence, first probe: a live pid is not enough, a running container is.
lost_evidence ==
  /\ sweep = "probe"
  /\ \/ is_alive(FALSE) /\ sweep' = "lost"
     \/ is_alive(TRUE) /\ sweep' = IF isolation = "Host" THEN "compare" ELSE "idle"
     \/ isolation = "Docker" /\ "docker" \in Faults /\ sweep' = "idle"
  /\ UNCHANGED <<isolation, row, start_time, processes, clock, kill, hits>>

\* start_time_from_ticks of the process that has the pid: btime plus ticks; a
\* process that reuses the pid was started later than any step of the clock.
start_time_from_ticks == IF pid = "stranger" THEN clock + MaxSteps + 1 ELSE clock

\* start_time_probe_for_pid finds nothing.
gone == pid = "free" \/ (pid = "unreaped" /\ ~Linux)

\* Mutants of host_lost_evidence: a probe that fails is evidence; the start
\* time is not compared.
unreadable_is_lost ==
  /\ sweep = "compare"
  /\ \/ sweep' = IF gone \/ start_time_from_ticks # start_time THEN "lost" ELSE "idle"
     \/ "probe" \in Faults /\ sweep' = "lost"
  /\ UNCHANGED <<isolation, row, start_time, processes, clock, kill, hits>>

alive_is_enough ==
  /\ sweep = "compare"
  /\ sweep' = IF gone THEN "lost" ELSE "idle"
  /\ UNCHANGED <<isolation, row, start_time, processes, clock, kill, hits>>

\* Rest of host_lost_evidence: an unreadable start time (Unsupported or an
\* error) counts only against a pid that is not alive any more.
host_lost_evidence ==
  /\ sweep = "compare"
  /\ \/ sweep' = IF gone \/ start_time_from_ticks # start_time THEN "lost" ELSE "idle"
     \/ "probe" \in Faults /\ sweep' = IF pid_alive THEN "idle" ELSE "lost"
  /\ UNCHANGED <<isolation, row, start_time, processes, clock, kill, hits>>

record_lost ==
  /\ sweep = "lost"
  /\ sweep' = "idle"
  /\ row' = IF accepts_lost(row) THEN mark_lost(row) ELSE row
  /\ UNCHANGED <<isolation, start_time, processes, clock, kill, hits>>

-----------------------------------------------------------------------------
Killing(r) ==
  \/ \E signal \in RuntimeSignal : kill_runtime(r, signal) \/ kill_pid(r, signal)
  \/ send_signal(r) \/ kill_container(r) \/ deadline_passes(r) \/ poll(r)
  \/ still_alive(r) \/ escalate(r) \/ send_kill(r) \/ docker_unavailable(r)

Sweeping == sweep_begin \/ lost_evidence \/ host_lost_evidence \/ record_lost

Environment ==
  \/ start_runtime \/ container_starts \/ container_ends \/ process_ends
  \/ pid_changes \/ clock_steps \/ record_running \/ record_exited

Next == Sweeping \/ Environment \/ \E r \in Request : Killing(r)

Spec == Init /\ [][Next]_vars

\* The executor runs the kill loops and the sweep, the grace period ends, and
\* the kernel lets a runtime that was sent KILL die and somebody reap it.
KilledDies == "KILL" \in hits /\ (process_ends \/ (container = "running" /\ container_ends))

FairSpec ==
  /\ Spec
  /\ \A r \in Request :
       /\ WF_vars(deadline_passes(r))
       /\ WF_vars(send_signal(r) \/ kill_container(r) \/ poll(r) \/ still_alive(r)
                  \/ escalate(r) \/ send_kill(r))
  /\ WF_vars(Sweeping)
  /\ WF_vars(KilledDies)

-----------------------------------------------------------------------------
(* Properties.                                                             *)

\* A host session whose start time still says which process is the runtime: the
\* wall clock has not been set.
Steady == isolation = "Host" /\ clock = 0

\* A kill of a host runtime that was answered with Signalled has ended it or has
\* sent it KILL: neither a poll that returns early, nor a recorded end, nor the
\* reuse of the pid lets a live runtime get away with a TERM (run_kill_loop).
KillIsForced ==
  \A r \in Request :
    /\ Steady /\ RuntimeAlive
    /\ kill[r].pc = "answered" /\ kill[r].outcome = "Signalled"
    => "KILL" \in hits

\* MAP.md: host_lost_evidence "distinguishes alive, exited, pid reused": the
\* sweep calls a host session lost only if its runtime does not run.
LostIsTrue == isolation = "Host" /\ row.state = "Lost" => ~RuntimeAlive

\* The same until the clock is set: although the sweep asks for the pid and its
\* start time in separate steps, either may fail, and the pid changes hands.
SteadyLostIsTrue == Steady => LostIsTrue

\* proto.rs: "`Signalled` means rtmd delivered the requested signal to the
\* runtime process", which kill_container may say of a container only if docker
\* kill succeeded.
ContainerIsSignalled ==
  \A r \in Request :
    /\ isolation = "Docker"
    /\ kill[r].pc = "answered" /\ kill[r].outcome = "Signalled"
    => kill[r].signal \in hits

\* Every kill request is answered: the loop ends with the grace period.
KillIsAnswered ==
  \A r \in Request : (kill[r].pc # "idle") ~> (kill[r].pc = "answered")

\* A host runtime that was killed ends, whether or not it heeds TERM: the
\* answer Signalled is a promise.
SignalledEnds ==
  \A r \in Request :
    (kill[r].pc = "answered" /\ kill[r].outcome = "Signalled") ~> ~RuntimeAlive

\* A Running row whose pid is free, or has become another process's, does not
\* stay Running: the sweep compares start times.
DeadPidIsFound ==
  (row.state = "Running" /\ pid \in {"free", "stranger"}) ~> (row.state \in Terminal)
=============================================================================
