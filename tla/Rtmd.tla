-------------------------------- MODULE Rtmd --------------------------------
(***************************************************************************)
(* The daemon's lifecycle core: spawn requests, the shims' three calls,    *)
(* process-exit watchers, the reconciliation sweep, daemon crashes and     *)
(* restarts.  Every asynchronous activity of the daemon is a task; a task  *)
(* takes one step per await of the code at which another task can change   *)
(* what it has read, so the interleavings are those of a multi-threaded    *)
(* executor.  Session rows and the event log survive a crash, everything   *)
(* else the daemon holds does not.                                         *)
(***************************************************************************)
EXTENDS Naturals, Sequences, Lifecycle

CONSTANTS
  Session,      \* session ids
  Spawner,      \* spawn requests, each one handled once
  Watcher,      \* process-exit watcher tasks that can exist at a time
  Sweep,        \* the reconciliation task
  Nobody,       \* an empty slot of a map
  MaxAttempts,  \* SHIM_RECONNECT_MAX_ATTEMPTS
  MaxCrashes,   \* bound on daemon crashes
  Kqueue,       \* TRUE: watching a dead pid is an error (macOS); FALSE: Linux
  Faults        \* what may fail with an I/O error: see KnownFaults

ASSUME ConstantsDisjoint ==
  /\ Session \cap Spawner = {} /\ Session \cap Watcher = {}
  /\ Spawner \cap Watcher = {}
  /\ Sweep \notin Session \cup Spawner \cup Watcher
  /\ Nobody \notin Session \cup Spawner \cup Watcher
  /\ Nobody # Sweep

ASSUME BoundsAreNaturals ==
  MaxAttempts \in Nat \ {0} /\ MaxCrashes \in Nat /\ Kqueue \in BOOLEAN

\* The write of a row, the write and the sync of an event, and the wait of an
\* exit watcher's thread.
ASSUME KnownFaults == Faults \subseteq {"update", "append", "sync", "poll"}

\* A shim has one connection at a time, so the handler of a shim's call is
\* named by the session.
Task == Session \cup Spawner \cup Watcher \cup {Sweep}

VARIABLES
  daemon,     \* "down", "starting" (bound, not accepting) or "up"
  crashes,    \* daemon processes that ended; numbers the incarnations
  row,        \* sessions table of the SQLite store
  log,        \* the event log, as the sequence of its events
  launches,   \* SpawnCoordinator::pending_launches
  sender,     \* SpawnCoordinator::pending_ready: whose receiver it is
  reported,   \* TerminationCoordinator::terminated_events
  watcher,    \* WatcherCoordinator::exit_watchers
  task,       \* the daemon's tasks
  todo,       \* rows the current sweep has still to visit
  shim,       \* the shim processes
  proc        \* the runtime processes

memory == <<launches, sender, reported, watcher>>

vars == <<daemon, crashes, row, log, memory, task, todo, shim, proc>>

TaskPc == {"idle",
  "checked", "launching", "waiting", "timed_out", "received", "spawned", "failed",
  "update", "watch", "rewatch", "finish", "append", "reply",
  "armed", "fired", "process_exit", "shim_died",
  "probe", "aborted"}

\* What a task is doing, for which session, and its local copy of the row.
TaskState == [pc : TaskPc, session : Session \cup {Nobody}, lifecycle : Row]

Idle == [pc |-> "idle", session |-> Nobody, lifecycle |-> NoRow]

\* A shim asks for its launch, reports ready, waits for the runtime, reports
\* the exit, and then ends or becomes the pane's shell ("resumed").
Calling == {"launch", "ready", "exit"}

ShimPc == Calling \cup {"none", "wait", "resumed", "dead"}

ShimState == [pc : ShimPc, attempts : 0 .. MaxAttempts]

Event == [session : Session, kind : {"Running", "Terminated", "Lost"},
          incarnation : Nat]

TypeOK ==
  /\ daemon \in {"down", "starting", "up"}
  /\ crashes \in Nat
  /\ row \in [Session -> Row]
  /\ log \in Seq(Event)
  /\ launches \in SUBSET Session
  /\ sender \in [Session -> Spawner \cup {Nobody}]
  /\ reported \in SUBSET Session
  /\ watcher \in [Session -> Watcher \cup {Nobody}]
  /\ task \in [Task -> TaskState]
  /\ todo \in SUBSET Session
  /\ shim \in [Session -> ShimState]
  /\ proc \in [Session -> {"none", "alive", "dead"}]

Init ==
  /\ daemon = "down"
  /\ crashes = 0
  /\ row = [s \in Session |-> NoRow]
  /\ log = <<>>
  /\ launches = {}
  /\ sender = [s \in Session |-> Nobody]
  /\ reported = {}
  /\ watcher = [s \in Session |-> Nobody]
  /\ task = [t \in Task |-> Idle]
  /\ todo = {}
  /\ shim = [s \in Session |-> [pc |-> "none", attempts |-> 0]]
  /\ proc = [s \in Session |-> "none"]

-----------------------------------------------------------------------------
(* How a task ends and how its caller sees the answer.                     *)

\* pid_alive(shim_pid): the shim, or the shell it became, is a process.
shim_alive(s) == shim[s].pc \notin {"none", "dead"}

\* reconnecting(): an answer ends the call, an error or a lost connection
\* is retried until the attempts are used up, and then the shim exits.
call_ok(c) ==
  [pc |-> CASE c.pc = "launch" -> "ready"
            [] c.pc = "ready"  -> "wait"
            [] OTHER           -> "resumed",
   attempts |-> 0]

\* Mutant of call_failed: the attempts are not limited.
call_failed_forever(c) == [c EXCEPT !.attempts = @ + 1]

call_failed(c) ==
  IF c.attempts + 1 >= MaxAttempts
    THEN [pc |-> "dead", attempts |-> 0]
    ELSE [c EXCEPT !.attempts = @ + 1]

\* The daemon's reply reaches a shim that is still there to read it.
answered(c, ok) ==
  IF c.pc \notin Calling THEN c ELSE IF ok THEN call_ok(c) ELSE call_failed(c)

\* A task returns: a spawn handler answers its client, a sweep goes on with
\* its next row or gives up, the other tasks are gone.
returned(t, ok) ==
  IF t \in Spawner
    THEN [task[t] EXCEPT !.pc = IF ok THEN "spawned" ELSE "failed",
                         !.lifecycle = NoRow]
    ELSE IF t = Sweep THEN [Idle EXCEPT !.pc = IF ok THEN "probe" ELSE "aborted"]
                      ELSE Idle

\* The shims after t has answered its call, if it serves one.
reply(t, ok) ==
  IF t \in Session THEN [shim EXCEPT ![t] = answered(@, ok)] ELSE shim

Return(t, ok) ==
  /\ task' = [task EXCEPT ![t] = returned(t, ok)]
  /\ shim' = reply(t, ok)

\* A task goes on to pc with l as its copy of the session's row.
Continue(t, s, pc, l) ==
  task' = [task EXCEPT ![t] = [pc |-> pc, session |-> s, lifecycle |-> l]]

-----------------------------------------------------------------------------
(* Spawn handler: handler.rs, Spawn arm, and SpawnCoordinator.             *)

\* spawn_preflight::check and the first read of begin_spawn; the other
\* reasons to refuse a request leave nothing behind either.
check_session(h, s) ==
  /\ daemon = "up"
  /\ task[h].pc = "idle"
  /\ \/ row[s].state = "None" /\ Continue(h, s, "checked", NoRow)
     \/ Continue(h, s, "failed", NoRow)
  /\ UNCHANGED <<daemon, crashes, row, log, memory, todo, shim, proc>>

\* Rest of begin_spawn: insert_forking fails on an existing primary key and
\* then the handler just returns; begin_ready_wait refuses an occupied slot
\* and cancels the spawn.
insert_forking(h) ==
  LET s == task[h].session
      taken == row[s].state # "None"
      clash == sender[s] # Nobody
  IN /\ task[h].pc = "checked"
     /\ row' = IF taken \/ clash THEN row ELSE [row EXCEPT ![s] = forking]
     /\ launches' = IF taken THEN launches
                    ELSE IF clash THEN launches \ {s} ELSE launches \cup {s}
     /\ sender' = IF taken THEN sender
                  ELSE [sender EXCEPT ![s] = IF clash THEN Nobody ELSE h]
     /\ task' = [task EXCEPT ![h].pc =
                   IF taken \/ clash THEN "failed" ELSE "launching"]
     /\ UNCHANGED <<daemon, crashes, log, reported, watcher, todo, shim, proc>>

\* backends.spawn starts the shim process, and the handler waits for it.
launch_shim(h) ==
  LET s == task[h].session
  IN /\ task[h].pc = "launching"
     /\ shim' = [shim EXCEPT ![s].pc = "launch"]
     /\ task' = [task EXCEPT ![h].pc = "waiting"]
     /\ UNCHANGED <<daemon, crashes, row, log, memory, todo, proc>>

\* Mutant of cancel_spawn: pending_ready keeps the sender.
cancel_keeps_sender(h) ==
  /\ task[h].pc = "launching"
  /\ launches' = launches \ {task[h].session}
  /\ row' = [row EXCEPT ![task[h].session] = NoRow]
  /\ task' = [task EXCEPT ![h].pc = "failed"]
  /\ UNCHANGED <<daemon, crashes, log, sender, reported, watcher, todo, shim, proc>>

\* backends.spawn fails: no shim was started; cancel_spawn undoes begin_spawn.
cancel_spawn(h) ==
  LET s == task[h].session
  IN /\ task[h].pc = "launching"
     /\ launches' = launches \ {s}
     /\ sender' = [sender EXCEPT ![s] = Nobody]
     /\ row' = [row EXCEPT ![s] = NoRow]
     /\ task' = [task EXCEPT ![h].pc = "failed"]
     /\ UNCHANGED <<daemon, crashes, log, reported, watcher, todo, shim, proc>>

\* Mutant of ready_timeout: it covers the wait for ShimLaunch only.
timeout_until_launch(h) ==
  /\ task[h].pc = "waiting"
  /\ task[h].session \in launches
  /\ task' = [task EXCEPT ![h].pc = "timed_out"]
  /\ UNCHANGED <<daemon, crashes, row, log, memory, todo, shim, proc>>

\* The ten seconds are over.  Until the handler has returned the receiver
\* still exists, so that a ShimReady can be sent into it and be lost.
ready_timeout(h) ==
  /\ task[h].pc = "waiting"
  /\ task' = [task EXCEPT ![h].pc = "timed_out"]
  /\ UNCHANGED <<daemon, crashes, row, log, memory, todo, shim, proc>>

\* Mutant of drop_receiver: a timeout cancels the spawn.
timeout_cancels(h) ==
  /\ task[h].pc = "timed_out"
  /\ task' = [task EXCEPT ![h] = returned(h, FALSE)]
  /\ launches' = launches \ {task[h].session}
  /\ sender' = [sender EXCEPT ![task[h].session] = Nobody]
  /\ row' = [row EXCEPT ![task[h].session] = NoRow]
  /\ UNCHANGED <<daemon, crashes, log, reported, watcher, todo, shim, proc>>

\* The handler returns the timeout error; row and pending maps stay.
drop_receiver(h) ==
  /\ task[h].pc = "timed_out"
  /\ task' = [task EXCEPT ![h] = returned(h, FALSE)]
  /\ UNCHANGED <<daemon, crashes, row, log, memory, todo, shim, proc>>

\* First half of record_running: read the row and mark the copy.
record_running(h) ==
  LET s == task[h].session
  IN /\ task[h].pc = "received"
     /\ IF accepts_running(row[s])
          THEN Continue(h, s, "update", mark_running(row[s])) /\ UNCHANGED shim
          ELSE Return(h, FALSE)
     /\ UNCHANGED <<daemon, crashes, row, log, memory, todo, proc>>

-----------------------------------------------------------------------------
(* Steps that the recording functions share.                               *)

\* update_lifecycle writes the task's whole copy over the row, whatever the
\* row is by now; without a row it fails.
update_lifecycle(t) ==
  LET s == task[t].session
      l == task[t].lifecycle
  IN /\ task[t].pc = "update"
     /\ IF row[s].state = "None"
          THEN Return(t, FALSE) /\ UNCHANGED row
          ELSE /\ row' = [row EXCEPT ![s] = l]
               /\ task' = [task EXCEPT ![t].pc =
                             IF l.state = "Running" THEN "watch" ELSE "finish"]
               /\ UNCHANGED shim
     /\ UNCHANGED <<daemon, crashes, log, memory, todo, proc>>

\* A new watcher task w for s is entered in the map, and t goes on.
arm(w, s, t, next) ==
  /\ task[w].pc = "idle"
  /\ watcher' = [watcher EXCEPT ![s] = w]
  /\ task' = [task EXCEPT
       ![w] = [pc |-> "armed", session |-> s, lifecycle |-> NoRow], ![t] = next]

\* start_exit_watcher: one watcher per session; then record_running goes on
\* to its event, the reconnected and the reconciled session are done.
start_exit_watcher(t) ==
  LET s == task[t].session
      fresh == task[t].pc = "watch"
      next == IF fresh THEN [task[t] EXCEPT !.pc = "append"] ELSE returned(t, TRUE)
  IN /\ task[t].pc \in {"watch", "rewatch"}
     /\ \/ /\ watcher[s] # Nobody
           /\ task' = [task EXCEPT ![t] = next]
           /\ shim' = IF fresh THEN shim ELSE reply(t, TRUE)
           /\ UNCHANGED watcher
        \/ /\ watcher[s] = Nobody
           /\ ~(Kqueue /\ proc[s] = "dead")
           /\ \E w \in Watcher : arm(w, s, t, next)
           /\ shim' = IF fresh THEN shim ELSE reply(t, TRUE)
        \/ /\ watcher[s] = Nobody
           /\ Kqueue /\ proc[s] = "dead"
           /\ Return(t, FALSE)
           /\ UNCHANGED watcher
     /\ UNCHANGED <<daemon, crashes, row, log, launches, sender, reported,
                    todo, proc>>

\* Mutants of finish_terminal: the answer of the insertion into
\* terminated_events is ignored; the removed watcher is the claim.
finish_unclaimed(t) ==
  /\ task[t].pc = "finish"
  /\ watcher' = [watcher EXCEPT ![task[t].session] = Nobody]
  /\ reported' = reported \cup {task[t].session}
  /\ task' = [task EXCEPT ![t].pc = "append"]
  /\ UNCHANGED <<daemon, crashes, row, log, launches, sender, todo, shim, proc>>

finish_by_watcher(t) ==
  LET s == task[t].session
  IN /\ task[t].pc = "finish"
     /\ watcher' = [watcher EXCEPT ![s] = Nobody]
     /\ reported' = reported \cup {s}
     /\ IF watcher[s] = Nobody
          THEN Return(t, TRUE)
          ELSE task' = [task EXCEPT ![t].pc = "append"] /\ UNCHANGED shim
     /\ UNCHANGED <<daemon, crashes, row, log, launches, sender, todo, proc>>

\* finish_terminal up to its append: drop the watcher, and let only the
\* first finisher of this daemon process report the session.
finish_terminal(t) ==
  LET s == task[t].session
  IN /\ task[t].pc = "finish"
     /\ watcher' = [watcher EXCEPT ![s] = Nobody]
     /\ reported' = reported \cup {s}
     /\ IF s \in reported
          THEN Return(t, TRUE)
          ELSE task' = [task EXCEPT ![t].pc = "append"] /\ UNCHANGED shim
     /\ UNCHANGED <<daemon, crashes, row, log, launches, sender, todo, proc>>

\* append_event, the last step of every recording function.
append_event(t) ==
  /\ task[t].pc = "append"
  /\ log' = Append(log, [session |-> task[t].session,
                         kind |-> event_kind(task[t].lifecycle),
                         incarnation |-> crashes])
  /\ task' = [task EXCEPT ![t].pc = "reply"]
  /\ UNCHANGED <<daemon, crashes, row, memory, todo, shim, proc>>

\* The response is written only now: a crash before it makes the shim repeat
\* a call whose transition has been recorded and logged.
respond(t) ==
  /\ task[t].pc = "reply"
  /\ Return(t, TRUE)
  /\ UNCHANGED <<daemon, crashes, row, log, memory, todo, proc>>

\* An I/O error in the write of the row or of the event, or in the sync of the
\* event log, when readers can see the event already: the recording function
\* returns it, and what it did before stays, its claim in terminated_events
\* included.  (At startup that ends the process, as in sweep_probe.)
recording_failed(t) ==
  /\ \/ task[t].pc = "update" /\ "update" \in Faults
     \/ task[t].pc = "append" /\ "append" \in Faults
     \/ task[t].pc = "reply" /\ "sync" \in Faults
  /\ t = Sweep /\ daemon = "starting" => crashes < MaxCrashes
  /\ Return(t, FALSE)
  /\ UNCHANGED <<daemon, crashes, row, log, memory, todo, proc>>

\* record_exited and record_lost up to the write: t reads the row of s and,
\* unless it is terminal already, marks its copy.
record_exited(t, s) ==
  IF accepts_exit(row[s])
    THEN Continue(t, s, "update", mark_exited(row[s])) /\ UNCHANGED shim
    ELSE Return(t, row[s].state # "None")

record_lost(t, s) ==
  IF accepts_lost(row[s])
    THEN Continue(t, s, "update", mark_lost(row[s])) /\ UNCHANGED shim
    ELSE Return(t, row[s].state # "None")

-----------------------------------------------------------------------------
(* Shim: run_for_session_blocking and the handlers of its calls.           *)

\* ShimLaunch: the spec is handed out once; with it the shim starts the
\* runtime, or fails to and exits.
take_launch_spec(s) ==
  /\ daemon = "up"
  /\ shim[s].pc = "launch"
  /\ launches' = launches \ {s}
  /\ \/ /\ s \in launches
        /\ shim' = [shim EXCEPT ![s] = call_ok(@)]
        /\ proc' = [proc EXCEPT ![s] = "alive"]
     \/ /\ s \in launches
        /\ shim' = [shim EXCEPT ![s].pc = "dead"]
        /\ UNCHANGED proc
     \/ /\ s \notin launches
        /\ shim' = [shim EXCEPT ![s] = call_failed(@)]
        /\ UNCHANGED proc
  /\ UNCHANGED <<daemon, crashes, row, log, sender, reported, watcher, task, todo>>

\* ShimReady while a spawn handler is registered: the handler is given the
\* record if it still waits; if it is just timing out the record is lost;
\* once its receiver is gone the shim gets an error.
send_ready(s) ==
  LET h == sender[s]
      open == task[h].pc \in {"waiting", "timed_out"}
  IN /\ daemon = "up"
     /\ shim[s].pc = "ready" /\ task[s].pc = "idle"
     /\ h # Nobody
     /\ sender' = [sender EXCEPT ![s] = Nobody]
     /\ task' = [task EXCEPT ![h].pc = IF @ = "waiting" THEN "received" ELSE @]
     /\ shim' = reply(s, open)
     /\ UNCHANGED <<daemon, crashes, row, log, launches, reported, watcher,
                    todo, proc>>

\* Mutant of record_reconnected_ready: a Running row is recorded again.
reconnected_again(s) ==
  /\ daemon = "up"
  /\ shim[s].pc = "ready" /\ task[s].pc = "idle"
  /\ sender[s] = Nobody
  /\ IF row[s].state \in {"Forking", "Running"}
       THEN Continue(s, s, "update", mark_running(row[s])) /\ UNCHANGED shim
       ELSE Return(s, FALSE)
  /\ UNCHANGED <<daemon, crashes, row, log, memory, todo, proc>>

\* ShimReady without a registered handler, up to the first write.
record_reconnected_ready(s) ==
  /\ daemon = "up"
  /\ shim[s].pc = "ready" /\ task[s].pc = "idle"
  /\ sender[s] = Nobody
  /\ \/ /\ row[s].state = "Forking"
        /\ Continue(s, s, "update", mark_running(row[s]))
        /\ UNCHANGED shim
     \/ /\ row[s].state = "Running"
        /\ Continue(s, s, "rewatch", NoRow)
        /\ UNCHANGED shim
     \/ /\ row[s].state \notin {"Forking", "Running"}
        /\ Return(s, FALSE)
  /\ UNCHANGED <<daemon, crashes, row, log, memory, todo, proc>>

\* wait_for_runtime returns.
wait_for_runtime(s) ==
  /\ shim[s].pc = "wait"
  /\ proc[s] = "dead"
  /\ shim' = [shim EXCEPT ![s].pc = "exit"]
  /\ UNCHANGED <<daemon, crashes, row, log, memory, task, todo, proc>>

\* ShimExit.
record_shim_exit(s) ==
  /\ daemon = "up"
  /\ shim[s].pc = "exit" /\ task[s].pc = "idle"
  /\ record_exited(s, s)
  /\ UNCHANGED <<daemon, crashes, row, log, memory, todo, proc>>

\* No daemon listens: the connection attempt fails.
connect_failed(s) ==
  /\ daemon = "down"
  /\ shim[s].pc \in Calling
  /\ shim' = [shim EXCEPT ![s] = call_failed(@)]
  /\ UNCHANGED <<daemon, crashes, row, log, memory, task, todo, proc>>

\* The shim has reported the exit; it, or the shell it became, ends.
shim_end(s) ==
  /\ shim[s].pc = "resumed"
  /\ shim' = [shim EXCEPT ![s].pc = "dead"]
  /\ UNCHANGED <<daemon, crashes, row, log, memory, task, todo, proc>>

\* Environment: a shim is killed (the runtime is not its process group), a
\* runtime ends by itself or by a signal.
shim_killed(s) ==
  /\ shim[s].pc \in Calling \cup {"wait"}
  /\ shim' = [shim EXCEPT ![s] = [pc |-> "dead", attempts |-> 0]]
  /\ UNCHANGED <<daemon, crashes, row, log, memory, task, todo, proc>>

runtime_exits(s) ==
  /\ proc[s] = "alive"
  /\ proc' = [proc EXCEPT ![s] = "dead"]
  /\ UNCHANGED <<daemon, crashes, row, log, memory, task, todo, shim>>

-----------------------------------------------------------------------------
(* Process-exit watcher: server/watcher.rs.                                *)

\* The watched process is gone: the thread sends, the task sleeps 300 ms.
watcher_fires(w) ==
  /\ task[w].pc = "armed"
  /\ proc[task[w].session] = "dead"
  /\ task' = [task EXCEPT ![w].pc = "fired"]
  /\ UNCHANGED <<daemon, crashes, row, log, memory, todo, shim, proc>>

\* remove_watcher dropped the entry: the thread sees its cancel flag.
watcher_cancelled(w) ==
  /\ task[w].pc = "armed"
  /\ watcher[task[w].session] # w
  /\ task' = [task EXCEPT ![w] = Idle]
  /\ UNCHANGED <<daemon, crashes, row, log, memory, todo, shim, proc>>

\* poll or kevent fails: the thread ends without a message, and so does the
\* task that waits for one; the map keeps the entry.
watcher_lost(w) ==
  /\ "poll" \in Faults
  /\ task[w].pc = "armed"
  /\ task' = [task EXCEPT ![w] = Idle]
  /\ UNCHANGED <<daemon, crashes, row, log, memory, todo, shim, proc>>

\* record_watcher_exit: is_terminal, then watcher_evidence.
watcher_evidence(w) ==
  LET s == task[w].session
  IN /\ task[w].pc = "fired"
     /\ task' = [task EXCEPT ![w] =
          IF row[s].state \in Terminal \/ ~row[s].pids THEN Idle
          ELSE [@ EXCEPT !.pc = IF shim_alive(s) THEN "process_exit"
                                                 ELSE "shim_died"]]
     /\ UNCHANGED <<daemon, crashes, row, log, memory, todo, shim, proc>>

\* record_watcher_exit records what the evidence says.
record_watcher_exit(w) ==
  LET s == task[w].session
  IN /\ \/ task[w].pc = "process_exit" /\ record_exited(w, s)
        \/ task[w].pc = "shim_died" /\ record_lost(w, s)
     /\ UNCHANGED <<daemon, crashes, row, log, memory, todo, proc>>

-----------------------------------------------------------------------------
(* Reconciliation: reconcile.rs, at startup and periodically.              *)

\* Mutant of sweep_begin: rows with an exit watcher are left to it.
sweep_unwatched ==
  /\ daemon # "down"
  /\ task[Sweep].pc = "idle"
  /\ todo' = {s \in Session : row[s].state = "Running" /\ watcher[s] = Nobody}
  /\ Continue(Sweep, Nobody, "probe", NoRow)
  /\ UNCHANGED <<daemon, crashes, row, log, memory, shim, proc>>

\* reconcile_once lists the rows that are Running.
sweep_begin ==
  /\ daemon # "down"
  /\ task[Sweep].pc = "idle"
  /\ todo' = {s \in Session : row[s].state = "Running"}
  /\ Continue(Sweep, Nobody, "probe", NoRow)
  /\ UNCHANGED <<daemon, crashes, row, log, memory, shim, proc>>

\* Mutants of sweep_probe: the pid probed is the shim's; a live runtime does
\* not get a watcher.
probe_shim(s) ==
  /\ task[Sweep].pc = "probe"
  /\ s \in todo
  /\ todo' = todo \ {s}
  /\ IF shim_alive(s)
       THEN Continue(Sweep, s, "rewatch", NoRow) /\ UNCHANGED shim
       ELSE record_lost(Sweep, s)
  /\ UNCHANGED <<daemon, crashes, row, log, memory, proc>>

probe_without_watch(s) ==
  /\ task[Sweep].pc = "probe"
  /\ s \in todo
  /\ todo' = todo \ {s}
  /\ IF proc[s] = "alive" THEN Return(Sweep, TRUE) ELSE record_lost(Sweep, s)
  /\ UNCHANGED <<daemon, crashes, row, log, memory, proc>>

\* One row of the list: a dead runtime is recorded as lost, a live one gets
\* a watcher; a failing probe of a live one (a host probe that fails asks again
\* whether the pid is alive) gives the sweep up, and the rows behind it with it.
\* At startup that ends the process, so it counts against the bound on crashes.
sweep_probe(s) ==
  /\ task[Sweep].pc = "probe"
  /\ s \in todo
  /\ todo' = todo \ {s}
  /\ \/ proc[s] # "alive" /\ record_lost(Sweep, s)
     \/ proc[s] = "alive" /\ Continue(Sweep, s, "rewatch", NoRow) /\ UNCHANGED shim
     \/ /\ proc[s] = "alive"
        /\ daemon = "starting" => crashes < MaxCrashes
        /\ Return(Sweep, FALSE)
  /\ UNCHANGED <<daemon, crashes, row, log, memory, proc>>

\* The list is done; after the startup sweep the daemon accepts connections.
sweep_end ==
  /\ task[Sweep].pc = "probe"
  /\ todo = {}
  /\ task' = [task EXCEPT ![Sweep] = Idle]
  /\ daemon' = "up"
  /\ UNCHANGED <<crashes, row, log, memory, todo, shim, proc>>

\* A periodic sweep that failed is logged and forgotten.
sweep_aborted ==
  /\ daemon = "up"
  /\ task[Sweep].pc = "aborted"
  /\ task' = [task EXCEPT ![Sweep] = Idle]
  /\ todo' = {}
  /\ UNCHANGED <<daemon, crashes, row, log, memory, shim, proc>>

-----------------------------------------------------------------------------
(* The daemon process: server/runner.rs.                                   *)

start_daemon ==
  /\ daemon = "down"
  /\ daemon' = "starting"
  /\ UNCHANGED <<crashes, row, log, memory, task, todo, shim, proc>>

\* The process ends: memory and tasks are gone, clients and shims with an
\* open connection see it close.
process_ends ==
  /\ daemon' = "down"
  /\ crashes' = crashes + 1
  /\ launches' = {}
  /\ sender' = [s \in Session |-> Nobody]
  /\ reported' = {}
  /\ watcher' = [s \in Session |-> Nobody]
  /\ todo' = {}
  /\ task' = [t \in Task |->
       IF t \in Spawner
         THEN IF task[t].pc \in {"idle", "spawned"} THEN task[t] ELSE returned(t, FALSE)
         ELSE Idle]
  /\ shim' = [s \in Session |->
       IF task[s].pc = "idle" THEN shim[s] ELSE answered(shim[s], FALSE)]
  /\ UNCHANGED <<row, log, proc>>

\* A crash, or a stop, which cuts the tasks off at their awaits as well.
crash ==
  /\ daemon # "down"
  /\ crashes < MaxCrashes
  /\ process_ends

\* run_daemon returns the error of the startup sweep.
startup_failed ==
  /\ daemon = "starting"
  /\ task[Sweep].pc = "aborted"
  /\ process_ends

-----------------------------------------------------------------------------
Spawning(h) ==
  \/ \E s \in Session : check_session(h, s)
  \/ insert_forking(h) \/ launch_shim(h) \/ cancel_spawn(h)
  \/ ready_timeout(h) \/ drop_receiver(h) \/ record_running(h)

Recording(t) ==
  \/ update_lifecycle(t) \/ start_exit_watcher(t) \/ finish_terminal(t)
  \/ append_event(t) \/ respond(t)

Shim(s) ==
  \/ take_launch_spec(s) \/ send_ready(s) \/ record_reconnected_ready(s)
  \/ wait_for_runtime(s) \/ record_shim_exit(s) \/ connect_failed(s) \/ shim_end(s)

Watching(w) ==
  \/ watcher_fires(w) \/ watcher_cancelled(w)
  \/ watcher_evidence(w) \/ record_watcher_exit(w)

Sweeping == sweep_begin \/ (\E s \in Session : sweep_probe(s)) \/ sweep_end \/ sweep_aborted

Environment(s) == shim_killed(s) \/ runtime_exits(s)

Next ==
  \/ \E h \in Spawner : Spawning(h)
  \/ \E t \in Task : Recording(t) \/ recording_failed(t)
  \/ \E s \in Session : Shim(s) \/ Environment(s)
  \/ \E w \in Watcher : Watching(w) \/ watcher_lost(w)
  \/ Sweeping
  \/ start_daemon \/ crash \/ startup_failed

Spec == Init /\ [][Next]_vars

\* The executor runs every task that can run, the kernel delivers exits, the
\* periodic sweep keeps its deadline and a timeout expires; somebody starts
\* the daemon again.  Clients, signals and crashes are not obliged to happen,
\* and nothing makes a launch, a probe or a write fail or a shim die.  A sweep
\* goes on with some row of its list: it owes nothing to a row behind one whose
\* probe fails.
Fairness ==
  /\ \A h \in Spawner :
       /\ WF_vars(insert_forking(h)) /\ WF_vars(launch_shim(h))
       /\ WF_vars(ready_timeout(h)) /\ WF_vars(drop_receiver(h))
       /\ WF_vars(record_running(h))
  /\ \A t \in Task : WF_vars(Recording(t))
  /\ \A s \in Session : WF_vars(Shim(s))
  /\ \A w \in Watcher : WF_vars(Watching(w))
  /\ WF_vars(sweep_begin) /\ WF_vars(sweep_end) /\ WF_vars(sweep_aborted)
  /\ WF_vars(\E s \in Session : sweep_probe(s))
  /\ WF_vars(start_daemon) /\ WF_vars(startup_failed)

FairSpec == Spec /\ Fairness

-----------------------------------------------------------------------------
(* Properties.                                                             *)

\* Position i of the log holds an event of s of one of the kinds.
Reports(i, s, kinds) == log[i].session = s /\ log[i].kind \in kinds

Ended == {"Terminated", "Lost"}

Logged(s, kinds) == \E i \in DOMAIN log : Reports(i, s, kinds)

\* No task of the daemon is busy with s.
Quiet(s) == \A t \in Task :
  task[t].session = s => task[t].pc \in {"idle", "armed", "spawned", "failed"}

\* A session is reported Running at most once, although both the spawn handler
\* (record_running) and a ShimReady that is retried after a timeout or a daemon
\* restart (record_reconnected_ready) append that event.
OneRunningEvent ==
  \A s \in Session : \A i, j \in DOMAIN log :
    Reports(i, s, {"Running"}) /\ Reports(j, s, {"Running"}) => i = j

\* One daemon process reports the end of a session at most once, however the
\* shim's exit report, the watcher and the sweep interleave (finish_terminal
\* claims the session in terminated_events before it appends).
OneEndPerIncarnation ==
  \A s \in Session : \A i, j \in DOMAIN log :
    /\ Reports(i, s, Ended) /\ Reports(j, s, Ended)
    /\ log[i].incarnation = log[j].incarnation
    => i = j

\* The daemon never says that a live host runtime has ended: neither the store
\* nor the log calls a session Exited, Terminated or Lost while its process
\* runs, although ready timeouts, dead shims and restarts all lose evidence.
NoFalseEnd ==
  \A s \in Session :
    row[s].state \in Terminal \/ Logged(s, Ended) => proc[s] = "dead"

\* A registered ShimReady sender belongs to a session with a row, so that
\* begin_ready_wait never finds the slot of a new session occupied (its error
\* branch would close the channel of another waiter).
SenderHasRow == \A s \in Session : sender[s] # Nobody => row[s].state # "None"

\* A Running session whose runtime lives has an exit watcher whenever the daemon
\* accepts requests and no task is busy with it: record_running, a reconnecting
\* shim or the startup sweep armed one, and nothing but a failing wait of its
\* thread removed it.
LiveIsWatched ==
  \A s \in Session :
    /\ "poll" \notin Faults /\ daemon = "up" /\ Quiet(s)
    /\ row[s].state = "Running" /\ proc[s] = "alive"
    => watcher[s] # Nobody /\ task[watcher[s]].pc = "armed"

\* Without a crash and with a log that can be written, once every task is through
\* with a session that the store calls ended, the log has its ending event: a
\* finisher that lost the race for terminated_events may rely on the one that won.
EndIsLogged ==
  \A s \in Session :
    /\ crashes = 0 /\ "append" \notin Faults /\ Quiet(s) /\ row[s].state \in Terminal
    => Logged(s, Ended)

\* cancel_spawn deletes only rows that nothing outside the daemon depends on:
\* no step removes the row of a session with a shim or an event.
RowsAreKept ==
  [][\A s \in Session :
       row[s].state # "None" /\ row'[s].state = "None"
       => shim[s].pc = "none" /\ ~Logged(s, {"Running"} \cup Ended)]_vars

\* A Running row whose runtime is dead does not stay Running.
DeadLeavesRunning ==
  \A s \in Session :
    (row[s].state = "Running" /\ proc[s] = "dead") ~> (row[s].state \in Terminal)

\* A Running row whose runtime is dead is eventually Exited or Lost, through
\* the shim, the watcher or the sweep, whatever crashed in between and whoever
\* lost a watcher, unless sweeps are given up again and again: reconcile_once
\* returns at the first row whose probe or record fails, and a row that is
\* listed behind it waits for a sweep that gets through.
DeadIsRecorded == <>[](task[Sweep].pc # "aborted") => DeadLeavesRunning

\* Every spawn request that was let in gets an answer: the handler's wait for
\* ShimReady is bounded by its timeout.
SpawnIsAnswered ==
  \A h \in Spawner :
    (task[h].pc # "idle") ~> (task[h].pc \in {"spawned", "failed"})

\* TLDR.md: "Transitions are recorded in observation order": the end of a
\* session is not in the log before its start.
RunningBeforeEnd ==
  \A s \in Session : \A i, j \in DOMAIN log :
    Reports(i, s, {"Running"}) /\ Reports(j, s, Ended) => i < j

\* TLDR.md: transitions "survive daemon restarts": a session that the store
\* calls ended is eventually reported as ended by the log.
EndSurvivesRestart ==
  \A s \in Session : (row[s].state \in Terminal) ~> Logged(s, Ended)

\* PROJECT.md: the shim "is the source of the exit signal the daemon trusts":
\* a row that is Exited after its shim's report was acknowledged stays so.
ShimReportStands ==
  [][\A s \in Session :
       shim[s].pc = "resumed" /\ row[s].state = "Exited"
       => row'[s].state = "Exited"]_vars
=============================================================================
