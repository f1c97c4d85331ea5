-------------------------- MODULE RtmdReportProofs --------------------------
(***************************************************************************)
(* What the daemon reports and what it watches: proofs that the start of a *)
(* session is reported at most once, its end at most once per daemon       *)
(* process and, without a crash, at least once; that no row that matters   *)
(* is deleted; and that a live session has its watcher.                    *)
(***************************************************************************)
EXTENDS RtmdProofs

\* What a task is in the middle of, for which session.
Starting(t, s) ==
  /\ task[t].session = s
  /\ \/ task[t].pc = "received"
     \/ /\ task[t].pc \in {"update", "watch", "append"}
        /\ task[t].lifecycle.state = "Running"

Arming(t, s) == task[t].session = s /\ task[t].pc \in {"watch", "rewatch"}

Finishing(t, s) == task[t].session = s /\ task[t].pc = "finish"

Ending(t, s) ==
  task[t].session = s /\ task[t].pc = "append" /\ task[t].lifecycle.state # "Running"

\* A copy is Running on the way to a watcher, and terminal on the way to a claim.
CopyFits ==
  \A t \in Task :
    /\ task[t].pc = "watch" => task[t].lifecycle.state = "Running"
    /\ task[t].pc = "finish" => task[t].lifecycle.state \in Terminal

\* Events are dated by the daemon processes there have been.
EventsAreDated == \A i \in DOMAIN log : log[i].incarnation <= crashes

\* Position i reports the end of s, and this daemon process wrote it.
EndedNow(i, s) == Reports(i, s, Ended) /\ log[i].incarnation = crashes

\* Whoever reported, or is about to report, the end of a session has claimed it;
\* one task at a time is about to, and only while it has not been reported.
EndIsClaimed ==
  \A s \in Session :
    /\ \A i \in DOMAIN log : EndedNow(i, s) => s \in reported
    /\ \A t \in Task : Ending(t, s) =>
         s \in reported /\ \A i \in DOMAIN log : ~EndedNow(i, s)
    /\ \A t, u \in Task : Ending(t, s) /\ Ending(u, s) => t = u

EndInv == CopyFits /\ EventsAreDated /\ EndIsClaimed /\ OneEndPerIncarnation

\* Without a crash, and when events can be written, a claim is followed by its
\* event and a row that is terminal by its claim.
ClaimIsKept ==
  crashes = 0 /\ "append" \notin Faults =>
    \A s \in Session :
      /\ s \in reported => Logged(s, Ended) \/ \E t \in Task : Ending(t, s)
      /\ row[s].state \in Terminal => s \in reported \/ \E t \in Task : Finishing(t, s)

\* A shim that will not say again that it is ready.
PastReady == {"wait", "exit", "resumed", "dead"}

\* One task at a time is on its way to report a start, the registered sender
\* is gone by then, and nobody else will be told that the shim is ready.
StartIsAlone ==
  \A s \in Session :
    /\ \A t, u \in Task : Starting(t, s) /\ Starting(u, s) => t = u
    /\ \A t \in Task : Starting(t, s) =>
         /\ sender[s] = Nobody /\ ~Logged(s, {"Running"})
         /\ t # s => shim[s].pc \in PastReady
         /\ task[t].pc \in {"watch", "append"} => row[s].state \notin {"None", "Forking"}

\* A session that was reported Running has a runtime and has left Forking.
StartIsTrue ==
  \A s \in Session : Logged(s, {"Running"}) =>
    /\ proc[s] \in Begun /\ sender[s] = Nobody
    /\ row[s].state \notin {"None", "Forking"}

StartInv == CopyFits /\ StartIsAlone /\ StartIsTrue /\ OneRunningEvent

\* The startup sweep has still to see s.
Due(s) ==
  \/ daemon = "down"
  \/ daemon = "starting" /\ (task[Sweep].pc \in {"idle", "aborted"} \/ s \in todo)

\* The sweep sleeps while there is no daemon.
SweepSleeps == daemon = "down" => task[Sweep].pc = "idle"

\* Whoever gives a session a watcher again has seen its runtime.
RewatchIsTrue ==
  \A t \in Task : \A s \in Session :
    task[t].pc = "rewatch" /\ task[t].session = s => proc[s] \in Begun

\* The watcher of a live session is armed for it.
WatcherWaits ==
  \A s \in Session : watcher[s] # Nobody =>
    /\ proc[s] \in Begun
    /\ proc[s] = "alive" => task[watcher[s]].pc = "armed" /\ task[watcher[s]].session = s

\* A live session that runs has a watcher, unless somebody is about to give it one.
LiveIsCovered ==
  \A s \in Session : row[s].state = "Running" /\ proc[s] = "alive" =>
    watcher[s] # Nobody \/ Due(s) \/ \E t \in Task : Arming(t, s)

WatchInv == CopyFits /\ SweepSleeps /\ RewatchIsTrue /\ WatcherWaits /\ LiveIsCovered

-----------------------------------------------------------------------------
(* Most steps move one task, or none, and touch neither the store nor the  *)
(* log nor a coordinator's map.  Calm says what such a step may do.        *)

\* At most task t moves.
Alone(t) == \A x \in Task : x # t => task'[x] = task[x]

\* What a calm move of t leaves and where it leads: it is not one of the steps that
\* write a row, claim, arm or append, and a copy is marked Running only from an
\* answer of the shim.
CalmMove(t) ==
  /\ task[t].pc \notin {"watch", "rewatch", "finish"}
  /\ task[t].pc = "append" => "append" \in Faults
  /\ task[t].pc = "armed" =>
       \/ "poll" \in Faults
       \/ proc[task[t].session] = "dead" \/ watcher[task[t].session] # t
  /\ task'[t].pc \notin {"received", "watch", "finish", "append", "armed"}
  /\ task'[t].pc = "update" /\ task'[t].lifecycle.state = "Running" =>
       \/ task[t].pc = "received" /\ task'[t].session = task[t].session
       \/ /\ t \in Session /\ task[t].pc = "idle" /\ task'[t].session = t
          /\ sender[t] = Nobody /\ shim[t].pc = "ready" /\ row[t].state = "Forking"
  /\ task'[t].pc = "rewatch" =>
       task'[t].session \in Session /\ proc[task'[t].session] \in Begun

\* Processes and shims only ever go on.
Forward ==
  \A s \in Session :
    /\ shim[s].pc \in PastReady => shim'[s].pc \in PastReady
    /\ proc[s] \in Begun => proc'[s] \in Begun
    /\ proc[s] = "dead" => proc'[s] = "dead"

Calm(t) ==
  /\ Alone(t) /\ (task'[t] # task[t] => CalmMove(t)) /\ Forward
  /\ UNCHANGED <<crashes, row, log, sender, reported, watcher>>

\* A task that returns rests, and its shim goes forward.
LEMMA ReturnRests ==
  ASSUME IInv, NEW t \in Task, NEW ok \in BOOLEAN, Return(t, ok),
         t \in Session => shim[t].pc \in {"ready", "exit", "dead"}
  PROVE  /\ Alone(t)
         /\ task'[t].pc \in {"idle", "probe", "aborted", "spawned", "failed"}
         /\ \A s \in Session : shim[s].pc \in PastReady => shim'[s].pc \in PastReady
<1>0. TypeInv /\ TypeOK
  BY DEF IInv, TypeInv
<1>1. Alone(t) /\ task'[t] = returned(t, ok)
  BY <1>0 DEF Return, TypeOK, Alone
<1>2. returned(t, ok).pc \in {"idle", "probe", "aborted", "spawned", "failed"}
  <2>1. CASE t \in Spawner
    BY <1>0, <2>1 DEF returned, TypeOK, TaskState
  <2>2. CASE t \notin Spawner
    BY <2>2 DEF returned, Idle
  <2> QED BY <2>1, <2>2
<1>3. \A s \in Session : shim[s].pc \in PastReady => shim'[s].pc \in PastReady
  <2>1. CASE t \in Session
    BY <1>0, <2>1, ReplyShim DEF Return, PastReady
  <2>2. CASE t \notin Session
    BY <2>2 DEF Return, reply
  <2> QED BY <2>1, <2>2
<1> QED BY <1>1, <1>2, <1>3

\* A task that returns makes a calm step if it was not about to write.
LEMMA CalmReturn ==
  ASSUME IInv, NEW t \in Task, NEW ok \in BOOLEAN, Return(t, ok),
         t \in Session => shim[t].pc \in {"ready", "exit", "dead"},
         UNCHANGED <<crashes, row, log, sender, reported, watcher, proc>>,
         task[t].pc \notin {"watch", "rewatch", "finish", "armed"},
         task[t].pc = "append" => "append" \in Faults
  PROVE  Calm(t)
BY ReturnRests DEF Calm, CalmMove, Forward

\* So does one that goes on to such a place.
LEMMA CalmContinue ==
  ASSUME IInv, NEW t \in Task, NEW s \in Session, NEW pc \in TaskPc, NEW l \in Row,
         Continue(t, s, pc, l), shim' = shim,
         UNCHANGED <<crashes, row, log, sender, reported, watcher, proc>>,
         task[t].pc \notin {"watch", "rewatch", "finish", "armed", "append"},
         pc \notin {"received", "watch", "finish", "append", "armed"},
         pc = "update" /\ l.state = "Running" =>
           \/ task[t].pc = "received" /\ task[t].session = s
           \/ /\ t = s /\ task[t].pc = "idle"
              /\ sender[t] = Nobody /\ shim[t].pc = "ready" /\ row[t].state = "Forking",
         pc = "rewatch" => proc[s] \in Begun
  PROVE  Calm(t)
<1>1. /\ Alone(t)
      /\ task'[t].pc = pc /\ task'[t].session = s /\ task'[t].lifecycle = l
  BY DEF Continue, IInv, TypeInv, TypeOK, Alone
<1> QED BY <1>1 DEF Calm, CalmMove, Forward

\* record_exited and record_lost are calm.
LEMMA CalmRecord ==
  ASSUME IInv, NEW t \in Task, NEW s \in Session, record_exited(t, s) \/ record_lost(t, s),
         t \in Session => t = s /\ shim[t].pc \in {"ready", "exit", "dead"},
         UNCHANGED <<crashes, row, log, sender, reported, watcher, proc>>,
         task[t].pc \notin {"watch", "rewatch", "finish", "armed", "append"}
  PROVE  Calm(t)
<1>1. CASE \E ok \in BOOLEAN : Return(t, ok)
  BY <1>1, CalmReturn
<1>2. CASE ~\E ok \in BOOLEAN : Return(t, ok)
  <2>1. PICK l \in {mark_exited(row[s]), mark_lost(row[s])} :
          Continue(t, s, "update", l) /\ shim' = shim
    BY <1>2 DEF record_exited, record_lost
  <2>2. l \in Row /\ l.state # "Running"
    BY <2>1, RowTypes DEF IInv, TypeInv, TypeOK
  <2>3. "update" \in TaskPc
    BY DEF TaskPc
  <2> QED BY <2>1, <2>2, <2>3, CalmContinue
<1> QED BY <1>1, <1>2

\* The steps that are not calm.
Marked ==
  \/ \E h \in Spawner : insert_forking(h) \/ cancel_spawn(h)
  \/ \E t \in Task : \/ update_lifecycle(t) \/ start_exit_watcher(t)
                     \/ finish_terminal(t) \/ append_event(t)
  \/ \E s \in Session : send_ready(s)
  \/ process_ends

\* Every step is one of those or calm.
LEMMA CalmStep ==
  ASSUME IInv, [Next]_vars
  PROVE  Marked \/ \E t \in Task : Calm(t)
<1> USE TaskNames
<1>a. TypeInv /\ TypeOK
  BY DEF IInv, TypeInv
<1>b. \A t \in Session : task[t].pc # "idle" => shim[t].pc \in {"ready", "exit", "dead"}
  BY DEF IInv, Evidence, HandlerServes
<1>1. ASSUME NEW h \in Spawner, NEW s \in Session, check_session(h, s) PROVE Calm(h)
  <2>1. PICK pc \in {"checked", "failed"} : Continue(h, s, pc, NoRow)
    BY <1>1 DEF check_session
  <2>2. pc \in TaskPc
    BY <2>1 DEF TaskPc
  <2> QED BY <1>1, <2>1, <2>2, FirstRows, CalmContinue DEF check_session, memory
<1>2. ASSUME NEW h \in Spawner, launch_shim(h) \/ ready_timeout(h) PROVE Calm(h)
  <2>1. /\ Alone(h) /\ task[h].pc \in {"launching", "waiting"}
        /\ task'[h].pc \in {"waiting", "timed_out"}
    BY <1>2, <1>a DEF launch_shim, ready_timeout, Alone, TypeOK, TaskState
  <2>2. task[h].session \in Session
    BY <2>1 DEF IInv, TypeInv, BusyHasSession
  <2>3. launch_shim(h) => shim[task[h].session].pc = "none"
    BY <2>2 DEF launch_shim, IInv, Evidence, LaunchIsAlone
  <2>4. \A s \in Session : shim[s].pc \in PastReady => shim'[s].pc \in PastReady
    BY <1>2, <1>a, <2>2, <2>3 DEF launch_shim, ready_timeout, PastReady, TypeOK
  <2> QED BY <1>2, <2>1, <2>4
    DEF launch_shim, ready_timeout, Calm, CalmMove, Forward, memory
<1>3. ASSUME NEW h \in Spawner, drop_receiver(h) PROVE Calm(h)
  <2>1. h \notin Session
    BY ConstantsDisjoint
  <2>2. Return(h, FALSE)
    BY <1>3, <2>1 DEF drop_receiver, Return, reply
  <2> QED BY <1>3, <2>1, <2>2, CalmReturn DEF drop_receiver, memory
<1>4. ASSUME NEW h \in Spawner, record_running(h) PROVE Calm(h)
  <2> DEFINE s == task[h].session
  <2>1. /\ s \in Session /\ task[h].pc = "received" /\ h \notin Session
        /\ UNCHANGED <<crashes, row, log, sender, reported, watcher, proc>>
    BY <1>4, ConstantsDisjoint DEF record_running, IInv, TypeInv, BusyHasSession, memory
  <2>2. CASE Return(h, FALSE)
    BY <2>1, <2>2, CalmReturn
  <2>3. CASE ~Return(h, FALSE)
    <3>1. Continue(h, s, "update", mark_running(row[s])) /\ shim' = shim
      BY <1>4, <2>3 DEF record_running
    <3>2. mark_running(row[s]) \in Row /\ "update" \in TaskPc
      BY <1>a, <2>1, RowTypes DEF TypeOK, TaskPc
    <3> QED BY <2>1, <3>1, <3>2, CalmContinue
  <2> QED BY <2>2, <2>3
<1>5. ASSUME NEW t \in Task, respond(t) \/ recording_failed(t) PROVE Calm(t)
  <2>1. PICK ok \in BOOLEAN : Return(t, ok)
    BY <1>5 DEF respond, recording_failed
  <2>2. /\ task[t].pc \in {"update", "append", "reply"}
        /\ task[t].pc = "append" => "append" \in Faults
        /\ UNCHANGED <<crashes, row, log, sender, reported, watcher, proc>>
    BY <1>5 DEF respond, recording_failed, memory
  <2> QED BY <1>b, <2>1, <2>2, CalmReturn
<1>6. ASSUME UNCHANGED <<crashes, row, log, sender, reported, watcher, task>>, Forward
      PROVE  Calm(Sweep)
  BY <1>6 DEF Calm, Alone
<1>7. ASSUME NEW s \in Session, take_launch_spec(s) PROVE Calm(Sweep)
  <2>1. shim[s].pc = "launch" /\ (s \in launches => proc[s] = "none")
    BY <1>7 DEF take_launch_spec, IInv, Evidence, StoreIsTrue
  <2>2. Forward
    BY <1>7, <1>a, <2>1 DEF take_launch_spec, Forward, TypeOK, PastReady, Begun
  <2> QED BY <1>6, <1>7, <2>2 DEF take_launch_spec
<1>8. ASSUME NEW s \in Session,
             \/ wait_for_runtime(s) \/ connect_failed(s) \/ shim_end(s)
             \/ shim_killed(s) \/ runtime_exits(s)
      PROVE  Calm(Sweep)
  <2>1. Forward
    <3>1. shim[s] \in ShimState /\ call_failed(shim[s]).pc \in {shim[s].pc, "dead"}
      BY <1>a DEF call_failed, TypeOK, ShimState
    <3>2. CASE wait_for_runtime(s)
      BY <1>a, <3>1, <3>2 DEF wait_for_runtime, TypeOK, ShimState, PastReady, Forward
    <3>3. CASE connect_failed(s)
      BY <1>a, <3>1, <3>3 DEF connect_failed, TypeOK, PastReady, Forward
    <3>4. CASE shim_end(s) \/ shim_killed(s)
      BY <1>a, <3>1, <3>4 DEF shim_end, shim_killed, TypeOK, ShimState, PastReady, Forward
    <3>5. CASE runtime_exits(s)
      BY <1>a, <3>5 DEF runtime_exits, TypeOK, Begun, Forward
    <3> QED BY <1>8, <3>2, <3>3, <3>4, <3>5
  <2> QED BY <1>6, <1>8, <2>1
    DEF wait_for_runtime, connect_failed, shim_end, shim_killed, runtime_exits, memory
<1>9. CASE start_daemon \/ UNCHANGED vars
  BY <1>6, <1>9 DEF start_daemon, vars, memory, Forward
<1>10. ASSUME NEW s \in Session, record_reconnected_ready(s) PROVE Calm(s)
  <2>1. /\ shim[s].pc = "ready" /\ task[s].pc = "idle" /\ sender[s] = Nobody
        /\ UNCHANGED <<crashes, row, log, sender, reported, watcher, proc>>
    BY <1>10 DEF record_reconnected_ready, memory
  <2>2. proc[s] \in Begun
    BY <2>1 DEF IInv, Evidence, ShimIsTrue
  <2>3. CASE Return(s, FALSE)
    BY <2>1, <2>3, CalmReturn
  <2>4. CASE ~Return(s, FALSE)
    <3>1. /\ shim' = shim
          /\ \/ row[s].state = "Forking" /\ Continue(s, s, "update", mark_running(row[s]))
             \/ Continue(s, s, "rewatch", NoRow)
      BY <1>10, <2>4 DEF record_reconnected_ready
    <3>2. /\ mark_running(row[s]) \in Row /\ NoRow \in Row
          /\ "update" \in TaskPc /\ "rewatch" \in TaskPc
      BY <1>a, RowTypes, FirstRows DEF TypeOK, TaskPc
    <3> QED BY <2>1, <2>2, <3>1, <3>2, CalmContinue
  <2> QED BY <2>3, <2>4
<1>11. ASSUME NEW s \in Session, record_shim_exit(s) PROVE Calm(s)
  <2>1. /\ shim[s].pc = "exit" /\ task[s].pc = "idle" /\ record_exited(s, s)
        /\ UNCHANGED <<crashes, row, log, sender, reported, watcher, proc>>
    BY <1>11 DEF record_shim_exit, memory
  <2> QED BY <2>1, CalmRecord
<1>12. ASSUME NEW w \in Watcher,
              watcher_fires(w) \/ watcher_cancelled(w) \/ watcher_lost(w)
                \/ watcher_evidence(w)
       PROVE  Calm(w)
  <2>1. /\ Alone(w)
        /\ task'[w].pc \in {"idle", "fired", "process_exit", "shim_died"}
        /\ task[w].pc \in {"armed", "fired"}
        /\ task[w].pc = "armed" =>
             \/ "poll" \in Faults
             \/ proc[task[w].session] = "dead" \/ watcher[task[w].session] # w
    BY <1>12, <1>a
    DEF watcher_fires, watcher_cancelled, watcher_lost, watcher_evidence, Alone, TypeOK, TaskState, Idle
  <2>2. UNCHANGED <<crashes, row, log, sender, reported, watcher, proc, shim>>
    BY <1>12 DEF watcher_fires, watcher_cancelled, watcher_lost, watcher_evidence, memory
  <2> QED BY <2>1, <2>2 DEF Calm, CalmMove, Forward
<1>13. ASSUME NEW w \in Watcher, record_watcher_exit(w) PROVE Calm(w)
  <2>1. /\ w \notin Session /\ task[w].pc \in {"process_exit", "shim_died"}
        /\ task[w].session \in Session
        /\ record_exited(w, task[w].session) \/ record_lost(w, task[w].session)
        /\ UNCHANGED <<crashes, row, log, sender, reported, watcher, proc>>
    BY <1>13, ConstantsDisjoint DEF record_watcher_exit, IInv, TypeInv, BusyHasSession, memory
  <2> QED BY <2>1, CalmRecord
<1>14. CASE sweep_begin \/ sweep_end \/ sweep_aborted
  <2>1. /\ Alone(Sweep) /\ task'[Sweep].pc \in {"idle", "probe"}
        /\ task[Sweep].pc \in {"idle", "probe", "aborted"}
        /\ UNCHANGED <<crashes, row, log, sender, reported, watcher, proc, shim>>
    BY <1>14, <1>a
    DEF sweep_begin, sweep_end, sweep_aborted, Continue, Alone, TypeOK, Idle, memory
  <2> QED BY <2>1 DEF Calm, CalmMove, Forward
<1>15. ASSUME NEW s \in Session, sweep_probe(s) PROVE Calm(Sweep)
  <2>1. /\ task[Sweep].pc = "probe"
        /\ UNCHANGED <<crashes, row, log, sender, reported, watcher, proc>>
    BY <1>15 DEF sweep_probe, memory
  <2>2. CASE record_lost(Sweep, s)
    BY <2>1, <2>2, CalmRecord
  <2>3. CASE proc[s] = "alive" /\ Continue(Sweep, s, "rewatch", NoRow) /\ UNCHANGED shim
    <3>1. "rewatch" \in TaskPc /\ proc[s] \in Begun
      BY <2>3 DEF TaskPc, Begun
    <3> QED BY <2>1, <2>3, <3>1, FirstRows, CalmContinue
  <2>4. CASE Return(Sweep, FALSE)
    BY <2>1, <2>4, CalmReturn
  <2> QED BY <1>15, <2>2, <2>3, <2>4 DEF sweep_probe
<1> QED
  BY <1>1, <1>2, <1>3, <1>4, <1>5, <1>7, <1>8, <1>9, <1>10, <1>11, <1>12, <1>13,
     <1>14, <1>15
  DEF Next, Spawning, Recording, Shim, Watching, Sweeping, Environment, crash,
      startup_failed, Marked

\* The other steps, by what they do to the tasks, the store, the log and the maps.
Resting == {"idle", "probe", "aborted", "spawned", "failed"}

\* update_lifecycle on a row that exists.
Writes(t) ==
  LET s == task[t].session
      l == task[t].lifecycle
  IN /\ task[t].pc = "update" /\ s \in Session /\ row[s].state # "None"
     /\ l.state \in {"Running", "Exited", "Lost"}
     /\ Alone(t) /\ task'[t].session = s /\ task'[t].lifecycle = l
     /\ task'[t].pc = IF l.state = "Running" THEN "watch" ELSE "finish"
     /\ row' = [row EXCEPT ![s] = l]
     /\ UNCHANGED <<crashes, log, sender, reported, watcher, proc>>

\* start_exit_watcher: there is a watcher, one is armed, or the process is dead.
Arms(t) ==
  LET s == task[t].session
  IN /\ task[t].pc \in {"watch", "rewatch"} /\ s \in Session
     /\ \/ /\ Alone(t) /\ watcher' = watcher
           /\ watcher[s] # Nobody \/ proc[s] = "dead"
        \/ \E w \in Watcher :
             /\ w # t /\ task[w].pc = "idle"
             /\ task'[w].pc = "armed" /\ task'[w].session = s
             /\ \A x \in Task : x # t /\ x # w => task'[x] = task[x]
             /\ watcher' = [watcher EXCEPT ![s] = w]
     /\ \/ task'[t].pc \in Resting
        \/ /\ task[t].pc = "watch" /\ task'[t].pc = "append"
           /\ task'[t].session = s /\ task'[t].lifecycle = task[t].lifecycle
     /\ UNCHANGED <<crashes, row, log, sender, reported, proc>>

\* finish_terminal: the first one goes on to its event.
Claims(t) ==
  LET s == task[t].session
  IN /\ task[t].pc = "finish" /\ s \in Session /\ Alone(t)
     /\ watcher' = [watcher EXCEPT ![s] = Nobody]
     /\ reported' = reported \cup {s}
     /\ IF s \in reported
          THEN task'[t].pc \in Resting
          ELSE /\ task'[t].pc = "append" /\ task'[t].session = s
               /\ task'[t].lifecycle = task[t].lifecycle
     /\ UNCHANGED <<crashes, row, log, sender, proc>>

\* append_event.
Appends(t) ==
  /\ task[t].pc = "append" /\ task[t].session \in Session
  /\ task[t].lifecycle.state \in {"Running", "Exited", "Lost"}
  /\ Alone(t) /\ task'[t].pc = "reply"
  /\ log' = Append(log, [session |-> task[t].session,
                         kind |-> event_kind(task[t].lifecycle),
                         incarnation |-> crashes])
  /\ UNCHANGED <<crashes, row, sender, reported, watcher, proc>>

\* insert_forking for a session that has no row, and cancel_spawn.
Inserts(h) ==
  LET s == task[h].session
  IN /\ task[h].pc = "checked" /\ s \in Session /\ row[s].state = "None"
     /\ Alone(h) /\ task'[h].pc = "launching"
     /\ row' = [row EXCEPT ![s] = forking] /\ sender' = [sender EXCEPT ![s] = h]
     /\ UNCHANGED <<crashes, log, reported, watcher, proc>>

Cancels(h) ==
  LET s == task[h].session
  IN /\ task[h].pc = "launching" /\ s \in Session
     /\ shim[s].pc = "none" /\ proc[s] = "none"
     /\ Alone(h) /\ task'[h].pc = "failed"
     /\ row' = [row EXCEPT ![s] = NoRow] /\ sender' = [sender EXCEPT ![s] = Nobody]
     /\ UNCHANGED <<crashes, log, reported, watcher, proc>>

\* send_ready to the handler h of s.
Sends(s, h) ==
  /\ sender[s] = h /\ task[h].session = s /\ Alone(h)
  /\ \/ task'[h] = task[h]
     \/ /\ task[h].pc = "waiting" /\ task'[h].pc = "received" /\ task'[h].session = s
        /\ shim'[s].pc \in PastReady
  /\ sender' = [sender EXCEPT ![s] = Nobody]
  /\ UNCHANGED <<crashes, row, log, reported, watcher, proc>>

\* The daemon process ends.
Ends ==
  /\ daemon' = "down" /\ crashes' = crashes + 1 /\ reported' = {}
  /\ UNCHANGED <<row, log, proc>>
  /\ \A s \in Session : sender'[s] = Nobody /\ watcher'[s] = Nobody
  /\ \A t \in Task : task'[t].pc \in {"idle", "spawned", "failed"}

Shape ==
  \/ \E t \in Task : Calm(t) \/ Writes(t) \/ Arms(t) \/ Claims(t) \/ Appends(t)
  \/ \E h \in Spawner : Inserts(h) \/ Cancels(h)
  \/ \E s \in Session : \E h \in Spawner : Sends(s, h)
  \/ Ends

\* What the steps that are not calm do.
LEMMA ShapeOfUpdate ==
  ASSUME IInv, NEW t \in Task, update_lifecycle(t)
  PROVE  Calm(t) \/ (Writes(t) /\ Forward)
<1> DEFINE s == task[t].session
           l == task[t].lifecycle
<1>1. s \in Session /\ task[t].pc = "update"
  BY DEF update_lifecycle, IInv, TypeInv, BusyHasSession
<1>2. CASE row[s].state = "None"
  <2>1. t \in Session => shim[t].pc \in {"ready", "exit", "dead"}
    BY <1>1 DEF IInv, Evidence, HandlerServes
  <2>2. /\ Return(t, FALSE)
        /\ UNCHANGED <<crashes, row, log, sender, reported, watcher, proc>>
    BY <1>2 DEF update_lifecycle, memory
  <2> QED BY <1>1, <2>1, <2>2, CalmReturn
<1>3. CASE row[s].state # "None"
  <2>1. l.state \in {"Running", "Exited", "Lost"}
    BY <1>1 DEF IInv, Evidence, CopyIsMarked
  <2>2. /\ row' = [row EXCEPT ![s] = l]
        /\ UNCHANGED <<crashes, log, sender, reported, watcher, proc, shim>>
        /\ task' = [task EXCEPT ![t].pc = IF l.state = "Running" THEN "watch" ELSE "finish"]
    BY <1>3 DEF update_lifecycle, memory
  <2>3. /\ Alone(t) /\ task'[t].session = s /\ task'[t].lifecycle = l
        /\ task'[t].pc = IF l.state = "Running" THEN "watch" ELSE "finish"
    BY <2>2 DEF Alone, IInv, TypeInv, TypeOK, TaskState
  <2> QED BY <1>1, <1>3, <2>1, <2>2, <2>3 DEF Writes, Forward
<1> QED BY <1>2, <1>3

LEMMA ShapeOfWatch ==
  ASSUME IInv, NEW t \in Task, start_exit_watcher(t)
  PROVE  Arms(t) /\ Forward
<1> DEFINE s == task[t].session
           fresh == task[t].pc = "watch"
           next == IF fresh THEN [task[t] EXCEPT !.pc = "append"] ELSE returned(t, TRUE)
<1>0. TypeInv /\ TypeOK
  BY DEF IInv, TypeInv
<1>1. /\ s \in Session /\ task[t].pc \in {"watch", "rewatch"}
      /\ UNCHANGED <<crashes, row, log, sender, reported, proc>>
  BY DEF start_exit_watcher, IInv, TypeInv, BusyHasSession
<1>2. t \in Session => shim[t].pc \in {"ready", "exit", "dead"}
  BY <1>1 DEF IInv, Evidence, HandlerServes
<1>3. CASE Return(t, FALSE) /\ watcher' = watcher /\ proc[s] = "dead"
  BY <1>1, <1>2, <1>3, ReturnRests DEF Arms, Forward, Resting
<1>4. CASE ~(Return(t, FALSE) /\ watcher' = watcher /\ proc[s] = "dead")
  <2>1. \/ next.pc \in Resting
        \/ /\ fresh /\ next.pc = "append" /\ next.session = s
           /\ next.lifecycle = task[t].lifecycle
    BY <1>0 DEF returned, Idle, Resting, TypeOK, TaskState
  <2>2. Forward
    <3>1. shim' = IF fresh THEN shim ELSE reply(t, TRUE)
      BY <1>4 DEF start_exit_watcher
    <3>2. CASE t \in Session
      BY <1>0, <1>1, <1>2, <3>1, <3>2, ReplyShim DEF Forward, PastReady
    <3>3. CASE t \notin Session
      BY <1>1, <3>1, <3>3 DEF Forward, reply
    <3> QED BY <3>2, <3>3
  <2>3. CASE watcher[s] # Nobody /\ task' = [task EXCEPT ![t] = next] /\ watcher' = watcher
    <3>1. Alone(t) /\ task'[t] = next
      BY <1>0, <2>3 DEF Alone, TypeOK
    <3> QED BY <1>1, <2>1, <2>2, <2>3, <3>1 DEF Arms
  <2>4. CASE \E w \in Watcher : arm(w, s, t, next)
    <3>1. PICK w \in Watcher : arm(w, s, t, next)
      BY <2>4
    <3>2. w \in Task /\ w # t /\ task[w].pc = "idle"
      BY <1>1, <3>1, TaskNames DEF arm
    <3> HIDE DEF next
    <3>3. /\ task'[t] = next
          /\ task'[w].pc = "armed" /\ task'[w].session = s
          /\ \A x \in Task : x # t /\ x # w => task'[x] = task[x]
          /\ watcher' = [watcher EXCEPT ![s] = w]
      BY <1>0, <3>1, <3>2 DEF arm, TypeOK
    <3> QED BY <1>1, <2>1, <2>2, <3>2, <3>3 DEF Arms
  <2> QED BY <1>4, <2>3, <2>4 DEF start_exit_watcher
<1> QED BY <1>3, <1>4

LEMMA ShapeOfFinish ==
  ASSUME IInv, NEW t \in Task, finish_terminal(t)
  PROVE  Claims(t) /\ Forward
<1> DEFINE s == task[t].session
<1>1. /\ s \in Session /\ task[t].pc = "finish"
      /\ watcher' = [watcher EXCEPT ![s] = Nobody] /\ reported' = reported \cup {s}
      /\ UNCHANGED <<crashes, row, log, sender, proc>>
  BY DEF finish_terminal, IInv, TypeInv, BusyHasSession
<1>2. t \in Session => shim[t].pc \in {"ready", "exit", "dead"}
  BY <1>1 DEF IInv, Evidence, HandlerServes
<1>3. CASE s \in reported
  <2>1. Return(t, TRUE)
    BY <1>3 DEF finish_terminal
  <2> QED BY <1>1, <1>2, <1>3, <2>1, ReturnRests DEF Claims, Forward, Resting
<1>4. CASE s \notin reported
  <2>1. task' = [task EXCEPT ![t].pc = "append"] /\ shim' = shim
    BY <1>4 DEF finish_terminal
  <2>2. /\ Alone(t) /\ task'[t].pc = "append"
        /\ task'[t].session = s /\ task'[t].lifecycle = task[t].lifecycle
    BY <2>1 DEF Alone, IInv, TypeInv, TypeOK, TaskState
  <2> QED BY <1>1, <1>4, <2>1, <2>2 DEF Claims, Forward
<1> QED BY <1>3, <1>4

LEMMA ShapeOfAppend ==
  ASSUME IInv, NEW t \in Task, append_event(t)
  PROVE  Appends(t) /\ Forward
<1>1. task[t].session \in Session /\ task[t].pc = "append"
  BY DEF append_event, IInv, TypeInv, BusyHasSession
<1>2. task[t].lifecycle.state \in {"Running", "Exited", "Lost"}
  BY <1>1 DEF IInv, Evidence, CopyIsMarked
<1>3. Alone(t) /\ task'[t].pc = "reply"
  BY DEF append_event, Alone, IInv, TypeInv, TypeOK, TaskState
<1> QED BY <1>1, <1>2, <1>3 DEF append_event, Appends, Forward, memory

LEMMA ShapeOfSpawn ==
  ASSUME IInv, NEW h \in Spawner, insert_forking(h) \/ cancel_spawn(h)
  PROVE  Calm(h) \/ ((Inserts(h) \/ Cancels(h)) /\ Forward)
<1> DEFINE s == task[h].session
<1>0. /\ s \in Session /\ h \in Task
      /\ UNCHANGED <<crashes, log, reported, watcher, proc, shim>>
  BY TaskNames DEF insert_forking, cancel_spawn, IInv, TypeInv, BusyHasSession
<1>1. CASE cancel_spawn(h)
  <2>1. /\ Alone(h) /\ task[h].pc = "launching" /\ task'[h].pc = "failed"
        /\ row' = [row EXCEPT ![s] = NoRow] /\ sender' = [sender EXCEPT ![s] = Nobody]
    BY <1>0, <1>1 DEF cancel_spawn, Alone, IInv, TypeInv, TypeOK, TaskState
  <2>2. shim[s].pc = "none" /\ proc[s] = "none"
    BY <1>0, <2>1 DEF IInv, Evidence, LaunchIsAlone
  <2> QED BY <1>0, <2>1, <2>2 DEF Cancels, Forward
<1>2. CASE insert_forking(h) /\ row[s].state = "None"
  <2>1. sender[s] = Nobody
    BY <1>0, <1>2 DEF IInv, Evidence, SenderHasRow
  <2>2. /\ task[h].pc = "checked"
        /\ row' = [row EXCEPT ![s] = forking] /\ sender' = [sender EXCEPT ![s] = h]
        /\ task' = [task EXCEPT ![h].pc = "launching"]
    BY <1>2, <2>1 DEF insert_forking
  <2>3. Alone(h) /\ task'[h].pc = "launching"
    BY <1>0, <2>2 DEF Alone, IInv, TypeInv, TypeOK, TaskState
  <2> QED BY <1>0, <1>2, <2>2, <2>3 DEF Inserts, Forward
<1>3. CASE insert_forking(h) /\ row[s].state # "None"
  <2>1. /\ task[h].pc = "checked" /\ UNCHANGED <<row, sender>>
        /\ task' = [task EXCEPT ![h].pc = "failed"]
    BY <1>3 DEF insert_forking
  <2>2. Alone(h) /\ task'[h].pc = "failed"
    BY <1>0, <2>1 DEF Alone, IInv, TypeInv, TypeOK, TaskState
  <2> QED BY <1>0, <2>1, <2>2 DEF Calm, CalmMove, Forward
<1> QED BY <1>1, <1>2, <1>3

LEMMA ShapeOfReady ==
  ASSUME IInv, NEW s \in Session, send_ready(s)
  PROVE  (\E h \in Spawner : Sends(s, h)) /\ Forward
<1> DEFINE h == sender[s]
<1>0. TypeInv /\ TypeOK
  BY DEF IInv, TypeInv
<1>1. h \in Spawner /\ h \in Task /\ task[h].session = s /\ shim[s].pc = "ready"
  BY <1>0, TaskNames DEF send_ready, TypeOK, IInv, Evidence, SenderIsHandler
<1>2. /\ sender' = [sender EXCEPT ![s] = Nobody]
      /\ UNCHANGED <<crashes, row, log, reported, watcher, proc>>
  BY DEF send_ready
<1>3. /\ Alone(h) /\ task'[h].session = s
      /\ task[h].pc = "waiting" => task'[h].pc = "received"
      /\ task[h].pc # "waiting" => task'[h] = task[h]
  BY <1>0, <1>1 DEF send_ready, Alone, TypeOK, TaskState
<1>4. /\ \A r \in Session : r # s => shim'[r] = shim[r]
      /\ task[h].pc = "waiting" => shim'[s].pc \in PastReady
  <2>1. task[h].pc = "waiting" => shim' = reply(s, TRUE)
    BY DEF send_ready
  <2>2. reply(s, TRUE)[s] = call_ok(shim[s])
    BY <1>0, <1>1 DEF reply, answered, Calling, TypeOK
  <2>3. call_ok(shim[s]).pc = "wait"
    BY <1>1 DEF call_ok
  <2>4. \A r \in Session : r # s => shim'[r] = shim[r]
    BY <1>0 DEF send_ready, reply, TypeOK
  <2> QED BY <2>1, <2>2, <2>3, <2>4 DEF PastReady
<1>5. Forward
  BY <1>1, <1>2, <1>4 DEF Forward, PastReady
<1> HIDE DEF h
<1>6. h = sender[s]
  BY DEF h
<1> QED BY <1>1, <1>2, <1>3, <1>4, <1>5, <1>6 DEF Sends

LEMMA ShapeOfEnd ==
  ASSUME IInv, process_ends
  PROVE  Ends /\ Forward
<1>0. TypeInv /\ TypeOK
  BY DEF IInv, TypeInv
<1>1. /\ daemon' = "down" /\ crashes' = crashes + 1 /\ reported' = {}
      /\ UNCHANGED <<row, log, proc>>
      /\ \A s \in Session : sender'[s] = Nobody /\ watcher'[s] = Nobody
  BY DEF process_ends
<1>2. ASSUME NEW t \in Task PROVE task'[t].pc \in {"idle", "spawned", "failed"}
  <2>1. CASE t \in Spawner /\ task[t].pc \notin {"idle", "spawned"}
    <3>1. task'[t] = [task[t] EXCEPT !.pc = "failed", !.lifecycle = NoRow]
      BY <2>1 DEF process_ends, returned
    <3> QED BY <1>0, <3>1 DEF TypeOK, TaskState
  <2>2. CASE t \in Spawner /\ task[t].pc \in {"idle", "spawned"}
    BY <2>2 DEF process_ends
  <2>3. CASE t \notin Spawner
    BY <2>3 DEF process_ends, Idle
  <2> QED BY <2>1, <2>2, <2>3
<1>3. ASSUME NEW s \in Session, shim[s].pc \in PastReady PROVE shim'[s].pc \in PastReady
  <2>1. answered(shim[s], FALSE).pc \in {shim[s].pc, "dead"}
    BY <1>0 DEF answered, call_failed, Calling, TypeOK, ShimState
  <2> QED BY <1>3, <2>1 DEF process_ends, PastReady
<1> QED BY <1>1, <1>2, <1>3 DEF Ends, Forward

\* Every step has one of the shapes, and shims and processes go forward.
LEMMA StepShape ==
  ASSUME IInv, [Next]_vars
  PROVE  Shape /\ Forward
<1>1. CASE \E t \in Task : Calm(t)
  BY <1>1 DEF Calm, Shape
<1>2. CASE Marked
  BY <1>2, ShapeOfUpdate, ShapeOfWatch, ShapeOfFinish, ShapeOfAppend, ShapeOfSpawn,
     ShapeOfReady, ShapeOfEnd, TaskNames DEF Marked, Shape, Calm
<1> QED BY <1>1, <1>2, CalmStep

-----------------------------------------------------------------------------
(* The end of a session.                                                   *)

\* The copy of a task fits where it is.
LEMMA CopyFitsStep ==
  ASSUME IInv, CopyFits, Shape
  PROVE  CopyFits'
<1>1. ASSUME NEW t \in Task, Calm(t) PROVE CopyFits'
  BY <1>1 DEF Calm, CalmMove, Alone, CopyFits
<1>2. ASSUME NEW t \in Task, Writes(t) PROVE CopyFits'
  BY <1>2 DEF Writes, Alone, CopyFits, Terminal
<1>3. ASSUME NEW t \in Task, Arms(t) PROVE CopyFits'
  BY <1>3, TaskNames DEF Arms, Alone, CopyFits, Resting
<1>4. ASSUME NEW t \in Task, Claims(t) \/ Appends(t) PROVE CopyFits'
  BY <1>4 DEF Claims, Appends, Alone, CopyFits, Resting
<1>5. ASSUME NEW h \in Spawner, Inserts(h) \/ Cancels(h) PROVE CopyFits'
  BY <1>5, TaskNames DEF Inserts, Cancels, Alone, CopyFits
<1>6. ASSUME NEW s \in Session, NEW h \in Spawner, Sends(s, h) PROVE CopyFits'
  BY <1>6, TaskNames DEF Sends, Alone, CopyFits
<1>7. CASE Ends
  BY <1>7 DEF Ends, CopyFits
<1> QED BY <1>1, <1>2, <1>3, <1>4, <1>5, <1>6, <1>7 DEF Shape

\* An appended event comes after the ones there were.
LEMMA LogGrows ==
  ASSUME TypeOK, NEW e, log' = Append(log, e)
  PROVE  /\ DOMAIN log \subseteq DOMAIN log'
         /\ Len(log) + 1 \in DOMAIN log' /\ Len(log) + 1 \notin DOMAIN log
         /\ log'[Len(log) + 1] = e
         /\ \A i \in DOMAIN log : log'[i] = log[i]
         /\ \A i \in DOMAIN log' : i \in DOMAIN log \/ i = Len(log) + 1
BY DEF TypeOK

\* A step that appends nothing and brings no task to an ending keeps EndInv.
LEMMA EndFrame ==
  ASSUME EndIsClaimed, EventsAreDated, OneEndPerIncarnation,
         UNCHANGED <<crashes, log>>, reported \subseteq reported',
         \A t \in Task : \A s \in Session : Ending(t, s)' => Ending(t, s)
  PROVE  EndIsClaimed' /\ EventsAreDated' /\ OneEndPerIncarnation'
<1>1. EventsAreDated' /\ OneEndPerIncarnation'
  BY DEF EventsAreDated, OneEndPerIncarnation, Reports
<1>2. EndIsClaimed'
  <2> SUFFICES ASSUME NEW s \in Session
      PROVE  /\ \A i \in DOMAIN log' : EndedNow(i, s)' => s \in reported'
             /\ \A t \in Task : Ending(t, s)' =>
                  s \in reported' /\ \A i \in DOMAIN log' : ~EndedNow(i, s)'
             /\ \A t, u \in Task : Ending(t, s)' /\ Ending(u, s)' => t = u
    BY DEF EndIsClaimed
  <2>1. \A i \in DOMAIN log : EndedNow(i, s)' = EndedNow(i, s)
    BY DEF EndedNow, Reports
  <2> QED BY <2>1 DEF EndIsClaimed
<1> QED BY <1>1, <1>2

\* Every step keeps EndInv.
LEMMA EndStep ==
  ASSUME IInv, EndInv, Shape
  PROVE  EndInv'
<1>0. TypeOK /\ CopyFits /\ EventsAreDated /\ EndIsClaimed /\ OneEndPerIncarnation
  BY DEF IInv, TypeInv, EndInv
<1> USE TaskNames
<1>a. CopyFits'
  BY <1>0, CopyFitsStep
<1> SUFFICES EndIsClaimed' /\ EventsAreDated' /\ OneEndPerIncarnation'
  BY <1>a DEF EndInv
<1>1. ASSUME NEW t \in Task, Calm(t)
      PROVE  EndIsClaimed' /\ EventsAreDated' /\ OneEndPerIncarnation'
  <2>1. \A x \in Task : \A s \in Session : Ending(x, s)' => Ending(x, s)
    BY <1>1 DEF Calm, CalmMove, Alone, Ending
  <2> QED BY <1>0, <1>1, <2>1, EndFrame DEF Calm
<1>2. ASSUME NEW t \in Task, Writes(t)
      PROVE  EndIsClaimed' /\ EventsAreDated' /\ OneEndPerIncarnation'
  <2>1. \A x \in Task : \A s \in Session : Ending(x, s)' => Ending(x, s)
    BY <1>2 DEF Writes, Alone, Ending
  <2> QED BY <1>0, <1>2, <2>1, EndFrame DEF Writes
<1>3. ASSUME NEW t \in Task, Arms(t)
      PROVE  EndIsClaimed' /\ EventsAreDated' /\ OneEndPerIncarnation'
  <2>1. \A x \in Task : \A s \in Session : Ending(x, s)' => Ending(x, s)
    BY <1>0, <1>3 DEF Arms, Alone, Ending, CopyFits, Resting
  <2> QED BY <1>0, <1>3, <2>1, EndFrame DEF Arms
<1>4. ASSUME NEW h \in Spawner, Inserts(h) \/ Cancels(h)
      PROVE  EndIsClaimed' /\ EventsAreDated' /\ OneEndPerIncarnation'
  <2>1. \A x \in Task : \A s \in Session : Ending(x, s)' => Ending(x, s)
    BY <1>4 DEF Inserts, Cancels, Alone, Ending
  <2> QED BY <1>0, <1>4, <2>1, EndFrame DEF Inserts, Cancels
<1>5. ASSUME NEW r \in Session, NEW h \in Spawner, Sends(r, h)
      PROVE  EndIsClaimed' /\ EventsAreDated' /\ OneEndPerIncarnation'
  <2>1. \A x \in Task : \A s \in Session : Ending(x, s)' => Ending(x, s)
    BY <1>5 DEF Sends, Alone, Ending
  <2> QED BY <1>0, <1>5, <2>1, EndFrame DEF Sends
<1>6. ASSUME NEW t \in Task, Claims(t)
      PROVE  EndIsClaimed' /\ EventsAreDated' /\ OneEndPerIncarnation'
  <2> DEFINE s == task[t].session
  <2>1. /\ s \in Session /\ UNCHANGED <<crashes, log>> /\ reported' = reported \cup {s}
        /\ \A x \in Task : \A r \in Session : Ending(x, r)' =>
             Ending(x, r) \/ (x = t /\ r = s /\ s \notin reported)
    BY <1>6 DEF Claims, Alone, Ending, Resting
  <2>2. CASE s \in reported
    BY <1>0, <2>1, <2>2, EndFrame
  <2>3. CASE s \notin reported
    <3>1. EventsAreDated' /\ OneEndPerIncarnation'
      BY <1>0, <2>1 DEF EventsAreDated, OneEndPerIncarnation, Reports
    <3>2. \A i \in DOMAIN log : \A r \in Session : EndedNow(i, r)' = EndedNow(i, r)
      BY <2>1 DEF EndedNow, Reports
    <3>3. (\A x \in Task : ~Ending(x, s)) /\ \A i \in DOMAIN log : ~EndedNow(i, s)
      BY <1>0, <2>1, <2>3 DEF EndIsClaimed
    <3> HIDE DEF s
    <3>4. EndIsClaimed'
      BY <1>0, <2>1, <3>2, <3>3 DEF EndIsClaimed
    <3> QED BY <3>1, <3>4
  <2> QED BY <2>2, <2>3
<1>7. ASSUME NEW t \in Task, Appends(t)
      PROVE  EndIsClaimed' /\ EventsAreDated' /\ OneEndPerIncarnation'
  <2> DEFINE s == task[t].session
             k == event_kind(task[t].lifecycle)
             e == [session |-> s, kind |-> k, incarnation |-> crashes]
             n == Len(log) + 1
  <2>1. s \in Session /\ UNCHANGED <<crashes, reported>> /\ log' = Append(log, e)
    BY <1>7 DEF Appends
  <2>2. /\ DOMAIN log \subseteq DOMAIN log' /\ n \in DOMAIN log' /\ n \notin DOMAIN log
        /\ log'[n] = e
        /\ \A i \in DOMAIN log : log'[i] = log[i]
        /\ \A i \in DOMAIN log' : i \in DOMAIN log \/ i = n
    BY <1>0, <2>1, LogGrows
  <2>3. e.session = s /\ e.kind = k /\ e.incarnation = crashes
    OBVIOUS
  <2>4. k \in Ended => Ending(t, s)
    BY <1>7 DEF Appends, Ending, event_kind, Ended
  <2>5. \A x \in Task : \A r \in Session : Ending(x, r)' => Ending(x, r) /\ x # t
    BY <1>7 DEF Appends, Alone, Ending
  <2>6. crashes \in Nat
    BY <1>0 DEF TypeOK
  <2> HIDE DEF s, k, e, n
  <2>7. \A i \in DOMAIN log' : \A r \in Session :
          /\ i # n => (EndedNow(i, r)' <=> EndedNow(i, r))
          /\ i # n => (Reports(i, r, Ended)' <=> Reports(i, r, Ended))
          /\ i = n => (EndedNow(i, r)' <=> r = s /\ k \in Ended)
          /\ i = n => (Reports(i, r, Ended)' <=> r = s /\ k \in Ended)
    BY <2>1, <2>2, <2>3 DEF EndedNow, Reports
  <2>8. EventsAreDated'
    BY <1>0, <2>1, <2>2, <2>3, <2>6 DEF EventsAreDated
  <2>9. EndIsClaimed'
    <3> SUFFICES ASSUME NEW r \in Session
        PROVE  /\ \A i \in DOMAIN log' : EndedNow(i, r)' => r \in reported'
               /\ \A x \in Task : Ending(x, r)' =>
                    r \in reported' /\ \A i \in DOMAIN log' : ~EndedNow(i, r)'
               /\ \A x, u \in Task : Ending(x, r)' /\ Ending(u, r)' => x = u
      BY DEF EndIsClaimed
    <3>1. \A i \in DOMAIN log' : EndedNow(i, r)' => r \in reported'
      BY <1>0, <2>1, <2>2, <2>4, <2>7 DEF EndIsClaimed
    <3>2. ASSUME NEW x \in Task, Ending(x, r)'
          PROVE  r \in reported' /\ \A i \in DOMAIN log' : ~EndedNow(i, r)'
      <4>1. Ending(x, r) /\ x # t
        BY <2>5, <3>2
      <4>2. ~(r = s /\ k \in Ended)
        BY <1>0, <2>4, <4>1 DEF EndIsClaimed
      <4> QED BY <1>0, <2>1, <2>2, <2>7, <4>1, <4>2 DEF EndIsClaimed
    <3>3. \A x, u \in Task : Ending(x, r)' /\ Ending(u, r)' => x = u
      BY <1>0, <2>5 DEF EndIsClaimed
    <3> QED BY <3>1, <3>2, <3>3
  <2>10. OneEndPerIncarnation'
    <3> SUFFICES ASSUME NEW r \in Session, NEW i \in DOMAIN log', NEW j \in DOMAIN log',
                        Reports(i, r, Ended)', Reports(j, r, Ended)',
                        log'[i].incarnation = log'[j].incarnation
        PROVE  i = j
      BY DEF OneEndPerIncarnation
    <3>1. CASE i # n /\ j # n
      BY <1>0, <2>2, <2>7, <3>1 DEF OneEndPerIncarnation
    <3>2. CASE i = n /\ j # n
      <4>1. r = s /\ k \in Ended /\ Reports(j, s, Ended) /\ log[j].incarnation = crashes
        BY <2>2, <2>3, <2>7, <3>2
      <4> QED BY <1>0, <2>1, <2>2, <2>4, <3>2, <4>1 DEF EndIsClaimed, EndedNow
    <3>3. CASE i # n /\ j = n
      <4>1. r = s /\ k \in Ended /\ Reports(i, s, Ended) /\ log[i].incarnation = crashes
        BY <2>2, <2>3, <2>7, <3>3
      <4> QED BY <1>0, <2>1, <2>2, <2>4, <3>3, <4>1 DEF EndIsClaimed, EndedNow
    <3> QED BY <3>1, <3>2, <3>3
  <2> QED BY <2>8, <2>9, <2>10
<1>8. CASE Ends
  <2>1. /\ crashes' = crashes + 1 /\ log' = log /\ crashes \in Nat
        /\ \A x \in Task : \A s \in Session : ~Ending(x, s)'
    BY <1>0, <1>8 DEF Ends, Ending, TypeOK
  <2>2. \A i \in DOMAIN log : log[i].incarnation \in Nat
    <3>1. \A i \in DOMAIN log : log[i] \in Event
      BY <1>0 DEF TypeOK
    <3> QED BY <3>1 DEF Event
  <2>3. EventsAreDated' /\ \A i \in DOMAIN log : log[i].incarnation # crashes'
    BY <1>0, <2>1, <2>2 DEF EventsAreDated
  <2>4. EndIsClaimed'
    BY <2>1, <2>3 DEF EndIsClaimed, EndedNow
  <2>5. OneEndPerIncarnation'
    BY <1>0, <2>1 DEF OneEndPerIncarnation, Reports
  <2> QED BY <2>3, <2>4, <2>5
<1> QED BY <1>1, <1>2, <1>3, <1>4, <1>5, <1>6, <1>7, <1>8 DEF Shape

\* Nothing has been reported at first.
LEMMA EndInit == Init => EndInv
<1> SUFFICES ASSUME Init PROVE EndInv
  OBVIOUS
<1>1. (\A t \in Task : task[t].pc = "idle") /\ DOMAIN log = {}
  BY DEF Init, Idle
<1> QED BY <1>1
  DEF EndInv, CopyFits, EventsAreDated, EndIsClaimed, Ending, OneEndPerIncarnation

\* One daemon process reports the end of a session at most once: finish_terminal
\* claims the session in terminated_events before it appends, nobody gives a claim
\* back, and events are never taken from the log.
THEOREM EndIsReportedOnce == Spec => []OneEndPerIncarnation
<1>1. Init => EndInv
  BY EndInit
<1>2. IInv /\ EndInv /\ [Next]_vars => EndInv'
  BY StepShape, EndStep
<1>3. EndInv => OneEndPerIncarnation
  BY DEF EndInv
<1> QED BY <1>1, <1>2, <1>3, Invariance, PTL DEF Spec

\* A step that keeps the log, the claims and the tasks that end or finish, and
\* makes no row terminal, keeps the claims.
LEMMA ClaimFrame ==
  ASSUME ClaimIsKept, UNCHANGED <<crashes, log, reported>>,
         \A s \in Session : row'[s].state \in Terminal => row[s].state \in Terminal,
         "append" \notin Faults =>
           \A t \in Task : \A s \in Session :
             (Ending(t, s) => Ending(t, s)') /\ (Finishing(t, s) => Finishing(t, s)')
  PROVE  ClaimIsKept'
<1>1. \A s \in Session : Logged(s, Ended)' = Logged(s, Ended)
  BY DEF Logged, Reports
<1> QED BY <1>1 DEF ClaimIsKept

\* Every step keeps the claims.
LEMMA ClaimStep ==
  ASSUME IInv, CopyFits, ClaimIsKept, Shape
  PROVE  ClaimIsKept'
<1> USE TaskNames
<1>0. TypeOK
  BY DEF IInv, TypeInv
<1>1. ASSUME NEW t \in Task, Calm(t) PROVE ClaimIsKept'
  <2>1. "append" \notin Faults =>
          \A x \in Task : \A s \in Session :
            (Ending(x, s) => Ending(x, s)') /\ (Finishing(x, s) => Finishing(x, s)')
    BY <1>1 DEF Calm, CalmMove, Alone, Ending, Finishing
  <2> QED BY <1>1, <2>1, ClaimFrame DEF Calm
<1>2. ASSUME NEW t \in Task, Arms(t) PROVE ClaimIsKept'
  <2>1. \A x \in Task : \A s \in Session :
          (Ending(x, s) => Ending(x, s)') /\ (Finishing(x, s) => Finishing(x, s)')
    BY <1>2 DEF Arms, Alone, Ending, Finishing
  <2> QED BY <1>2, <2>1, ClaimFrame DEF Arms
<1>3. ASSUME NEW h \in Spawner, Inserts(h) \/ Cancels(h) PROVE ClaimIsKept'
  <2>1. \A x \in Task : \A s \in Session :
          (Ending(x, s) => Ending(x, s)') /\ (Finishing(x, s) => Finishing(x, s)')
    BY <1>3 DEF Inserts, Cancels, Alone, Ending, Finishing
  <2>2. \A s \in Session : row'[s].state \in Terminal => row[s].state \in Terminal
    BY <1>0, <1>3 DEF Inserts, Cancels, TypeOK, forking, NoRow, Terminal
  <2> QED BY <1>3, <2>1, <2>2, ClaimFrame DEF Inserts, Cancels
<1>4. ASSUME NEW r \in Session, NEW h \in Spawner, Sends(r, h) PROVE ClaimIsKept'
  <2>1. \A x \in Task : \A s \in Session :
          (Ending(x, s) => Ending(x, s)') /\ (Finishing(x, s) => Finishing(x, s)')
    BY <1>4 DEF Sends, Alone, Ending, Finishing
  <2> QED BY <1>4, <2>1, ClaimFrame DEF Sends
<1>5. ASSUME NEW t \in Task, Writes(t) PROVE ClaimIsKept'
  <2> SUFFICES ASSUME crashes' = 0, "append" \notin Faults, NEW s \in Session
      PROVE  /\ s \in reported' => Logged(s, Ended)' \/ \E x \in Task : Ending(x, s)'
             /\ row'[s].state \in Terminal =>
                  s \in reported' \/ \E x \in Task : Finishing(x, s)'
    BY DEF ClaimIsKept
  <2>0. PICK r \in Session : r = task[t].session
    BY <1>5 DEF Writes
  <2>1. /\ UNCHANGED <<crashes, log, reported>>
        /\ \A q \in Session : q # r => row'[q] = row[q]
        /\ row'[r].state \in Terminal => Finishing(t, r)'
    BY <1>0, <1>5, <2>0 DEF Writes, TypeOK, Finishing, Terminal
  <2>2. \A x \in Task :
          (Ending(x, s) => Ending(x, s)') /\ (Finishing(x, s) => Finishing(x, s)')
    BY <1>5 DEF Writes, Alone, Ending, Finishing
  <2>3. Logged(s, Ended)' = Logged(s, Ended)
    BY <2>1 DEF Logged, Reports
  <2> QED BY <2>1, <2>2, <2>3 DEF ClaimIsKept
<1>6. ASSUME NEW t \in Task, Claims(t) PROVE ClaimIsKept'
  <2> SUFFICES ASSUME crashes' = 0, "append" \notin Faults, NEW s \in Session
      PROVE  /\ s \in reported' => Logged(s, Ended)' \/ \E x \in Task : Ending(x, s)'
             /\ row'[s].state \in Terminal =>
                  s \in reported' \/ \E x \in Task : Finishing(x, s)'
    BY DEF ClaimIsKept
  <2>0. PICK r \in Session : r = task[t].session
    BY <1>6 DEF Claims
  <2>1. /\ UNCHANGED <<crashes, log, row>>
        /\ reported' = reported \cup {r}
        /\ r \notin reported => Ending(t, r)'
    BY <1>6, <2>0 DEF Claims, Ending, CopyFits, Terminal
  <2>2. \A x \in Task :
          /\ Ending(x, s) => Ending(x, s)'
          /\ Finishing(x, s) => Finishing(x, s)' \/ s = r
    BY <1>6, <2>0 DEF Claims, Alone, Ending, Finishing
  <2>3. Logged(s, Ended)' = Logged(s, Ended)
    BY <2>1 DEF Logged, Reports
  <2> QED BY <2>1, <2>2, <2>3 DEF ClaimIsKept
<1>7. ASSUME NEW t \in Task, Appends(t) PROVE ClaimIsKept'
  <2> SUFFICES ASSUME crashes' = 0, "append" \notin Faults, NEW s \in Session
      PROVE  /\ s \in reported' => Logged(s, Ended)' \/ \E x \in Task : Ending(x, s)'
             /\ row'[s].state \in Terminal =>
                  s \in reported' \/ \E x \in Task : Finishing(x, s)'
    BY DEF ClaimIsKept
  <2>0. PICK r \in Session, n \in Nat : r = task[t].session /\ n = Len(log) + 1
    BY <1>0, <1>7 DEF Appends, TypeOK
  <2> DEFINE e == [session |-> r, kind |-> event_kind(task[t].lifecycle),
                   incarnation |-> crashes]
  <2>1. /\ UNCHANGED <<crashes, row, reported>>
        /\ log' = Append(log, e)
    BY <1>7, <2>0 DEF Appends
  <2>2. /\ DOMAIN log \subseteq DOMAIN log' /\ n \in DOMAIN log'
        /\ log'[n] = e
        /\ \A i \in DOMAIN log : log'[i] = log[i]
    BY <1>0, <2>0, <2>1, LogGrows
  <2>3. Ending(t, r) => e.session = r /\ e.kind \in Ended
    BY <1>7, <2>0 DEF Appends, Ending, event_kind, Ended
  <2> HIDE DEF e
  <2>4. /\ Logged(s, Ended) => Logged(s, Ended)'
        /\ Ending(t, r) => Logged(r, Ended)'
    <3>1. ASSUME NEW i \in DOMAIN log, Reports(i, s, Ended) PROVE Reports(i, s, Ended)'
      BY <2>2, <3>1 DEF Reports
    <3>2. Ending(t, r) => Reports(n, r, Ended)'
      BY <2>2, <2>3 DEF Reports
    <3> QED BY <2>2, <3>1, <3>2 DEF Logged
  <2>5. \A x \in Task :
          /\ Ending(x, s) => Ending(x, s)' \/ (x = t /\ s = r)
          /\ Finishing(x, s) => Finishing(x, s)'
    BY <1>7, <2>0 DEF Appends, Alone, Ending, Finishing
  <2> QED BY <2>1, <2>4, <2>5 DEF ClaimIsKept
<1>8. CASE Ends
  BY <1>0, <1>8 DEF Ends, ClaimIsKept, TypeOK
<1> QED BY <1>1, <1>2, <1>3, <1>4, <1>5, <1>6, <1>7, <1>8 DEF Shape

\* Without a crash, and if events can be written, the log has the end of every session
\* that the store calls ended and no task is busy with: the claim of a finisher
\* that loses the race for terminated_events belongs to one that goes on to append.
THEOREM EndGetsLogged == Spec => []EndIsLogged
<1>1. Init => CopyFits /\ ClaimIsKept
  <2> SUFFICES ASSUME Init PROVE CopyFits /\ ClaimIsKept
    OBVIOUS
  <2>1. CopyFits
    BY EndInit DEF EndInv
  <2>2. reported = {} /\ \A s \in Session : row[s].state \notin Terminal
    BY DEF Init, NoRow, Terminal
  <2> QED BY <2>1, <2>2 DEF ClaimIsKept
<1>2. IInv /\ CopyFits /\ ClaimIsKept /\ [Next]_vars => (CopyFits /\ ClaimIsKept)'
  BY StepShape, CopyFitsStep, ClaimStep
<1>3. IInv /\ ClaimIsKept => EndIsLogged
  <2> SUFFICES ASSUME IInv, ClaimIsKept, NEW s \in Session, crashes = 0,
                      "append" \notin Faults, Quiet(s), row[s].state \in Terminal
      PROVE  Logged(s, Ended)
    BY DEF EndIsLogged
  <2>1. \A t \in Task : ~Ending(t, s) /\ ~Finishing(t, s)
    BY DEF Quiet, Ending, Finishing
  <2> QED BY <2>1 DEF ClaimIsKept
<1> QED BY <1>1, <1>2, <1>3, Invariance, PTL DEF Spec

-----------------------------------------------------------------------------
(* The start of a session.                                                 *)

\* A task on its way to report a start has seen the runtime.
LEMMA StartHasRuntime ==
  ASSUME IInv, NEW t \in Task, NEW s \in Session, Starting(t, s)
  PROVE  proc[s] \in Begun
BY DEF IInv, Evidence, ConclusionIsTrue, Starting

\* A step that appends nothing and starts nothing keeps what is known of starts.
LEMMA StartFrame ==
  ASSUME IInv, StartIsAlone, StartIsTrue, OneRunningEvent, Forward, log' = log,
         \A s \in Session : proc[s] \in Begun =>
           /\ sender[s] = Nobody => sender'[s] = Nobody
           /\ row[s].state \notin {"None", "Forking"} =>
                row'[s].state \notin {"None", "Forking"},
         \A t \in Task : \A s \in Session : Starting(t, s)' =>
           /\ Starting(t, s)
           /\ task'[t].pc \in {"watch", "append"} => row'[s].state \notin {"None", "Forking"}
  PROVE  StartIsAlone' /\ StartIsTrue' /\ OneRunningEvent'
<1>1. \A s \in Session : Logged(s, {"Running"})' <=> Logged(s, {"Running"})
  BY DEF Logged, Reports
<1>2. OneRunningEvent'
  BY DEF OneRunningEvent, Reports
<1>3. StartIsTrue'
  BY <1>1 DEF StartIsTrue, Forward
<1>4. StartIsAlone'
  <2> SUFFICES ASSUME NEW s \in Session
      PROVE  /\ \A t, u \in Task : Starting(t, s)' /\ Starting(u, s)' => t = u
             /\ \A t \in Task : Starting(t, s)' =>
                  /\ sender'[s] = Nobody /\ ~Logged(s, {"Running"})'
                  /\ t # s => shim'[s].pc \in PastReady
                  /\ task'[t].pc \in {"watch", "append"} =>
                       row'[s].state \notin {"None", "Forking"}
    BY DEF StartIsAlone
  <2>1. \A t, u \in Task : Starting(t, s)' /\ Starting(u, s)' => t = u
    BY DEF StartIsAlone
  <2>2. ASSUME NEW t \in Task, Starting(t, s)'
        PROVE  /\ sender'[s] = Nobody /\ ~Logged(s, {"Running"})'
               /\ t # s => shim'[s].pc \in PastReady
               /\ task'[t].pc \in {"watch", "append"} =>
                    row'[s].state \notin {"None", "Forking"}
    <3>1. Starting(t, s) /\ proc[s] \in Begun
      BY <2>2, StartHasRuntime
    <3> QED BY <1>1, <2>2, <3>1 DEF StartIsAlone, Forward
  <2> QED BY <2>1, <2>2
<1> QED BY <1>2, <1>3, <1>4

\* Every step keeps what is known of starts.
LEMMA StartStep ==
  ASSUME IInv, StartInv, Shape, Forward
  PROVE  StartInv'
<1> USE TaskNames
<1>0. TypeOK /\ CopyFits /\ StartIsAlone /\ StartIsTrue /\ OneRunningEvent
  BY DEF IInv, TypeInv, StartInv
<1>a. CopyFits'
  BY <1>0, CopyFitsStep
<1> SUFFICES StartIsAlone' /\ StartIsTrue' /\ OneRunningEvent'
  BY <1>a DEF StartInv
<1>1. ASSUME NEW t \in Task, Calm(t)
      PROVE  StartIsAlone' /\ StartIsTrue' /\ OneRunningEvent'
  <2>1. UNCHANGED <<row, log, sender>>
    BY <1>1 DEF Calm
  <2>2. CASE \A s \in Session : Starting(t, s)' => Starting(t, s)
    <3>1. \A x \in Task : \A s \in Session : Starting(x, s)' =>
            /\ Starting(x, s)
            /\ task'[x].pc \in {"watch", "append"} => task'[x] = task[x]
      BY <1>1, <2>2 DEF Calm, CalmMove, Alone, Starting
    <3>2. \A x \in Task : \A s \in Session : Starting(x, s)' =>
            /\ Starting(x, s)
            /\ task'[x].pc \in {"watch", "append"} => row'[s].state \notin {"None", "Forking"}
      BY <1>0, <2>1, <3>1 DEF StartIsAlone
    <3> QED BY <1>0, <2>1, <3>2, StartFrame
  <2>3. CASE \E s \in Session : Starting(t, s)' /\ ~Starting(t, s)
    <3>1. PICK s \in Session : Starting(t, s)' /\ ~Starting(t, s)
      BY <2>3
    <3>2. /\ t = s /\ task[s].pc = "idle" /\ sender[s] = Nobody
          /\ shim[s].pc = "ready" /\ row[s].state = "Forking"
          /\ task'[s].pc = "update" /\ task'[s].session = s
      BY <1>1, <3>1 DEF Calm, CalmMove, Starting
    <3>3. /\ ~Logged(s, {"Running"})
          /\ \A x \in Task : ~Starting(x, s)
      <4>1. ~Starting(s, s)
        BY <3>2 DEF Starting
      <4> QED BY <1>0, <3>2, <4>1 DEF StartIsTrue, StartIsAlone, PastReady
    <3>4. /\ \A x \in Task : \A r \in Session : r # s => (Starting(x, r)' => Starting(x, r))
          /\ \A x \in Task : Starting(x, s)' => x = s
          /\ \A x \in Task : x # s => task'[x] = task[x]
      BY <1>1, <3>2, <3>3 DEF Calm, Alone, Starting
    <3>5. \A r \in Session : Logged(r, {"Running"})' <=> Logged(r, {"Running"})
      BY <2>1 DEF Logged, Reports
    <3>6. OneRunningEvent' /\ StartIsTrue'
      BY <1>0, <2>1, <3>5 DEF OneRunningEvent, Reports, StartIsTrue, Forward
    <3>7. StartIsAlone'
      <4> SUFFICES ASSUME NEW r \in Session
          PROVE  /\ \A x, u \in Task : Starting(x, r)' /\ Starting(u, r)' => x = u
                 /\ \A x \in Task : Starting(x, r)' =>
                      /\ sender'[r] = Nobody /\ ~Logged(r, {"Running"})'
                      /\ x # r => shim'[r].pc \in PastReady
                      /\ task'[x].pc \in {"watch", "append"} =>
                           row'[r].state \notin {"None", "Forking"}
        BY DEF StartIsAlone
      <4>1. CASE r = s
        BY <2>1, <3>2, <3>3, <3>4, <3>5, <4>1
      <4>2. CASE r # s
        <5>1. \A x \in Task : Starting(x, r)' => Starting(x, r) /\ task'[x] = task[x]
          BY <3>2, <3>4, <4>2 DEF Starting
        <5> QED BY <1>0, <2>1, <3>5, <5>1 DEF StartIsAlone, Forward
      <4> QED BY <4>1, <4>2
    <3> QED BY <3>6, <3>7
  <2> QED BY <2>2, <2>3
<1>2. ASSUME NEW t \in Task, Writes(t)
      PROVE  StartIsAlone' /\ StartIsTrue' /\ OneRunningEvent'
  <2> DEFINE q == task[t].session
  <2>1. /\ q \in Session /\ UNCHANGED <<log, sender>>
        /\ row'[q].state \in {"Running", "Exited", "Lost"}
        /\ \A s \in Session : s # q => row'[s] = row[s]
    BY <1>0, <1>2 DEF Writes, TypeOK
  <2>2. \A x \in Task : \A s \in Session : Starting(x, s)' =>
          Starting(x, s) /\ (s = q \/ task'[x] = task[x])
    BY <1>2 DEF Writes, Alone, Starting
  <2> HIDE DEF q
  <2>3. \A x \in Task : \A s \in Session : Starting(x, s)' =>
          /\ Starting(x, s)
          /\ task'[x].pc \in {"watch", "append"} => row'[s].state \notin {"None", "Forking"}
    BY <1>0, <2>1, <2>2 DEF StartIsAlone
  <2>4. \A s \in Session : row[s].state \notin {"None", "Forking"} =>
          row'[s].state \notin {"None", "Forking"}
    BY <2>1
  <2> QED BY <1>0, <2>1, <2>3, <2>4, StartFrame
<1>3. ASSUME NEW t \in Task, Arms(t) \/ Claims(t)
      PROVE  StartIsAlone' /\ StartIsTrue' /\ OneRunningEvent'
  <2>1. UNCHANGED <<row, log, sender>>
    BY <1>3 DEF Arms, Claims
  <2>2. \A x \in Task : \A s \in Session : Starting(x, s)' =>
          /\ Starting(x, s)
          /\ task'[x].pc \in {"watch", "append"} => task[x].pc \in {"watch", "append"}
    BY <1>0, <1>3 DEF Arms, Claims, Alone, Starting, CopyFits, Resting, Terminal
  <2>3. \A x \in Task : \A s \in Session : Starting(x, s)' =>
          /\ Starting(x, s)
          /\ task'[x].pc \in {"watch", "append"} => row'[s].state \notin {"None", "Forking"}
    BY <1>0, <2>1, <2>2 DEF StartIsAlone
  <2> QED BY <1>0, <2>1, <2>3, StartFrame
<1>4. ASSUME NEW h \in Spawner, Inserts(h) \/ Cancels(h)
      PROVE  StartIsAlone' /\ StartIsTrue' /\ OneRunningEvent'
  <2> DEFINE q == task[h].session
  <2>1. q \in Session /\ log' = log /\ proc[q] = "none"
    BY <1>4 DEF Inserts, Cancels, IInv, Evidence, StoreIsTrue
  <2>2. \A s \in Session : s # q => row'[s] = row[s] /\ sender'[s] = sender[s]
    BY <1>0, <1>4 DEF Inserts, Cancels, TypeOK
  <2>3. \A x \in Task : \A s \in Session : Starting(x, s)' =>
          Starting(x, s) /\ task'[x] = task[x]
    BY <1>4 DEF Inserts, Cancels, Alone, Starting
  <2>4. \A x \in Task : ~Starting(x, q)
    BY <2>1, StartHasRuntime DEF Begun
  <2> HIDE DEF q
  <2>5. \A x \in Task : \A s \in Session : Starting(x, s)' =>
          /\ Starting(x, s)
          /\ task'[x].pc \in {"watch", "append"} => row'[s].state \notin {"None", "Forking"}
    BY <1>0, <2>2, <2>3, <2>4 DEF StartIsAlone
  <2>6. \A s \in Session : proc[s] \in Begun =>
          row'[s] = row[s] /\ sender'[s] = sender[s]
    BY <2>1, <2>2 DEF Begun
  <2> QED BY <1>0, <2>1, <2>5, <2>6, StartFrame
<1>5. ASSUME NEW s \in Session, NEW h \in Spawner, Sends(s, h)
      PROVE  StartIsAlone' /\ StartIsTrue' /\ OneRunningEvent'
  <2>1. /\ UNCHANGED <<row, log>> /\ sender'[s] = Nobody /\ sender[s] # Nobody
        /\ \A r \in Session : r # s => sender'[r] = sender[r]
    BY <1>0, <1>5, ConstantsDisjoint DEF Sends, TypeOK
  <2>2. ~Logged(s, {"Running"}) /\ \A x \in Task : ~Starting(x, s)
    BY <1>0, <2>1 DEF StartIsTrue, StartIsAlone
  <2>3. /\ \A x \in Task : Starting(x, s)' =>
             x = h /\ task'[h].pc = "received" /\ shim'[s].pc \in PastReady
        /\ \A x \in Task : \A r \in Session : r # s /\ Starting(x, r)' =>
             Starting(x, r) /\ task'[x] = task[x]
    BY <1>5, <2>2 DEF Sends, Alone, Starting
  <2>4. \A r \in Session : Logged(r, {"Running"})' <=> Logged(r, {"Running"})
    BY <2>1 DEF Logged, Reports
  <2>5. OneRunningEvent' /\ StartIsTrue'
    BY <1>0, <2>1, <2>4 DEF OneRunningEvent, Reports, StartIsTrue, Forward
  <2>6. StartIsAlone'
    <3> SUFFICES ASSUME NEW r \in Session
        PROVE  /\ \A x, u \in Task : Starting(x, r)' /\ Starting(u, r)' => x = u
               /\ \A x \in Task : Starting(x, r)' =>
                    /\ sender'[r] = Nobody /\ ~Logged(r, {"Running"})'
                    /\ x # r => shim'[r].pc \in PastReady
                    /\ task'[x].pc \in {"watch", "append"} =>
                         row'[r].state \notin {"None", "Forking"}
      BY DEF StartIsAlone
    <3>1. CASE r = s
      BY <2>1, <2>2, <2>3, <2>4, <3>1
    <3>2. CASE r # s
      BY <1>0, <2>1, <2>3, <2>4, <3>2 DEF StartIsAlone, Forward
    <3> QED BY <3>1, <3>2
  <2> QED BY <2>5, <2>6
<1>6. CASE Ends
  <2>1. /\ UNCHANGED <<row, log>> /\ \A s \in Session : sender'[s] = Nobody
        /\ \A x \in Task : \A s \in Session : ~Starting(x, s)'
    BY <1>6 DEF Ends, Starting
  <2> QED BY <1>0, <2>1, StartFrame
<1>7. ASSUME NEW t \in Task, Appends(t)
      PROVE  StartIsAlone' /\ StartIsTrue' /\ OneRunningEvent'
  <2>0. PICK q \in Session, n \in Nat : q = task[t].session /\ n = Len(log) + 1
    BY <1>0, <1>7 DEF Appends, TypeOK
  <2> DEFINE k == event_kind(task[t].lifecycle)
             e == [session |-> q, kind |-> k, incarnation |-> crashes]
  <2>1. UNCHANGED <<row, sender>> /\ log' = Append(log, e)
    BY <1>7, <2>0 DEF Appends
  <2>2. /\ DOMAIN log \subseteq DOMAIN log' /\ n \in DOMAIN log' /\ n \notin DOMAIN log
        /\ log'[n] = e
        /\ \A i \in DOMAIN log : log'[i] = log[i]
        /\ \A i \in DOMAIN log' : i \in DOMAIN log \/ i = n
    BY <1>0, <2>0, <2>1, LogGrows
  <2>3. e.session = q /\ e.kind = k
    OBVIOUS
  <2>4. k = "Running" => Starting(t, q) /\ task[t].pc = "append"
    BY <1>7, <2>0 DEF Appends, Starting, event_kind
  <2>5. \A x \in Task : \A s \in Session : Starting(x, s)' =>
          Starting(x, s) /\ x # t /\ task'[x] = task[x]
    BY <1>7 DEF Appends, Alone, Starting
  <2> HIDE DEF k, e
  <2>6. \A i \in DOMAIN log' : \A s \in Session :
          Reports(i, s, {"Running"})' <=>
            \/ i # n /\ Reports(i, s, {"Running"})
            \/ i = n /\ s = q /\ k = "Running"
    BY <2>2, <2>3 DEF Reports
  <2>7. \A s \in Session : Logged(s, {"Running"})' <=>
          Logged(s, {"Running"}) \/ (s = q /\ k = "Running")
    BY <2>2, <2>6 DEF Logged
  <2>8. k = "Running" =>
          /\ proc[q] \in Begun /\ sender[q] = Nobody /\ ~Logged(q, {"Running"})
          /\ row[q].state \notin {"None", "Forking"}
          /\ \A x \in Task : ~Starting(x, q)'
    BY <1>0, <2>4, <2>5, StartHasRuntime DEF StartIsAlone
  <2>9. StartIsTrue'
    BY <1>0, <2>1, <2>7, <2>8 DEF StartIsTrue, Forward
  <2>10. StartIsAlone'
    <3> SUFFICES ASSUME NEW r \in Session
        PROVE  /\ \A x, u \in Task : Starting(x, r)' /\ Starting(u, r)' => x = u
               /\ \A x \in Task : Starting(x, r)' =>
                    /\ sender'[r] = Nobody /\ ~Logged(r, {"Running"})'
                    /\ x # r => shim'[r].pc \in PastReady
                    /\ task'[x].pc \in {"watch", "append"} =>
                         row'[r].state \notin {"None", "Forking"}
      BY DEF StartIsAlone
    <3> QED BY <1>0, <2>1, <2>5, <2>7, <2>8 DEF StartIsAlone, Forward
  <2>11. OneRunningEvent'
    <3> SUFFICES ASSUME NEW s \in Session, NEW i \in DOMAIN log', NEW j \in DOMAIN log',
                        Reports(i, s, {"Running"})', Reports(j, s, {"Running"})'
        PROVE  i = j
      BY DEF OneRunningEvent
    <3>1. CASE i # n /\ j # n
      BY <1>0, <2>2, <2>6, <3>1 DEF OneRunningEvent
    <3>2. CASE i = n \/ j = n
      BY <2>2, <2>6, <2>8, <3>2 DEF Logged
    <3> QED BY <3>1, <3>2
  <2> QED BY <2>9, <2>10, <2>11
<1> QED BY <1>1, <1>2, <1>3, <1>4, <1>5, <1>6, <1>7 DEF Shape

\* At first nothing starts.
LEMMA StartInit == Init => StartInv
<1> SUFFICES ASSUME Init PROVE StartInv
  OBVIOUS
<1>1. (\A t \in Task : task[t].pc = "idle") /\ DOMAIN log = {}
  BY DEF Init, Idle
<1> QED BY <1>1
  DEF StartInv, CopyFits, StartIsAlone, StartIsTrue, Starting, OneRunningEvent, Logged

LEMMA StartInvariance == Spec => []StartInv
<1>1. Init => StartInv
  BY StartInit
<1>2. IInv /\ StartInv /\ [Next]_vars => StartInv'
  BY StepShape, StartStep
<1> QED BY <1>1, <1>2, Invariance, PTL DEF Spec

\* A session is reported Running at most once: the registered handler is told once,
\* a shim that got its answer does not say again that it is ready, and a retried
\* ShimReady finds a row that has left Forking if an event was written.
THEOREM StartIsReportedOnce == Spec => []OneRunningEvent
<1>1. StartInv => OneRunningEvent
  BY DEF StartInv
<1> QED BY <1>1, StartInvariance, PTL

\* No step deletes the row of a session that has a shim or an event: the only row
\* that is ever deleted is the one of a spawn whose shim was not started.
THEOREM RowsStay == Spec => RowsAreKept
<1> DEFINE Kept(s) == row[s].state # "None" /\ row'[s].state = "None"
                      => shim[s].pc = "none" /\ ~Logged(s, {"Running"} \cup Ended)
<1>1. ASSUME IInv, StartInv, [Next]_vars, NEW s \in Session PROVE Kept(s)
  <2>0. TypeOK /\ Shape
    BY <1>1, StepShape DEF IInv, TypeInv
  <2> SUFFICES ASSUME row[s].state # "None", row'[s].state = "None"
      PROVE  shim[s].pc = "none" /\ ~Logged(s, {"Running"} \cup Ended)
    OBVIOUS
  <2>1. ~(row' = row)
    OBVIOUS
  <2>2. ASSUME NEW t \in Task, Writes(t) PROVE FALSE
    BY <2>0, <2>2 DEF Writes, TypeOK
  <2>3. ASSUME NEW h \in Spawner, Inserts(h) PROVE FALSE
    BY <2>0, <2>3 DEF Inserts, TypeOK, forking
  <2>4. ASSUME NEW h \in Spawner, Cancels(h)
        PROVE  shim[s].pc = "none" /\ proc[s] = "none"
    BY <2>0, <2>4 DEF Cancels, TypeOK
  <2>5. shim[s].pc = "none" /\ proc[s] = "none"
    BY <2>0, <2>1, <2>2, <2>3, <2>4
    DEF Shape, Calm, Arms, Claims, Appends, Sends, Ends
  <2>6. ~Logged(s, {"Running"}) /\ ~Logged(s, Ended)
    BY <1>1, <2>5 DEF StartInv, StartIsTrue, Begun, IInv, Evidence, NoFalseEnd
  <2>7. ~Logged(s, {"Running"} \cup Ended)
    BY <2>6 DEF Logged, Reports
  <2> QED BY <2>5, <2>7
<1>2. IInv /\ StartInv /\ [Next]_vars => [\A s \in Session : Kept(s)]_vars
  BY <1>1
<1> QED BY <1>2, Invariance, StartInvariance, PTL DEF Spec, RowsAreKept

-----------------------------------------------------------------------------
(* The watchers.                                                           *)

\* Only the sweep's own actions begin or give up a sweep, and only the daemon's
\* change whether it accepts requests.
LEMMA SweepStep ==
  ASSUME IInv, [Next]_vars
  PROVE  \/ /\ UNCHANGED <<daemon, todo>>
            /\ task'[Sweep] = task[Sweep] \/ task[Sweep].pc \notin {"idle", "aborted"}
         \/ start_daemon \/ process_ends \/ Sweeping
<1> USE TaskNames
<1>0. TypeOK
  BY DEF IInv, TypeInv
<1>1. ASSUME NEW h \in Spawner, Spawning(h)
      PROVE  UNCHANGED <<daemon, todo>> /\ task'[Sweep] = task[Sweep]
  BY <1>0, <1>1
  DEF Spawning, check_session, insert_forking, launch_shim, cancel_spawn, ready_timeout,
      drop_receiver, record_running, Continue, Return, TypeOK
<1>2. ASSUME NEW t \in Task, Recording(t) \/ recording_failed(t)
      PROVE  /\ UNCHANGED <<daemon, todo>>
             /\ task'[Sweep] = task[Sweep] \/ task[Sweep].pc \notin {"idle", "aborted"}
  <2>1. UNCHANGED <<daemon, todo>>
    BY <1>2 DEF Recording, update_lifecycle, start_exit_watcher, finish_terminal,
                append_event, respond, recording_failed
  <2>2. CASE t = Sweep
    BY <1>2, <2>1, <2>2 DEF Recording, update_lifecycle, start_exit_watcher,
                finish_terminal, append_event, respond, recording_failed
  <2>3. CASE t # Sweep
    BY <1>0, <1>2, <2>1, <2>3
    DEF Recording, update_lifecycle, start_exit_watcher, finish_terminal,
        append_event, respond, recording_failed, Return, arm, TypeOK
  <2> QED BY <2>2, <2>3
<1>3. ASSUME NEW s \in Session, Shim(s) \/ Environment(s)
      PROVE  UNCHANGED <<daemon, todo>> /\ task'[Sweep] = task[Sweep]
  <2>1. CASE send_ready(s)
    <3>1. sender[s] \in Spawner
      BY <1>0, <2>1 DEF send_ready, TypeOK
    <3> QED BY <1>0, <2>1, <3>1 DEF send_ready, TypeOK
  <2>2. CASE ~send_ready(s)
    BY <1>0, <1>3, <2>2
    DEF Shim, Environment, take_launch_spec, record_reconnected_ready, wait_for_runtime,
        record_shim_exit, record_exited, connect_failed, shim_end, shim_killed,
        runtime_exits, Continue, Return, TypeOK
  <2> QED BY <2>1, <2>2
<1>4. ASSUME NEW w \in Watcher, Watching(w) \/ watcher_lost(w)
      PROVE  UNCHANGED <<daemon, todo>> /\ task'[Sweep] = task[Sweep]
  BY <1>0, <1>4
  DEF Watching, watcher_fires, watcher_cancelled, watcher_lost, watcher_evidence, record_watcher_exit,
      record_exited, record_lost, Continue, Return, TypeOK
<1>5. CASE UNCHANGED vars
  BY <1>5 DEF vars
<1> QED BY <1>1, <1>2, <1>3, <1>4, <1>5 DEF Next, crash, startup_failed

\* The sweep goes on sleeping, and does not miss a session that it has still to see.
LEMMA DueStep ==
  ASSUME IInv, SweepSleeps, [Next]_vars
  PROVE  /\ SweepSleeps'
         /\ \A s \in Session : Due(s) /\ row[s].state = "Running" /\ proc[s] = "alive" =>
              Due(s)' \/ \E t \in Task : Arming(t, s)'
<1> USE TaskNames
<1>0. TypeOK
  BY DEF IInv, TypeInv
<1> DEFINE Goal == /\ SweepSleeps'
                   /\ \A s \in Session :
                        Due(s) /\ row[s].state = "Running" /\ proc[s] = "alive" =>
                          Due(s)' \/ \E t \in Task : Arming(t, s)'
<1>1. CASE /\ UNCHANGED <<daemon, todo>>
           /\ task'[Sweep] = task[Sweep] \/ task[Sweep].pc \notin {"idle", "aborted"}
  BY <1>1 DEF SweepSleeps, Due
<1>2. CASE start_daemon
  BY <1>2 DEF start_daemon, SweepSleeps, Due
<1>3. CASE process_ends
  BY <1>3 DEF process_ends, SweepSleeps, Due, Idle
<1>4. CASE sweep_begin
  BY <1>4 DEF sweep_begin, SweepSleeps, Due
<1>5. CASE sweep_end \/ sweep_aborted
  BY <1>5 DEF sweep_end, sweep_aborted, SweepSleeps, Due
<1>6. ASSUME NEW r \in Session, sweep_probe(r) PROVE Goal
  <2>1. /\ daemon' = daemon /\ todo' = todo \ {r} /\ task[Sweep].pc = "probe"
        /\ daemon # "down"
    BY <1>6 DEF sweep_probe, SweepSleeps
  <2>2. ASSUME proc[r] = "alive", Due(r) PROVE Due(r)' \/ Arming(Sweep, r)'
    <3>1. CASE Continue(Sweep, r, "rewatch", NoRow)
      BY <1>0, <3>1 DEF Continue, Arming, TypeOK
    <3>2. CASE Return(Sweep, FALSE)
      <4>1. task'[Sweep].pc = "aborted"
        BY <1>0, <3>2 DEF Return, returned, Idle, TypeOK
      <4>2. daemon' = "starting"
        BY <2>1, <2>2 DEF Due
      <4> QED BY <4>1, <4>2 DEF Due
    <3> QED BY <1>6, <2>2, <3>1, <3>2 DEF sweep_probe
  <2>3. \A s \in Session : s # r /\ Due(s) => Due(s)'
    BY <2>1 DEF Due
  <2>4. SweepSleeps'
    BY <2>1 DEF SweepSleeps
  <2> QED BY <2>2, <2>3, <2>4
<1> QED BY <1>1, <1>2, <1>3, <1>4, <1>5, <1>6, SweepStep DEF Sweeping

\* Which processes are alive after a step.
LEMMA AliveBefore ==
  ASSUME IInv, IInv', Forward, NEW s \in Session, proc'[s] = "alive"
  PROVE  proc[s] = "alive" \/ proc[s] = "none"
BY DEF Forward, IInv, TypeInv, TypeOK

\* A step that leaves the watchers and the tasks that they are for alone keeps
\* what is known of them.
LEMMA WatchFrame ==
  ASSUME IInv, IInv', SweepSleeps, [Next]_vars, Forward,
         WatcherWaits, LiveIsCovered, watcher' = watcher,
         \A s \in Session : watcher[s] # Nobody /\ proc[s] = "alive" /\ proc'[s] = "alive"
           => task'[watcher[s]] = task[watcher[s]],
         \A s \in Session : row'[s].state = "Running" =>
           row[s].state = "Running" \/ \E t \in Task : Arming(t, s)',
         \A t \in Task : \A s \in Session : Arming(t, s) => Arming(t, s)'
  PROVE  WatcherWaits' /\ LiveIsCovered'
<1>1. WatcherWaits'
  <2> SUFFICES ASSUME NEW s \in Session, watcher'[s] # Nobody
      PROVE  /\ proc'[s] \in Begun
             /\ proc'[s] = "alive" => /\ task'[watcher'[s]].pc = "armed"
                                      /\ task'[watcher'[s]].session = s
    BY DEF WatcherWaits
  <2>1. watcher[s] # Nobody /\ proc[s] \in Begun /\ proc'[s] \in Begun
    BY DEF WatcherWaits, Forward
  <2>2. proc'[s] = "alive" => proc[s] = "alive"
    BY <2>1, AliveBefore DEF Begun
  <2> QED BY <2>1, <2>2 DEF WatcherWaits
<1>2. LiveIsCovered'
  <2> SUFFICES ASSUME NEW s \in Session, row'[s].state = "Running", proc'[s] = "alive"
      PROVE  watcher'[s] # Nobody \/ Due(s)' \/ \E t \in Task : Arming(t, s)'
    BY DEF LiveIsCovered
  <2>1. CASE row[s].state = "Running"
    <3>1. proc[s] = "alive"
      BY <2>1, AliveBefore DEF IInv, Evidence, StoreIsTrue, Begun
    <3>2. watcher[s] # Nobody \/ Due(s) \/ \E t \in Task : Arming(t, s)
      BY <2>1, <3>1 DEF LiveIsCovered
    <3> QED BY <2>1, <3>1, <3>2, DueStep
  <2>2. CASE row[s].state # "Running"
    BY <2>2
  <2> QED BY <2>1, <2>2
<1> QED BY <1>1, <1>2

\* Every step keeps the watch if no thread's wait fails.
LEMMA WatchStep ==
  ASSUME "poll" \notin Faults, IInv, IInv', WatchInv, [Next]_vars
  PROVE  WatchInv'
<1> USE TaskNames
<1>0. /\ TypeOK /\ CopyFits /\ SweepSleeps /\ RewatchIsTrue /\ WatcherWaits
      /\ LiveIsCovered /\ Shape /\ Forward
  BY StepShape DEF IInv, TypeInv, WatchInv
<1>a. CopyFits' /\ SweepSleeps'
  BY <1>0, CopyFitsStep, DueStep
<1>b. RewatchIsTrue'
  <2> SUFFICES ASSUME NEW x \in Task, NEW s \in Session,
                      task'[x].pc = "rewatch", task'[x].session = s
      PROVE  proc[s] \in Begun
    BY <1>0 DEF RewatchIsTrue, Forward
  <2>1. CASE task'[x] = task[x]
    BY <1>0, <2>1 DEF RewatchIsTrue
  <2>2. CASE task'[x] # task[x]
    <3>1. CASE \E t \in Task : Calm(t)
      BY <2>2, <3>1 DEF Calm, CalmMove, Alone
    <3>2. CASE ~\E t \in Task : Calm(t)
      BY <1>0, <2>2, <3>2
      DEF Shape, Writes, Arms, Claims, Appends, Inserts, Cancels, Sends, Ends, Alone,
          Resting
    <3> QED BY <3>1, <3>2
  <2> QED BY <2>1, <2>2
<1>c. \A s \in Session : watcher[s] # Nobody => watcher[s] \in Task
  BY <1>0 DEF TypeOK
<1> SUFFICES WatcherWaits' /\ LiveIsCovered'
  BY <1>a, <1>b DEF WatchInv
<1>1. ASSUME NEW t \in Task, Calm(t) PROVE WatcherWaits' /\ LiveIsCovered'
  <2>1. \A s \in Session : watcher[s] # Nobody /\ proc[s] = "alive" /\ proc'[s] = "alive"
          => task'[watcher[s]] = task[watcher[s]]
    BY <1>0, <1>1, <1>c DEF Calm, CalmMove, Alone, WatcherWaits
  <2>2. \A x \in Task : \A s \in Session : Arming(x, s) => Arming(x, s)'
    BY <1>1 DEF Calm, CalmMove, Alone, Arming
  <2> QED BY <1>0, <1>1, <2>1, <2>2, WatchFrame DEF Calm
<1>2. ASSUME NEW t \in Task, Writes(t) PROVE WatcherWaits' /\ LiveIsCovered'
  <2>1. \A s \in Session : watcher[s] # Nobody /\ proc[s] = "alive" /\ proc'[s] = "alive"
          => task'[watcher[s]] = task[watcher[s]]
    BY <1>0, <1>2, <1>c DEF Writes, Alone, WatcherWaits
  <2>2. \A x \in Task : \A s \in Session : Arming(x, s) => Arming(x, s)'
    BY <1>2 DEF Writes, Alone, Arming
  <2>3. ASSUME NEW s \in Session, row'[s].state = "Running"
        PROVE  row[s].state = "Running" \/ \E x \in Task : Arming(x, s)'
    BY <1>0, <1>2, <2>3 DEF Writes, Arming, TypeOK
  <2> QED BY <1>0, <1>2, <2>1, <2>2, <2>3, WatchFrame DEF Writes
<1>3. ASSUME NEW t \in Task, Appends(t) PROVE WatcherWaits' /\ LiveIsCovered'
  <2>1. \A s \in Session : watcher[s] # Nobody /\ proc[s] = "alive" /\ proc'[s] = "alive"
          => task'[watcher[s]] = task[watcher[s]]
    BY <1>0, <1>3, <1>c DEF Appends, Alone, WatcherWaits
  <2>2. \A x \in Task : \A s \in Session : Arming(x, s) => Arming(x, s)'
    BY <1>3 DEF Appends, Alone, Arming
  <2> QED BY <1>0, <1>3, <2>1, <2>2, WatchFrame DEF Appends
<1>4. ASSUME NEW h \in Spawner, Inserts(h) \/ Cancels(h)
      PROVE  WatcherWaits' /\ LiveIsCovered'
  <2>1. \A s \in Session : watcher[s] # Nobody /\ proc[s] = "alive" /\ proc'[s] = "alive"
          => task'[watcher[s]] = task[watcher[s]]
    BY <1>0, <1>4, <1>c DEF Inserts, Cancels, Alone, WatcherWaits
  <2>2. \A x \in Task : \A s \in Session : Arming(x, s) => Arming(x, s)'
    BY <1>4 DEF Inserts, Cancels, Alone, Arming
  <2>3. \A s \in Session : row'[s].state = "Running" => row[s].state = "Running"
    BY <1>0, <1>4 DEF Inserts, Cancels, TypeOK, forking, NoRow
  <2> QED BY <1>0, <1>4, <2>1, <2>2, <2>3, WatchFrame DEF Inserts, Cancels
<1>5. ASSUME NEW r \in Session, NEW h \in Spawner, Sends(r, h)
      PROVE  WatcherWaits' /\ LiveIsCovered'
  <2>1. \A s \in Session : watcher[s] # Nobody /\ proc[s] = "alive" /\ proc'[s] = "alive"
          => task'[watcher[s]] = task[watcher[s]]
    BY <1>0, <1>5, <1>c DEF Sends, Alone, WatcherWaits
  <2>2. \A x \in Task : \A s \in Session : Arming(x, s) => Arming(x, s)'
    BY <1>5 DEF Sends, Alone, Arming
  <2> QED BY <1>0, <1>5, <2>1, <2>2, WatchFrame DEF Sends
<1>6. CASE Ends
  BY <1>6 DEF Ends, WatcherWaits, LiveIsCovered, Due
<1>7. ASSUME NEW t \in Task, Claims(t) PROVE WatcherWaits' /\ LiveIsCovered'
  <2>0. PICK q \in Session : q = task[t].session
    BY <1>7 DEF Claims
  <2>1. /\ proc[q] = "dead" /\ watcher'[q] = Nobody /\ UNCHANGED <<row, proc>>
        /\ \A s \in Session : s # q => watcher'[s] = watcher[s]
        /\ Alone(t) /\ task[t].pc = "finish"
    BY <1>0, <1>7, <2>0
    DEF Claims, CopyFits, IInv, Evidence, ConclusionIsTrue, TypeOK
  <2>2. WatcherWaits'
    BY <1>0, <1>c, <2>1 DEF WatcherWaits, Alone
  <2>3. \A x \in Task : \A s \in Session : Arming(x, s) => Arming(x, s)'
    BY <2>1 DEF Alone, Arming
  <2>4. LiveIsCovered'
    <3> SUFFICES ASSUME NEW s \in Session, row[s].state = "Running", proc[s] = "alive"
        PROVE  watcher'[s] # Nobody \/ Due(s)' \/ \E x \in Task : Arming(x, s)'
      BY <2>1 DEF LiveIsCovered
    <3>1. watcher[s] # Nobody \/ Due(s) \/ \E x \in Task : Arming(x, s)
      BY <1>0 DEF LiveIsCovered
    <3> QED BY <1>0, <2>1, <2>3, <3>1, DueStep
  <2> QED BY <2>2, <2>4
<1>8. ASSUME NEW t \in Task, Arms(t) PROVE WatcherWaits' /\ LiveIsCovered'
  <2>0. PICK q \in Session : q = task[t].session
    BY <1>8 DEF Arms
  <2>1. task[t].pc \in {"watch", "rewatch"} /\ UNCHANGED <<row, proc>>
    BY <1>8 DEF Arms
  <2>2. proc[q] \in Begun
    BY <1>0, <2>0, <2>1 DEF CopyFits, RewatchIsTrue, IInv, Evidence, ConclusionIsTrue
  <2>3. /\ \A s \in Session : s # q => watcher'[s] = watcher[s]
        /\ watcher'[q] # Nobody \/ proc[q] = "dead"
    BY <1>0, <1>8, <2>0, ConstantsDisjoint DEF Arms, TypeOK
  <2>4. WatcherWaits'
    <3>1. CASE Alone(t) /\ watcher' = watcher
      BY <1>0, <1>c, <2>1, <3>1 DEF WatcherWaits, Alone
    <3>2. CASE \E w \in Watcher :
                 /\ w # t /\ task[w].pc = "idle"
                 /\ task'[w].pc = "armed" /\ task'[w].session = q
                 /\ \A x \in Task : x # t /\ x # w => task'[x] = task[x]
                 /\ watcher' = [watcher EXCEPT ![q] = w]
      <4>1. PICK w \in Watcher :
              /\ task[w].pc = "idle" /\ task'[w].pc = "armed" /\ task'[w].session = q
              /\ \A x \in Task : x # t /\ x # w => task'[x] = task[x]
              /\ watcher' = [watcher EXCEPT ![q] = w]
        BY <3>2
      <4>2. watcher'[q] = w
        BY <1>0, <4>1 DEF TypeOK
      <4> QED BY <1>0, <1>c, <2>1, <2>2, <2>3, <4>1, <4>2 DEF WatcherWaits
    <3> QED BY <1>8, <2>0, <3>1, <3>2 DEF Arms
  <2>5. \A x \in Task : \A s \in Session : s # q /\ Arming(x, s) => Arming(x, s)'
    BY <1>8, <2>0 DEF Arms, Alone, Arming
  <2>6. LiveIsCovered'
    <3> SUFFICES ASSUME NEW s \in Session, row[s].state = "Running", proc[s] = "alive"
        PROVE  watcher'[s] # Nobody \/ Due(s)' \/ \E x \in Task : Arming(x, s)'
      BY <2>1 DEF LiveIsCovered
    <3>1. CASE s = q
      BY <2>3, <3>1
    <3>2. CASE s # q
      <4>1. watcher[s] # Nobody \/ Due(s) \/ \E x \in Task : Arming(x, s)
        BY <1>0 DEF LiveIsCovered
      <4> QED BY <1>0, <2>3, <2>5, <3>2, <4>1, DueStep
    <3> QED BY <3>1, <3>2
  <2> QED BY <2>4, <2>6
<1> QED BY <1>0, <1>1, <1>2, <1>3, <1>4, <1>5, <1>6, <1>7, <1>8 DEF Shape

\* A Running session with a live runtime has an armed watcher whenever the daemon
\* accepts requests and no task is busy with it: every way to a Running row and every
\* daemon start arms one, and only the end of the runtime, or a failing wait of the
\* watching thread, takes it away.
THEOREM LiveHasWatcher == Spec => []LiveIsWatched
<1> DEFINE Watched == "poll" \in Faults \/ WatchInv
<1>1. Init => Watched
  <2> SUFFICES ASSUME Init PROVE WatchInv
    OBVIOUS
  <2>1. (\A t \in Task : task[t].pc = "idle") /\ CopyFits
    BY EndInit DEF Init, Idle, EndInv
  <2>2. \A s \in Session : watcher[s] = Nobody /\ row[s].state = "None"
    BY DEF Init, NoRow
  <2> QED BY <2>1, <2>2, TaskNames
    DEF WatchInv, SweepSleeps, RewatchIsTrue, WatcherWaits, LiveIsCovered
<1>2. IInv /\ IInv' /\ Watched /\ [Next]_vars => Watched'
  BY WatchStep
<1>3. IInv /\ Watched => LiveIsWatched
  <2> SUFFICES ASSUME WatchInv, NEW s \in Session, daemon = "up", Quiet(s),
                      row[s].state = "Running", proc[s] = "alive"
      PROVE  watcher[s] # Nobody /\ task[watcher[s]].pc = "armed"
    BY DEF LiveIsWatched
  <2>1. \A t \in Task : ~Arming(t, s)
    BY DEF Quiet, Arming
  <2>2. ~Due(s)
    BY DEF Due
  <2> QED BY <2>1, <2>2 DEF WatchInv, LiveIsCovered, WatcherWaits
<1> HIDE DEF Watched
<1> QED BY <1>1, <1>2, <1>3, Invariance, PTL DEF Spec
=============================================================================
