----------------------------- MODULE RtmdProofs -----------------------------
(***************************************************************************)
(* Proofs about Rtmd for any number of sessions, spawn requests, watchers, *)
(* attempts and crashes.                                                   *)
(***************************************************************************)
EXTENDS Rtmd, TLAPS

\* The states in which a runtime has been started.
Begun == {"alive", "dead"}

\* A task that is doing something for a session knows which one; only the
\* sweep is ever between two sessions.
BusyHasSession ==
  \A t \in Task :
    /\ task[t].pc \notin {"idle", "probe", "aborted"} => task[t].session \in Session
    /\ task[t].pc \in {"probe", "aborted"} => t = Sweep

\* A task on its way to write or to report has a marked copy.
CopyIsMarked ==
  \A t \in Task :
    task[t].pc \in {"update", "watch", "finish", "append"}
    => task[t].lifecycle.state \in {"Running", "Exited", "Lost"}

\* What a task has concluded about its session is true of the process.
ConclusionIsTrue ==
  \A t \in Task : \A s \in Session : task[t].session = s =>
    /\ task[t].lifecycle.state \in Terminal => proc[s] = "dead"
    /\ task[t].pc \in {"fired", "process_exit", "shim_died"} => proc[s] = "dead"
    /\ task[t].lifecycle.state = "Running" => proc[s] \in Begun
    /\ task[t].pc = "received" => proc[s] \in Begun

\* A shim past its launch call has a runtime, one past its wait a dead one.
ShimIsTrue ==
  \A s \in Session :
    /\ shim[s].pc \in {"ready", "wait", "exit", "resumed"} => proc[s] \in Begun
    /\ shim[s].pc \in {"exit", "resumed"} => proc[s] = "dead"

\* The handler of a shim's call exists while the shim waits for the answer.
HandlerServes ==
  \A s \in Session : task[s].pc # "idle" =>
    task[s].session = s /\ shim[s].pc \in {"ready", "exit", "dead"}

\* What the store, the sweep and the launch map say about the process.
StoreIsTrue ==
  \A s \in Session :
    /\ row[s].state = "None" => proc[s] = "none" /\ shim[s].pc = "none"
    /\ s \in launches => proc[s] = "none"
    /\ row[s].state = "Running" => proc[s] \in Begun
    /\ s \in todo => proc[s] \in Begun

\* A handler that is about to launch the shim is the only one.
LaunchIsAlone ==
  \A h \in Spawner : \A s \in Session :
    task[h].pc = "launching" /\ task[h].session = s =>
      /\ row[s].state # "None" /\ shim[s].pc = "none" /\ proc[s] = "none"
      /\ sender[s] = h

\* A registered sender belongs to a handler of that session.
SenderIsHandler ==
  \A s \in Session : sender[s] # Nobody =>
    task[sender[s]].session = s /\ task[sender[s]].pc # "idle"

TypeInv == TypeOK /\ BusyHasSession

Evidence ==
  /\ CopyIsMarked /\ ConclusionIsTrue /\ ShimIsTrue /\ HandlerServes
  /\ StoreIsTrue /\ LaunchIsAlone /\ SenderIsHandler /\ SenderHasRow /\ NoFalseEnd

IInv == TypeInv /\ Evidence

-----------------------------------------------------------------------------
(* Type correctness.                                                       *)

\* The rows that begin a session or say that there is none.
LEMMA FirstRows == NoRow \in Row /\ forking \in Row
BY DEF Row, LifecycleState, NoRow, forking

\* Marking a row gives a row in the state that the mark says.
LEMMA RowTypes ==
  ASSUME NEW l \in Row
  PROVE  /\ mark_running(l) \in Row /\ mark_exited(l) \in Row /\ mark_lost(l) \in Row
         /\ mark_running(l).state = "Running"
         /\ mark_exited(l).state = "Exited" /\ mark_lost(l).state = "Lost"
BY DEF Row, LifecycleState, mark_running, mark_exited, mark_lost

\* An idle task is a task.
LEMMA IdleType == Idle \in TaskState
BY FirstRows DEF Idle, TaskState, TaskPc

\* A retried call keeps its attempts below the limit (reconnecting).
LEMMA AnsweredType ==
  ASSUME NEW c \in ShimState, NEW ok \in BOOLEAN
  PROVE  /\ answered(c, ok) \in ShimState
         /\ call_failed(c) \in ShimState
         /\ c.pc \in Calling => call_ok(c) \in ShimState
<1>1. call_failed(c) \in ShimState
  BY BoundsAreNaturals DEF call_failed, ShimState, ShimPc, Calling
<1>2. c.pc \in Calling => call_ok(c) \in ShimState
  BY BoundsAreNaturals DEF call_ok, ShimState, ShimPc, Calling
<1> QED BY <1>1, <1>2 DEF answered

\* The daemon's reply to a shim keeps the shims well-typed.
LEMMA ReplyType ==
  ASSUME TypeInv, NEW t \in Task, NEW ok \in BOOLEAN
  PROVE  reply(t, ok) \in [Session -> ShimState]
<1>1. CASE t \in Session
  <2>1. answered(shim[t], ok) \in ShimState
    BY <1>1, AnsweredType DEF TypeInv, TypeOK
  <2> QED BY <1>1, <2>1 DEF reply, TypeInv, TypeOK
<1>2. CASE t \notin Session
  BY <1>2 DEF reply, TypeInv, TypeOK
<1> QED BY <1>1, <1>2

\* What a task is once it has returned.
LEMMA ReturnedType ==
  ASSUME TypeInv, NEW t \in Task, NEW ok \in BOOLEAN,
         t \in Spawner => task[t].session \in Session
  PROVE  /\ returned(t, ok) \in TaskState
         /\ returned(t, ok).pc \notin {"idle", "probe", "aborted"}
            => returned(t, ok).session \in Session
         /\ returned(t, ok).pc \in {"probe", "aborted"} => t = Sweep
<1>1. CASE t \in Spawner
  <2> DEFINE pc == IF ok THEN "spawned" ELSE "failed"
  <2>1. returned(t, ok) = [task[t] EXCEPT !.pc = pc, !.lifecycle = NoRow]
    BY <1>1 DEF returned
  <2>2. task[t] \in TaskState /\ pc \in TaskPc /\ pc \notin {"probe", "aborted"}
    BY DEF TypeInv, TypeOK, TaskPc
  <2> HIDE DEF pc
  <2> DEFINE k == [task[t] EXCEPT !.pc = pc, !.lifecycle = NoRow]
  <2>3. k \in TaskState /\ k.pc = pc /\ k.session = task[t].session
    BY <2>2, FirstRows DEF TaskState
  <2> HIDE DEF k
  <2>4. returned(t, ok) = k
    BY <2>1 DEF k
  <2> QED BY <1>1, <2>2, <2>3, <2>4
<1>2. CASE t \notin Spawner
  BY <1>2, IdleType DEF returned, Idle, TaskState, TaskPc
<1> QED BY <1>1, <1>2

\* A task that returns leaves tasks and shims well-typed.
LEMMA ReturnType ==
  ASSUME TypeInv, NEW t \in Task, NEW ok \in BOOLEAN, Return(t, ok),
         t \in Spawner => task[t].session \in Session
  PROVE  /\ task' \in [Task -> TaskState]
         /\ shim' \in [Session -> ShimState]
         /\ BusyHasSession'
<1>1. returned(t, ok) \in TaskState
  BY ReturnedType
<1>2. task' \in [Task -> TaskState]
  BY <1>1 DEF Return, TypeInv, TypeOK
<1>3. shim' \in [Session -> ShimState]
  BY ReplyType DEF Return
<1>4. /\ returned(t, ok).pc \notin {"idle", "probe", "aborted"}
         => returned(t, ok).session \in Session
      /\ returned(t, ok).pc \in {"probe", "aborted"} => t = Sweep
  BY ReturnedType
<1>5. BusyHasSession'
  BY <1>4 DEF Return, TypeInv, TypeOK, BusyHasSession
<1> QED BY <1>2, <1>3, <1>5

\* A task that goes on for a session is well-typed.
LEMMA ContinueType ==
  ASSUME TypeInv, NEW t \in Task, NEW s \in Session, NEW l \in Row,
         NEW pc \in TaskPc \ {"probe", "aborted"}, Continue(t, s, pc, l)
  PROVE  task' \in [Task -> TaskState] /\ BusyHasSession'
BY DEF Continue, TypeInv, TypeOK, BusyHasSession, TaskState

\* A task that only changes its program counter is well-typed.
LEMMA PcType ==
  ASSUME TypeInv, NEW t \in Task, NEW pc \in TaskPc \ {"probe", "aborted"},
         task[t].session \in Session,
         task' = [task EXCEPT ![t].pc = pc]
  PROVE  task' \in [Task -> TaskState] /\ BusyHasSession'
BY DEF TypeInv, TypeOK, BusyHasSession, TaskState

\* record_exited and record_lost leave tasks and shims well-typed.
LEMMA RecordType ==
  ASSUME TypeInv, NEW t \in Task \ Spawner, NEW s \in Session,
         record_exited(t, s) \/ record_lost(t, s)
  PROVE  /\ task' \in [Task -> TaskState]
         /\ shim' \in [Session -> ShimState]
         /\ BusyHasSession'
<1>1. CASE \E ok \in BOOLEAN : Return(t, ok)
  BY <1>1, ReturnType
<1>2. CASE ~\E ok \in BOOLEAN : Return(t, ok)
  <2>1. shim' = shim /\ \E l \in {mark_exited(row[s]), mark_lost(row[s])} :
                          Continue(t, s, "update", l)
    BY <1>2 DEF record_exited, record_lost
  <2>2. row[s] \in Row
    BY DEF TypeInv, TypeOK
  <2>3. task' \in [Task -> TaskState] /\ BusyHasSession'
    BY <2>1, <2>2, ContinueType, RowTypes DEF TaskPc
  <2> QED BY <2>1, <2>3 DEF TypeInv, TypeOK
<1> QED BY <1>1, <1>2

\* The tasks that Next quantifies over are tasks, and their names differ.
LEMMA TaskNames ==
  /\ Session \subseteq Task /\ Spawner \subseteq Task /\ Watcher \subseteq Task
  /\ Sweep \in Task
  /\ Sweep \notin Session /\ Sweep \notin Spawner /\ Sweep \notin Watcher
BY ConstantsDisjoint DEF Task

\* Every step of Next keeps the types.
LEMMA TypeStep == TypeInv /\ [Next]_vars => TypeInv'
<1> SUFFICES ASSUME TypeInv, [Next]_vars PROVE TypeInv'
  OBVIOUS
<1> USE TaskNames
<1>1. ASSUME NEW h \in Spawner, NEW s \in Session, check_session(h, s)
      PROVE  TypeInv'
  <2>1. task' \in [Task -> TaskState] /\ BusyHasSession'
    BY <1>1, ContinueType, FirstRows DEF check_session, TaskPc
  <2> QED BY <1>1, <2>1 DEF check_session, TypeInv, TypeOK, memory
<1>2. ASSUME NEW h \in Spawner, insert_forking(h) PROVE TypeInv'
  <2>1. task[h].session \in Session
    BY <1>2 DEF insert_forking, TypeInv, BusyHasSession
  <2>2. task' \in [Task -> TaskState] /\ BusyHasSession'
    <3>1. PICK pc \in {"failed", "launching"} : task' = [task EXCEPT ![h].pc = pc]
      BY <1>2 DEF insert_forking
    <3> QED BY <2>1, <3>1, PcType DEF TaskPc
  <2> QED BY <1>2, <2>1, <2>2, FirstRows DEF insert_forking, TypeInv, TypeOK
<1>3. ASSUME NEW h \in Spawner, launch_shim(h) PROVE TypeInv'
  <2>1. task[h].session \in Session
    BY <1>3 DEF launch_shim, TypeInv, BusyHasSession
  <2>2. task' \in [Task -> TaskState] /\ BusyHasSession'
    BY <1>3, <2>1, PcType DEF launch_shim, TaskPc
  <2>3. shim' \in [Session -> ShimState]
    <3>1. [shim[task[h].session] EXCEPT !.pc = "launch"] \in ShimState
      <4>1. shim[task[h].session] \in ShimState
        BY <2>1 DEF TypeInv, TypeOK
      <4> QED BY <4>1 DEF ShimState, ShimPc, Calling
    <3> QED BY <1>3, <2>1, <3>1 DEF launch_shim, TypeInv, TypeOK
  <2> QED BY <1>3, <2>2, <2>3 DEF launch_shim, TypeInv, TypeOK, memory
<1>4. ASSUME NEW h \in Spawner, cancel_spawn(h) PROVE TypeInv'
  <2>1. task[h].session \in Session
    BY <1>4 DEF cancel_spawn, TypeInv, BusyHasSession
  <2>2. task' \in [Task -> TaskState] /\ BusyHasSession'
    BY <1>4, <2>1, PcType DEF cancel_spawn, TaskPc
  <2> QED BY <1>4, <2>1, <2>2, FirstRows DEF cancel_spawn, TypeInv, TypeOK
<1>5. ASSUME NEW h \in Spawner, ready_timeout(h) PROVE TypeInv'
  <2>1. task' \in [Task -> TaskState] /\ BusyHasSession'
    BY <1>5, PcType DEF ready_timeout, TaskPc, TypeInv, BusyHasSession
  <2> QED BY <1>5, <2>1 DEF ready_timeout, TypeInv, TypeOK, memory
<1>6. ASSUME NEW h \in Spawner, drop_receiver(h) PROVE TypeInv'
  <2>1. h \notin Session
    BY ConstantsDisjoint
  <2>2. Return(h, FALSE)
    BY <1>6, <2>1 DEF drop_receiver, Return, reply
  <2>3. task' \in [Task -> TaskState] /\ BusyHasSession'
    BY <1>6, <2>2, ReturnType DEF drop_receiver, TypeInv, BusyHasSession
  <2> QED BY <1>6, <2>3 DEF drop_receiver, TypeInv, TypeOK, memory
<1>7. ASSUME NEW h \in Spawner, record_running(h) PROVE TypeInv'
  <2>1. task[h].session \in Session
    BY <1>7 DEF record_running, TypeInv, BusyHasSession
  <2>2. row[task[h].session] \in Row
    BY <2>1 DEF TypeInv, TypeOK
  <2>3. /\ task' \in [Task -> TaskState] /\ BusyHasSession'
        /\ shim' \in [Session -> ShimState]
    <3>1. CASE Return(h, FALSE)
      BY <2>1, <3>1, ReturnType
    <3>2. CASE ~Return(h, FALSE)
      <4>1. /\ Continue(h, task[h].session, "update", mark_running(row[task[h].session]))
            /\ shim' = shim
        BY <1>7, <3>2 DEF record_running
      <4>2. task' \in [Task -> TaskState] /\ BusyHasSession'
        BY <2>1, <2>2, <4>1, ContinueType, RowTypes DEF TaskPc
      <4> QED BY <4>1, <4>2 DEF TypeInv, TypeOK
    <3> QED BY <3>1, <3>2
  <2> QED BY <1>7, <2>3 DEF record_running, TypeInv, TypeOK, memory
<1>8. ASSUME NEW t \in Task, update_lifecycle(t) PROVE TypeInv'
  <2>1. task[t].session \in Session /\ task[t].lifecycle \in Row
    BY <1>8 DEF update_lifecycle, TypeInv, TypeOK, BusyHasSession, TaskState
  <2>2. CASE row[task[t].session].state = "None"
    <3>1. Return(t, FALSE) /\ row' = row
      BY <1>8, <2>2 DEF update_lifecycle
    <3> QED BY <1>8, <2>1, <3>1, ReturnType DEF update_lifecycle, TypeInv, TypeOK, memory
  <2>3. CASE row[task[t].session].state # "None"
    <3>1. PICK pc \in {"watch", "finish"} : task' = [task EXCEPT ![t].pc = pc]
      BY <1>8, <2>3 DEF update_lifecycle
    <3>2. task' \in [Task -> TaskState] /\ BusyHasSession'
      BY <2>1, <3>1, PcType DEF TaskPc
    <3>3. row' \in [Session -> Row] /\ shim' = shim
      BY <1>8, <2>1, <2>3 DEF update_lifecycle, TypeInv, TypeOK
    <3> QED BY <1>8, <3>2, <3>3 DEF update_lifecycle, TypeInv, TypeOK, memory
  <2> QED BY <2>2, <2>3
<1>9. ASSUME NEW t \in Task, start_exit_watcher(t) PROVE TypeInv'
  <2> DEFINE s == task[t].session
             next == IF task[t].pc = "watch" THEN [task[t] EXCEPT !.pc = "append"]
                     ELSE returned(t, TRUE)
  <2>1. s \in Session
    BY <1>9 DEF start_exit_watcher, TypeInv, BusyHasSession
  <2>2. /\ next \in TaskState
        /\ next.pc \notin {"idle", "probe", "aborted"} => next.session \in Session
        /\ next.pc \in {"probe", "aborted"} => t = Sweep
    <3>1. CASE task[t].pc = "watch"
      BY <2>1, <3>1 DEF TypeInv, TypeOK, TaskState, TaskPc
    <3>2. CASE task[t].pc # "watch"
      BY <2>1, <3>2, ReturnedType
    <3> QED BY <3>1, <3>2
  <2>3. shim' \in [Session -> ShimState]
    <3>1. shim' = shim \/ shim' = reply(t, TRUE) \/ shim' = reply(t, FALSE)
      BY <1>9 DEF start_exit_watcher, Return
    <3>2. reply(t, TRUE) \in [Session -> ShimState] /\ reply(t, FALSE) \in [Session -> ShimState]
      BY ReplyType
    <3> QED BY <3>1, <3>2 DEF TypeInv, TypeOK
  <2>4. /\ task' \in [Task -> TaskState] /\ BusyHasSession'
        /\ watcher' \in [Session -> Watcher \cup {Nobody}]
    <3>1. CASE watcher' = watcher /\ task' = [task EXCEPT ![t] = next]
      BY <2>2, <3>1 DEF TypeInv, TypeOK, BusyHasSession
    <3>2. CASE \E w \in Watcher : arm(w, s, t, next)
      <4>1. PICK w \in Watcher : arm(w, s, t, next)
        BY <3>2
      <4> DEFINE armed == [pc |-> "armed", session |-> s, lifecycle |-> NoRow]
      <4>2. armed \in TaskState
        BY <2>1, FirstRows DEF TaskState, TaskPc
      <4>3. task' = [[task EXCEPT ![w] = armed] EXCEPT ![t] = next]
        BY <4>1 DEF arm
      <4> HIDE DEF next
      <4>4. task' \in [Task -> TaskState]
        BY <2>2, <4>2, <4>3 DEF TypeInv, TypeOK
      <4>5. \A x \in Task : task'[x] = IF x = t THEN next
                                      ELSE IF x = w THEN armed ELSE task[x]
        BY <4>3 DEF TypeInv, TypeOK
      <4>6. BusyHasSession'
        BY <2>1, <2>2, <4>5 DEF TypeInv, BusyHasSession
      <4>7. watcher' \in [Session -> Watcher \cup {Nobody}]
        BY <2>1, <4>1 DEF arm, TypeInv, TypeOK
      <4> QED BY <4>4, <4>6, <4>7
    <3>3. CASE Return(t, FALSE) /\ watcher' = watcher
      BY <2>1, <3>3, ReturnType DEF TypeInv, TypeOK
    <3> QED BY <1>9, <3>1, <3>2, <3>3 DEF start_exit_watcher
  <2> QED BY <1>9, <2>3, <2>4 DEF start_exit_watcher, TypeInv, TypeOK
<1>10. ASSUME NEW t \in Task, finish_terminal(t) PROVE TypeInv'
  <2>1. task[t].session \in Session
    BY <1>10 DEF finish_terminal, TypeInv, BusyHasSession
  <2>2. /\ task' \in [Task -> TaskState] /\ BusyHasSession'
        /\ shim' \in [Session -> ShimState]
    <3>1. CASE Return(t, TRUE)
      BY <2>1, <3>1, ReturnType
    <3>2. CASE ~Return(t, TRUE)
      <4>1. task' = [task EXCEPT ![t].pc = "append"] /\ shim' = shim
        BY <1>10, <3>2 DEF finish_terminal
      <4>2. task' \in [Task -> TaskState] /\ BusyHasSession'
        BY <2>1, <4>1, PcType DEF TaskPc
      <4> QED BY <4>1, <4>2 DEF TypeInv, TypeOK
    <3> QED BY <3>1, <3>2
  <2> QED BY <1>10, <2>1, <2>2 DEF finish_terminal, TypeInv, TypeOK
<1>11. ASSUME NEW t \in Task, append_event(t) PROVE TypeInv'
  <2>1. task[t].session \in Session
    BY <1>11 DEF append_event, TypeInv, BusyHasSession
  <2>2. /\ task' \in [Task -> TaskState] /\ BusyHasSession'
        /\ shim' \in [Session -> ShimState]
    <3>1. task' = [task EXCEPT ![t].pc = "reply"] /\ shim' = shim
      BY <1>11 DEF append_event
    <3>2. task' \in [Task -> TaskState] /\ BusyHasSession'
      BY <2>1, <3>1, PcType DEF TaskPc
    <3> QED BY <3>1, <3>2 DEF TypeInv, TypeOK
  <2> DEFINE e == [session |-> task[t].session,
                   kind |-> event_kind(task[t].lifecycle), incarnation |-> crashes]
  <2>3. event_kind(task[t].lifecycle) \in {"Running", "Terminated", "Lost"}
    BY DEF event_kind
  <2>4. e \in Event
    BY <2>1, <2>3 DEF Event, TypeInv, TypeOK
  <2>5. log' \in Seq(Event)
    BY <1>11, <2>4 DEF append_event, TypeInv, TypeOK
  <2> QED BY <1>11, <2>2, <2>5 DEF append_event, TypeInv, TypeOK, memory
<1>12. ASSUME NEW s \in Session, take_launch_spec(s) PROVE TypeInv'
  <2>1. shim' \in [Session -> ShimState]
    <3>1. shim[s] \in ShimState /\ shim[s].pc \in Calling
      BY <1>12 DEF take_launch_spec, TypeInv, TypeOK, Calling
    <3>2. [shim[s] EXCEPT !.pc = "dead"] \in ShimState
      BY <3>1 DEF ShimState, ShimPc
    <3>3. call_ok(shim[s]) \in ShimState /\ call_failed(shim[s]) \in ShimState
      BY <3>1, AnsweredType
    <3> QED BY <1>12, <3>2, <3>3 DEF take_launch_spec, TypeInv, TypeOK
  <2>2. BusyHasSession' /\ task' = task
    BY <1>12 DEF take_launch_spec, TypeInv, BusyHasSession
  <2>3. proc' \in [Session -> {"none", "alive", "dead"}]
    BY <1>12 DEF take_launch_spec, TypeInv, TypeOK
  <2> QED BY <1>12, <2>1, <2>2, <2>3 DEF take_launch_spec, TypeInv, TypeOK
<1>13. ASSUME NEW s \in Session, send_ready(s) PROVE TypeInv'
  <2>1. sender[s] \in Spawner
    BY <1>13 DEF send_ready, TypeInv, TypeOK
  <2>2. task' \in [Task -> TaskState] /\ BusyHasSession'
    <3>1. sender[s] \in Task
      BY <2>1, TaskNames
    <3>2. CASE task[sender[s]].pc = "waiting"
      <4>1. task' = [task EXCEPT ![sender[s]].pc = "received"]
        BY <1>13, <3>1, <3>2 DEF send_ready, TypeInv, TypeOK
      <4>2. task[sender[s]].session \in Session
        BY <3>1, <3>2 DEF TypeInv, BusyHasSession
      <4> QED BY <3>1, <4>1, <4>2, PcType DEF TaskPc
    <3>3. CASE task[sender[s]].pc # "waiting"
      <4>1. task' = task
        BY <1>13, <3>1, <3>3 DEF send_ready, TypeInv, TypeOK, TaskState
      <4> QED BY <4>1 DEF TypeInv, TypeOK, BusyHasSession
    <3> QED BY <3>2, <3>3
  <2>3. shim' \in [Session -> ShimState]
    <3>1. shim' = reply(s, TRUE) \/ shim' = reply(s, FALSE)
      BY <1>13 DEF send_ready, reply, answered
    <3>2. reply(s, TRUE) \in [Session -> ShimState] /\ reply(s, FALSE) \in [Session -> ShimState]
      BY ReplyType
    <3> QED BY <3>1, <3>2
  <2>4. sender' \in [Session -> Spawner \cup {Nobody}]
    BY <1>13 DEF send_ready, TypeInv, TypeOK
  <2> QED BY <1>13, <2>2, <2>3, <2>4 DEF send_ready, TypeInv, TypeOK
<1>14. ASSUME NEW s \in Session, record_reconnected_ready(s) PROVE TypeInv'
  <2>1. /\ task' \in [Task -> TaskState] /\ BusyHasSession'
        /\ shim' \in [Session -> ShimState]
    <3>1. CASE Return(s, FALSE)
      BY <3>1, ReturnType, ConstantsDisjoint
    <3>2. CASE ~Return(s, FALSE)
      <4>1. /\ shim' = shim
            /\ \E pc \in {"update", "rewatch"} : \E l \in {mark_running(row[s]), NoRow} :
                 Continue(s, s, pc, l)
        BY <1>14, <3>2 DEF record_reconnected_ready
      <4>2. row[s] \in Row
        BY DEF TypeInv, TypeOK
      <4>3. task' \in [Task -> TaskState] /\ BusyHasSession'
        BY <4>1, <4>2, ContinueType, RowTypes, FirstRows DEF TaskPc
      <4> QED BY <4>1, <4>3 DEF TypeInv, TypeOK
    <3> QED BY <3>1, <3>2
  <2> QED BY <1>14, <2>1 DEF record_reconnected_ready, TypeInv, TypeOK, memory
<1>15. ASSUME NEW s \in Session, record_shim_exit(s) PROVE TypeInv'
  <2>1. /\ task' \in [Task -> TaskState] /\ BusyHasSession'
        /\ shim' \in [Session -> ShimState]
    BY <1>15, RecordType, ConstantsDisjoint DEF record_shim_exit
  <2> QED BY <1>15, <2>1 DEF record_shim_exit, TypeInv, TypeOK, memory
<1>16. ASSUME NEW s \in Session,
              \/ wait_for_runtime(s) \/ connect_failed(s)
              \/ shim_end(s) \/ shim_killed(s)
       PROVE  TypeInv'
  <2>1. shim' \in [Session -> ShimState]
    <3>1. shim[s] \in ShimState
      BY DEF TypeInv, TypeOK
    <3>2. call_failed(shim[s]) \in ShimState
      BY <3>1, AnsweredType
    <3>3. /\ [shim[s] EXCEPT !.pc = "exit"] \in ShimState
          /\ [shim[s] EXCEPT !.pc = "dead"] \in ShimState
          /\ [pc |-> "dead", attempts |-> 0] \in ShimState
      BY <3>1, BoundsAreNaturals DEF ShimState, ShimPc, Calling
    <3> QED BY <1>16, <3>2, <3>3
      DEF wait_for_runtime, connect_failed, shim_end, shim_killed, TypeInv, TypeOK
  <2>2. UNCHANGED <<daemon, crashes, row, log, memory, task, todo, proc>>
    BY <1>16 DEF wait_for_runtime, connect_failed, shim_end, shim_killed
  <2> QED BY <2>1, <2>2 DEF TypeInv, TypeOK, BusyHasSession, memory
<1>17. ASSUME NEW s \in Session, runtime_exits(s) PROVE TypeInv'
  BY <1>17 DEF runtime_exits, TypeInv, TypeOK, BusyHasSession, memory
<1>18. ASSUME NEW w \in Watcher,
              watcher_fires(w) \/ watcher_cancelled(w) \/ watcher_lost(w)
                \/ watcher_evidence(w)
       PROVE  TypeInv'
  <2>1. task[w].session \in Session
    BY <1>18 DEF watcher_fires, watcher_cancelled, watcher_lost, watcher_evidence, TypeInv, BusyHasSession
  <2>2. \/ task' = [task EXCEPT ![w] = Idle]
        \/ \E pc \in {"fired", "process_exit", "shim_died"} :
             task' = [task EXCEPT ![w].pc = pc]
    BY <1>18 DEF watcher_fires, watcher_cancelled, watcher_lost, watcher_evidence, TypeInv, TypeOK
  <2>3. task' \in [Task -> TaskState] /\ BusyHasSession'
    <3>1. CASE task' = [task EXCEPT ![w] = Idle]
      BY <3>1, IdleType DEF TypeInv, TypeOK, BusyHasSession, Idle
    <3>2. CASE task' # [task EXCEPT ![w] = Idle]
      BY <2>1, <2>2, <3>2, PcType DEF TaskPc
    <3> QED BY <3>1, <3>2
  <2>4. UNCHANGED <<daemon, crashes, row, log, memory, todo, shim, proc>>
    BY <1>18 DEF watcher_fires, watcher_cancelled, watcher_lost, watcher_evidence
  <2> QED BY <2>3, <2>4 DEF TypeInv, TypeOK, memory
<1>19. ASSUME NEW w \in Watcher, record_watcher_exit(w) PROVE TypeInv'
  <2>1. task[w].session \in Session
    BY <1>19 DEF record_watcher_exit, TypeInv, BusyHasSession
  <2>2. /\ task' \in [Task -> TaskState] /\ BusyHasSession'
        /\ shim' \in [Session -> ShimState]
    BY <1>19, <2>1, RecordType, ConstantsDisjoint DEF record_watcher_exit
  <2> QED BY <1>19, <2>2 DEF record_watcher_exit, TypeInv, TypeOK, memory
<1>20. CASE sweep_begin
  <2>1. task' \in [Task -> TaskState] /\ BusyHasSession'
    BY <1>20, FirstRows
    DEF sweep_begin, Continue, TypeInv, TypeOK, BusyHasSession, TaskState, TaskPc
  <2> QED BY <1>20, <2>1 DEF sweep_begin, TypeInv, TypeOK, memory
<1>21. ASSUME NEW s \in Session, sweep_probe(s) PROVE TypeInv'
  <2>1. /\ task' \in [Task -> TaskState] /\ BusyHasSession'
        /\ shim' \in [Session -> ShimState]
    <3>1. CASE record_lost(Sweep, s)
      BY <3>1, RecordType
    <3>2. CASE Continue(Sweep, s, "rewatch", NoRow) /\ UNCHANGED shim
      BY <3>2, ContinueType, FirstRows DEF TaskPc, TypeInv, TypeOK
    <3>3. CASE Return(Sweep, FALSE)
      BY <3>3, ReturnType
    <3> QED BY <1>21, <3>1, <3>2, <3>3 DEF sweep_probe
  <2> QED BY <1>21, <2>1 DEF sweep_probe, TypeInv, TypeOK, memory
<1>22. CASE sweep_end \/ sweep_aborted
  <2>1. task' \in [Task -> TaskState] /\ BusyHasSession'
    BY <1>22, IdleType DEF sweep_end, sweep_aborted, TypeInv, TypeOK, BusyHasSession, Idle
  <2> QED BY <1>22, <2>1 DEF sweep_end, sweep_aborted, TypeInv, TypeOK, memory
<1>23. CASE start_daemon
  BY <1>23 DEF start_daemon, TypeInv, TypeOK, BusyHasSession, memory
<1>24. CASE process_ends
  <2>1. \A t \in Task :
          /\ task'[t] \in TaskState
          /\ task'[t].pc \notin {"idle", "probe", "aborted"} => task'[t].session \in Session
          /\ task'[t].pc \in {"probe", "aborted"} => t = Sweep
    <3> TAKE t \in Task
    <3>1. CASE t \in Spawner /\ task[t].pc \notin {"idle", "spawned"}
      <4>1. task[t].session \in Session
        BY <3>1 DEF TypeInv, BusyHasSession
      <4>2. task'[t] = [task[t] EXCEPT !.pc = "failed", !.lifecycle = NoRow]
        BY <1>24, <3>1 DEF process_ends, returned
      <4>3. task[t] \in TaskState /\ "failed" \in TaskPc
        BY DEF TypeInv, TypeOK, TaskPc
      <4> DEFINE k == [task[t] EXCEPT !.pc = "failed", !.lifecycle = NoRow]
      <4>4. k \in TaskState /\ k.pc = "failed" /\ k.session = task[t].session
        BY <4>3, FirstRows DEF TaskState
      <4>5. task'[t] = k
        BY <4>2
      <4> HIDE DEF k
      <4> QED BY <4>1, <4>4, <4>5
    <3>2. CASE t \in Spawner /\ task[t].pc \in {"idle", "spawned"}
      BY <1>24, <3>2 DEF process_ends, TypeInv, TypeOK, BusyHasSession
    <3>3. CASE t \notin Spawner
      BY <1>24, <3>3, IdleType DEF process_ends, Idle
    <3> QED BY <3>1, <3>2, <3>3
  <2>2. task' \in [Task -> TaskState] /\ BusyHasSession'
    BY <1>24, <2>1 DEF process_ends, BusyHasSession
  <2>3. shim' \in [Session -> ShimState]
    BY <1>24, AnsweredType DEF process_ends, TypeInv, TypeOK
  <2>4. /\ daemon' = "down" /\ crashes' \in Nat
        /\ row' = row /\ log' = log /\ proc' = proc
        /\ launches' = {} /\ reported' = {} /\ todo' = {}
    BY <1>24 DEF process_ends, TypeInv, TypeOK
  <2>5. /\ sender' \in [Session -> Spawner \cup {Nobody}]
        /\ watcher' \in [Session -> Watcher \cup {Nobody}]
    BY <1>24 DEF process_ends
  <2> QED BY <2>2, <2>3, <2>4, <2>5 DEF TypeInv, TypeOK
<1>25. CASE UNCHANGED vars
  BY <1>25 DEF vars, TypeInv, TypeOK, BusyHasSession, memory
<1>26. ASSUME NEW t \in Task, respond(t) PROVE TypeInv'
  <2>1. task[t].session \in Session
    BY <1>26 DEF respond, TypeInv, BusyHasSession
  <2>2. /\ task' \in [Task -> TaskState] /\ BusyHasSession'
        /\ shim' \in [Session -> ShimState]
    BY <1>26, <2>1, ReturnType DEF respond
  <2> QED BY <1>26, <2>2 DEF respond, TypeInv, TypeOK, memory
<1>27. ASSUME NEW t \in Task, recording_failed(t) PROVE TypeInv'
  <2>1. task[t].session \in Session
    BY <1>27 DEF recording_failed, TypeInv, BusyHasSession
  <2>2. /\ task' \in [Task -> TaskState] /\ BusyHasSession'
        /\ shim' \in [Session -> ShimState]
    BY <1>27, <2>1, ReturnType DEF recording_failed
  <2> QED BY <1>27, <2>2 DEF recording_failed, TypeInv, TypeOK, memory
<1> QED
  BY <1>1, <1>2, <1>3, <1>4, <1>5, <1>6, <1>7, <1>8, <1>9, <1>10, <1>11, <1>12, <1>13,
     <1>14, <1>15, <1>16, <1>17, <1>18, <1>19, <1>20, <1>21, <1>22, <1>23, <1>24, <1>25,
     <1>26, <1>27
  DEF Next, Spawning, Recording, Shim, Watching, Sweeping, Environment, crash,
      startup_failed

\* The initial state is of the types.
LEMMA TypeInit == Init => TypeInv
<1> SUFFICES ASSUME Init PROVE TypeInv
  OBVIOUS
<1>1. task \in [Task -> TaskState] /\ BusyHasSession
  BY IdleType DEF Init, BusyHasSession, Idle
<1>2. shim \in [Session -> ShimState]
  BY BoundsAreNaturals DEF Init, ShimState, ShimPc
<1> QED BY <1>1, <1>2, FirstRows DEF Init, TypeInv, TypeOK

\* Every variable keeps its type, whatever the number of sessions, requests,
\* watchers, attempts and crashes; in particular a shim's attempts stay within
\* SHIM_RECONNECT_MAX_ATTEMPTS.
THEOREM TypeCorrect == Spec => []TypeOK
<1>1. Init => TypeInv
  BY TypeInit
<1>2. TypeInv /\ [Next]_vars => TypeInv'
  BY TypeStep
<1>3. TypeInv => TypeOK
  BY DEF TypeInv
<1> QED BY <1>1, <1>2, <1>3, PTL DEF Spec

-----------------------------------------------------------------------------
(* No false end.  The invariant Evidence says that whatever any part of    *)
(* the daemon believes about a process was true when it was learnt and has *)
(* stayed true, because a runtime starts once and never comes back.        *)

\* What a step leaves alone that only moves a task and perhaps a shim; an event
\* it appends does not report the end of a live runtime.
Frame ==
  /\ UNCHANGED <<row, launches, sender, proc>> /\ todo' \subseteq todo
  /\ \/ log' = log
     \/ \A s \in Session : Logged(s, Ended)' => Logged(s, Ended) \/ proc[s] = "dead"

\* The shim whose call is answered moves along its protocol.
LEMMA ReplyShim ==
  ASSUME TypeInv, NEW t \in Session, NEW ok \in BOOLEAN,
         shim[t].pc \in {"ready", "exit", "dead"}
  PROVE  /\ \A s \in Session : s # t => reply(t, ok)[s] = shim[s]
         /\ shim[t].pc = "ready" => reply(t, ok)[t].pc \in {"ready", "wait", "dead"}
         /\ shim[t].pc = "exit" => reply(t, ok)[t].pc \in {"exit", "resumed", "dead"}
         /\ shim[t].pc = "dead" => reply(t, ok)[t].pc = "dead"
<1>1. /\ shim[t].pc = "ready" => answered(shim[t], ok).pc \in {"ready", "wait", "dead"}
      /\ shim[t].pc = "exit" => answered(shim[t], ok).pc \in {"exit", "resumed", "dead"}
      /\ shim[t].pc = "dead" => answered(shim[t], ok).pc = "dead"
  <2>1. shim[t] \in ShimState
    BY DEF TypeInv, TypeOK
  <2> QED BY <2>1 DEF answered, call_ok, call_failed, Calling, ShimState
<1> QED BY <1>1 DEF reply, TypeInv, TypeOK

\* A task that returns takes nothing from the evidence.
LEMMA ReturnKeeps ==
  ASSUME IInv, NEW t \in Task, NEW ok \in BOOLEAN, Return(t, ok), Frame,
         t \in Session => shim[t].pc \in {"ready", "exit", "dead"},
         t \in Spawner => task[t].pc # "idle"
  PROVE  Evidence'
<1> USE DEF IInv, Evidence, Frame
<1>0. TypeInv
  OBVIOUS
<1>1. /\ \A x \in Task : x # t => task'[x] = task[x]
      /\ task'[t] = returned(t, ok)
  BY DEF Return, TypeInv, TypeOK
<1>2. /\ returned(t, ok).pc \in {"idle", "probe", "aborted", "spawned", "failed"}
      /\ returned(t, ok).lifecycle.state = "None"
      /\ t \in Spawner => /\ returned(t, ok).session = task[t].session
                          /\ returned(t, ok).pc # "idle"
      /\ t \in Session => returned(t, ok).pc = "idle"
  <2>1. CASE t \in Spawner
    BY <2>1, ConstantsDisjoint DEF returned, NoRow, TypeInv, TypeOK, TaskState
  <2>2. CASE t \notin Spawner
    BY <2>2, TaskNames DEF returned, NoRow, Idle
  <2> QED BY <2>1, <2>2
<1>3. \A s \in Session :
        /\ s # t => shim'[s] = shim[s]
        /\ shim[s].pc = "none" => shim'[s].pc = "none"
        /\ shim'[s].pc \in {"ready", "wait", "exit", "resumed"}
           => shim[s].pc \in {"ready", "wait", "exit", "resumed"}
        /\ shim'[s].pc \in {"exit", "resumed"} => shim[s].pc \in {"exit", "resumed"}
  <2>1. CASE t \in Session
    BY <2>1, <1>0, ReplyShim DEF Return
  <2>2. CASE t \notin Session
    BY <2>2 DEF Return, reply
  <2> QED BY <2>1, <2>2
<1> HIDE DEF IInv, Evidence, Frame
<1>4. CopyIsMarked'
  BY <1>1, <1>2 DEF CopyIsMarked, IInv, Evidence
<1>5. ConclusionIsTrue'
  BY <1>1, <1>2 DEF ConclusionIsTrue, IInv, Evidence, Frame, Terminal
<1>6. ShimIsTrue'
  BY <1>3 DEF ShimIsTrue, IInv, Evidence, Frame
<1>7. HandlerServes'
  BY <1>1, <1>2, <1>3, TaskNames DEF HandlerServes, IInv, Evidence
<1>8. StoreIsTrue'
  BY <1>3 DEF StoreIsTrue, IInv, Evidence, Frame
<1>9. LaunchIsAlone'
  BY <1>1, <1>2, <1>3, TaskNames DEF LaunchIsAlone, IInv, Evidence, Frame
<1>10. SenderIsHandler'
  BY <1>1, <1>2, TaskNames DEF SenderIsHandler, IInv, Evidence, Frame, TypeInv, TypeOK
<1>11. SenderHasRow' /\ NoFalseEnd'
  BY DEF SenderHasRow, NoFalseEnd, Logged, Reports, IInv, Evidence, Frame
<1> QED BY <1>4, <1>5, <1>6, <1>7, <1>8, <1>9, <1>10, <1>11 DEF Evidence

\* A task that goes on takes nothing from the evidence if what it carries is true.
LEMMA ContinueKeeps ==
  ASSUME IInv, NEW t \in Task, NEW s \in Session, NEW l \in Row, NEW pc \in TaskPc,
         Continue(t, s, pc, l), Frame, shim' = shim,
         pc \notin {"idle", "launching"},
         pc \in {"update", "watch", "finish", "append"}
           => l.state \in {"Running", "Exited", "Lost"},
         l.state \in Terminal \/ pc \in {"fired", "process_exit", "shim_died"}
           => proc[s] = "dead",
         l.state = "Running" \/ pc = "received" => proc[s] \in Begun,
         t \in Session => t = s /\ shim[s].pc \in {"ready", "exit", "dead"},
         t \in Spawner => \A r \in Session : sender[r] = t => r = s
  PROVE  Evidence'
<1>1. /\ \A x \in Task : x # t => task'[x] = task[x]
      /\ task'[t] = [pc |-> pc, session |-> s, lifecycle |-> l]
  BY DEF Continue, IInv, TypeInv, TypeOK
<1>2. CopyIsMarked'
  BY <1>1 DEF CopyIsMarked, IInv, Evidence
<1>3. ConclusionIsTrue'
  BY <1>1 DEF ConclusionIsTrue, IInv, Evidence, Frame
<1>4. ShimIsTrue' /\ StoreIsTrue'
  BY DEF ShimIsTrue, StoreIsTrue, IInv, Evidence, Frame
<1>5. HandlerServes'
  BY <1>1, TaskNames DEF HandlerServes, IInv, Evidence
<1>6. LaunchIsAlone'
  BY <1>1, TaskNames DEF LaunchIsAlone, IInv, Evidence, Frame
<1>7. SenderIsHandler'
  BY <1>1, TaskNames DEF SenderIsHandler, IInv, Evidence, Frame, TypeInv, TypeOK
<1>8. SenderHasRow' /\ NoFalseEnd'
  BY DEF SenderHasRow, NoFalseEnd, Logged, Reports, IInv, Evidence, Frame
<1> QED BY <1>2, <1>3, <1>4, <1>5, <1>6, <1>7, <1>8 DEF Evidence

\* A task that only changes its program counter goes on with what it has.
LEMMA PcContinues ==
  ASSUME TypeInv, NEW t \in Task, NEW pc \in TaskPc, task' = [task EXCEPT ![t].pc = pc]
  PROVE  Continue(t, task[t].session, pc, task[t].lifecycle)
<1>1. task[t] \in TaskState
  BY DEF TypeInv, TypeOK
<1>2. [task[t] EXCEPT !.pc = pc]
        = [pc |-> pc, session |-> task[t].session, lifecycle |-> task[t].lifecycle]
  BY <1>1 DEF TaskState
<1> QED BY <1>2 DEF Continue, TypeInv, TypeOK

\* Recording an end takes nothing from the evidence if the process is dead.
LEMMA RecordKeeps ==
  ASSUME IInv, NEW t \in Task \ Spawner, NEW s \in Session, Frame, proc[s] = "dead",
         record_exited(t, s) \/ record_lost(t, s),
         t \in Session => t = s /\ shim[s].pc \in {"ready", "exit", "dead"}
  PROVE  Evidence'
<1>1. row[s] \in Row
  BY DEF IInv, TypeInv, TypeOK
<1>2. CASE \E ok \in BOOLEAN : Return(t, ok)
  BY <1>2, ReturnKeeps
<1>3. CASE ~\E ok \in BOOLEAN : Return(t, ok)
  <2>1. PICK l \in {mark_exited(row[s]), mark_lost(row[s])} :
          Continue(t, s, "update", l) /\ shim' = shim
    BY <1>3 DEF record_exited, record_lost
  <2>2. l \in Row /\ l.state \in {"Exited", "Lost"}
    BY <1>1, RowTypes
  <2> QED BY <2>1, <2>2, ContinueKeeps DEF TaskPc, Begun
<1> QED BY <1>2, <1>3

\* Every step of Next keeps the evidence.
LEMMA EvidenceStep == IInv /\ [Next]_vars => Evidence'
<1> SUFFICES ASSUME IInv, [Next]_vars PROVE Evidence'
  OBVIOUS
<1> USE TaskNames
<1>a. TypeInv /\ TypeOK
  BY DEF IInv, TypeInv
<1>1. ASSUME NEW h \in Spawner, NEW s \in Session, check_session(h, s)
      PROVE  Evidence'
  <2>1. PICK pc \in {"checked", "failed"} : Continue(h, s, pc, NoRow)
    BY <1>1 DEF check_session
  <2>2. Frame /\ shim' = shim /\ task[h].pc = "idle"
    BY <1>1 DEF check_session, Frame, memory
  <2>3. \A r \in Session : sender[r] # h
    BY <2>2, ConstantsDisjoint DEF IInv, Evidence, SenderIsHandler
  <2>4. h \notin Session /\ NoRow.state = "None"
    BY ConstantsDisjoint DEF NoRow
  <2> QED BY <2>1, <2>2, <2>3, <2>4, FirstRows, ContinueKeeps DEF TaskPc, Terminal
<1>2. ASSUME NEW h \in Spawner, insert_forking(h) PROVE Evidence'
  <2> DEFINE s == task[h].session
  <2>1. s \in Session /\ task[h].pc = "checked" /\ h \notin Session /\ h # Nobody
    BY <1>2, ConstantsDisjoint DEF insert_forking, IInv, TypeInv, BusyHasSession
  <2>2. CASE row[s].state # "None"
    <3>1. task' = [task EXCEPT ![h].pc = "failed"] /\ Frame /\ shim' = shim
      BY <1>2, <2>2 DEF insert_forking, Frame
    <3>2. Continue(h, s, "failed", task[h].lifecycle) /\ task[h].lifecycle \in Row
      BY <1>a, <3>1, PcContinues DEF TaskPc, TypeOK, TaskState
    <3>3. /\ task[h].lifecycle.state \in Terminal => proc[s] = "dead"
          /\ task[h].lifecycle.state = "Running" => proc[s] \in Begun
          /\ \A r \in Session : sender[r] = h => r = s
      BY <2>1 DEF IInv, Evidence, ConclusionIsTrue, SenderIsHandler
    <3> QED BY <2>1, <3>1, <3>2, <3>3, ContinueKeeps DEF TaskPc
  <2>3. CASE row[s].state = "None"
    <3>1. sender[s] = Nobody
      BY <2>1, <2>3 DEF IInv, Evidence, SenderHasRow
    <3>2. /\ row' = [row EXCEPT ![s] = forking] /\ launches' = launches \cup {s}
          /\ sender' = [sender EXCEPT ![s] = h]
          /\ task' = [task EXCEPT ![h].pc = "launching"]
          /\ UNCHANGED <<log, todo, shim, proc>>
      BY <1>2, <2>3, <3>1 DEF insert_forking
    <3>3. /\ proc[s] = "none" /\ shim[s].pc = "none"
      BY <2>1, <2>3 DEF IInv, Evidence, StoreIsTrue
    <3>4. /\ \A x \in Task : x # h => task'[x] = task[x]
          /\ task'[h].pc = "launching" /\ task'[h].session = s
          /\ task'[h].lifecycle = task[h].lifecycle
      BY <1>a, <3>2 DEF TypeOK, TaskState
    <3>5. /\ row'[s].state = "Forking"
          /\ \A r \in Session : r # s => row'[r] = row[r] /\ sender'[r] = sender[r]
          /\ sender'[s] = h
      BY <1>a, <2>1, <3>2 DEF forking, TypeOK
    <3>6. CopyIsMarked' /\ ConclusionIsTrue'
      BY <2>1, <3>2, <3>4 DEF CopyIsMarked, ConclusionIsTrue, IInv, Evidence
    <3>7. ShimIsTrue' /\ StoreIsTrue'
      BY <3>2, <3>3, <3>5 DEF ShimIsTrue, StoreIsTrue, IInv, Evidence
    <3>8. HandlerServes'
      BY <2>1, <3>2, <3>4 DEF HandlerServes, IInv, Evidence
    <3>9. LaunchIsAlone'
      BY <2>3, <3>2, <3>3, <3>4, <3>5 DEF LaunchIsAlone, IInv, Evidence
    <3>10. SenderIsHandler'
      BY <1>a, <2>1, <3>4, <3>5 DEF SenderIsHandler, IInv, Evidence, TypeOK
    <3>11. SenderHasRow'
      BY <3>5 DEF SenderHasRow, IInv, Evidence
    <3>12. NoFalseEnd'
      BY <3>2, <3>5 DEF NoFalseEnd, Logged, Reports, Terminal, IInv, Evidence
    <3> QED BY <3>6, <3>7, <3>8, <3>9, <3>10, <3>11, <3>12 DEF Evidence
  <2> QED BY <2>2, <2>3
<1>3. ASSUME NEW h \in Spawner, launch_shim(h) PROVE Evidence'
  <2> DEFINE s == task[h].session
  <2>1. s \in Session /\ task[h].pc = "launching"
    BY <1>3 DEF launch_shim, IInv, TypeInv, BusyHasSession
  <2>2. /\ row[s].state # "None" /\ shim[s].pc = "none" /\ proc[s] = "none"
        /\ sender[s] = h
    BY <2>1 DEF IInv, Evidence, LaunchIsAlone
  <2>3. UNCHANGED <<row, log, launches, sender, todo, proc>>
    BY <1>3 DEF launch_shim, memory
  <2>4. /\ \A x \in Task : x # h => task'[x] = task[x]
        /\ task'[h].pc = "waiting" /\ task'[h].session = s
        /\ task'[h].lifecycle = task[h].lifecycle
    BY <1>3, <1>a DEF launch_shim, TypeOK, TaskState
  <2>5. /\ shim'[s].pc = "launch"
        /\ \A r \in Session : r # s => shim'[r] = shim[r]
    BY <1>3, <1>a, <2>1 DEF launch_shim, TypeOK, ShimState
  <2>6. CopyIsMarked' /\ ConclusionIsTrue'
    BY <2>3, <2>4 DEF CopyIsMarked, ConclusionIsTrue, IInv, Evidence
  <2>7. ShimIsTrue' /\ StoreIsTrue'
    BY <2>2, <2>3, <2>5 DEF ShimIsTrue, StoreIsTrue, IInv, Evidence
  <2>8. HandlerServes'
    BY <2>2, <2>4, <2>5, ConstantsDisjoint DEF HandlerServes, IInv, Evidence
  <2>9. LaunchIsAlone'
    BY <2>2, <2>3, <2>4, <2>5 DEF LaunchIsAlone, IInv, Evidence
  <2>10. SenderIsHandler'
    BY <1>a, <2>3, <2>4 DEF SenderIsHandler, IInv, Evidence, TypeOK
  <2>11. SenderHasRow' /\ NoFalseEnd'
    BY <2>3 DEF SenderHasRow, NoFalseEnd, Logged, Reports, IInv, Evidence
  <2> QED BY <2>6, <2>7, <2>8, <2>9, <2>10, <2>11 DEF Evidence
<1>4. ASSUME NEW h \in Spawner, cancel_spawn(h) PROVE Evidence'
  <2> DEFINE s == task[h].session
  <2>1. s \in Session /\ task[h].pc = "launching"
    BY <1>4 DEF cancel_spawn, IInv, TypeInv, BusyHasSession
  <2>2. shim[s].pc = "none" /\ proc[s] = "none" /\ sender[s] = h
    BY <2>1 DEF IInv, Evidence, LaunchIsAlone
  <2>3. UNCHANGED <<log, todo, shim, proc>> /\ launches' \subseteq launches
    BY <1>4 DEF cancel_spawn
  <2>4. /\ \A x \in Task : x # h => task'[x] = task[x]
        /\ task'[h].pc = "failed" /\ task'[h].session = s
        /\ task'[h].lifecycle = task[h].lifecycle
    BY <1>4, <1>a DEF cancel_spawn, TypeOK, TaskState
  <2>5. /\ row'[s].state = "None" /\ sender'[s] = Nobody
        /\ \A r \in Session : r # s => row'[r] = row[r] /\ sender'[r] = sender[r]
    BY <1>4, <1>a, <2>1 DEF cancel_spawn, TypeOK, NoRow
  <2>6. CopyIsMarked' /\ ConclusionIsTrue'
    BY <2>3, <2>4 DEF CopyIsMarked, ConclusionIsTrue, IInv, Evidence
  <2>7. ShimIsTrue' /\ StoreIsTrue'
    BY <2>2, <2>3, <2>5 DEF ShimIsTrue, StoreIsTrue, IInv, Evidence
  <2>8. HandlerServes'
    BY <2>3, <2>4, ConstantsDisjoint DEF HandlerServes, IInv, Evidence
  <2>9. LaunchIsAlone'
    BY <2>2, <2>3, <2>4, <2>5 DEF LaunchIsAlone, IInv, Evidence
  <2>10. SenderIsHandler'
    BY <1>a, <2>4, <2>5 DEF SenderIsHandler, IInv, Evidence, TypeOK
  <2>11. SenderHasRow'
    BY <2>5 DEF SenderHasRow, IInv, Evidence
  <2>12. NoFalseEnd'
    BY <2>1, <2>2, <2>3, <2>5 DEF NoFalseEnd, Logged, Reports, Terminal, IInv, Evidence
  <2> QED BY <2>6, <2>7, <2>8, <2>9, <2>10, <2>11, <2>12 DEF Evidence
<1>5. ASSUME NEW h \in Spawner, ready_timeout(h) PROVE Evidence'
  <2> DEFINE s == task[h].session
  <2>1. s \in Session /\ task[h].pc = "waiting" /\ h \notin Session
    BY <1>5, ConstantsDisjoint DEF ready_timeout, IInv, TypeInv, BusyHasSession
  <2>2. task' = [task EXCEPT ![h].pc = "timed_out"] /\ Frame /\ shim' = shim
    BY <1>5 DEF ready_timeout, Frame, memory
  <2>3. Continue(h, s, "timed_out", task[h].lifecycle) /\ task[h].lifecycle \in Row
    BY <1>a, <2>2, PcContinues DEF TaskPc, TypeOK, TaskState
  <2>4. /\ task[h].lifecycle.state \in Terminal => proc[s] = "dead"
        /\ task[h].lifecycle.state = "Running" => proc[s] \in Begun
        /\ \A r \in Session : sender[r] = h => r = s
    BY <2>1, ConstantsDisjoint DEF IInv, Evidence, ConclusionIsTrue, SenderIsHandler
  <2> QED BY <2>1, <2>2, <2>3, <2>4, ContinueKeeps DEF TaskPc
<1>6. ASSUME NEW h \in Spawner, drop_receiver(h) PROVE Evidence'
  <2>1. h \notin Session /\ task[h].pc # "idle"
    BY <1>6, ConstantsDisjoint DEF drop_receiver
  <2>2. Return(h, FALSE) /\ Frame
    BY <1>6, <2>1 DEF drop_receiver, Return, reply, Frame, memory
  <2> QED BY <2>1, <2>2, ReturnKeeps
<1>7. ASSUME NEW h \in Spawner, record_running(h) PROVE Evidence'
  <2> DEFINE s == task[h].session
  <2>1. s \in Session /\ task[h].pc = "received" /\ h \notin Session /\ Frame
    BY <1>7, ConstantsDisjoint
    DEF record_running, IInv, TypeInv, BusyHasSession, Frame, memory
  <2>2. CASE Return(h, FALSE)
    BY <2>1, <2>2, ReturnKeeps
  <2>3. CASE ~Return(h, FALSE)
    <3>1. Continue(h, s, "update", mark_running(row[s])) /\ shim' = shim
      BY <1>7, <2>3 DEF record_running
    <3>2. mark_running(row[s]) \in Row /\ mark_running(row[s]).state = "Running"
      BY <1>a, <2>1, RowTypes DEF TypeOK
    <3>3. proc[s] \in Begun /\ \A r \in Session : sender[r] = h => r = s
      BY <2>1, ConstantsDisjoint DEF IInv, Evidence, ConclusionIsTrue, SenderIsHandler
    <3> QED BY <2>1, <3>1, <3>2, <3>3, ContinueKeeps DEF TaskPc, Terminal
  <2> QED BY <2>2, <2>3
<1>8. ASSUME NEW t \in Task, update_lifecycle(t) PROVE Evidence'
  <2> DEFINE s == task[t].session
             l == task[t].lifecycle
  <2>1. s \in Session /\ task[t].pc = "update" /\ l \in Row
    BY <1>8, <1>a DEF update_lifecycle, IInv, TypeInv, BusyHasSession, TypeOK, TaskState
  <2>2. t \in Session => t = s /\ shim[s].pc \in {"ready", "exit", "dead"}
    BY <2>1 DEF IInv, Evidence, HandlerServes
  <2>3. CASE row[s].state = "None"
    <3>1. Return(t, FALSE) /\ Frame
      BY <1>8, <2>3 DEF update_lifecycle, Frame, memory
    <3> QED BY <2>1, <2>2, <3>1, ReturnKeeps
  <2>4. CASE row[s].state # "None"
    <3>1. l.state \in {"Running", "Exited", "Lost"}
      BY <2>1 DEF IInv, Evidence, CopyIsMarked
    <3>2. /\ l.state \in Terminal => proc[s] = "dead"
          /\ l.state = "Running" => proc[s] \in Begun
      BY <2>1 DEF IInv, Evidence, ConclusionIsTrue
    <3>3. UNCHANGED <<log, launches, sender, todo, shim, proc>>
      BY <1>8, <2>4 DEF update_lifecycle, memory
    <3>4. row'[s] = l /\ \A r \in Session : r # s => row'[r] = row[r]
      BY <1>8, <1>a, <2>1, <2>4 DEF update_lifecycle, TypeOK
    <3>5. /\ \A x \in Task : x # t => task'[x] = task[x]
          /\ task'[t].pc \in {"watch", "finish"} /\ task'[t].session = s
          /\ task'[t].lifecycle = l
      BY <1>8, <1>a, <2>4 DEF update_lifecycle, TypeOK, TaskState
    <3> HIDE DEF l
    <3>6. CopyIsMarked'
      BY <3>1, <3>5 DEF CopyIsMarked, IInv, Evidence
    <3>7. ConclusionIsTrue'
      BY <3>2, <3>3, <3>5 DEF ConclusionIsTrue, IInv, Evidence
    <3>8. ShimIsTrue' /\ StoreIsTrue'
      BY <3>1, <3>2, <3>3, <3>4 DEF ShimIsTrue, StoreIsTrue, IInv, Evidence
    <3>9. HandlerServes'
      BY <2>2, <3>3, <3>5 DEF HandlerServes, IInv, Evidence
    <3>10. LaunchIsAlone'
      BY <3>1, <3>3, <3>4, <3>5 DEF LaunchIsAlone, IInv, Evidence
    <3>11. SenderIsHandler' /\ SenderHasRow'
      BY <1>a, <3>1, <3>3, <3>4, <3>5
      DEF SenderIsHandler, SenderHasRow, IInv, Evidence, TypeOK
    <3>12. NoFalseEnd'
      BY <3>2, <3>3, <3>4 DEF NoFalseEnd, Logged, Reports, IInv, Evidence
    <3> QED BY <3>6, <3>7, <3>8, <3>9, <3>10, <3>11, <3>12 DEF Evidence
  <2> QED BY <2>3, <2>4
<1>9. ASSUME NEW t \in Task, start_exit_watcher(t) PROVE Evidence'
  <2> DEFINE s == task[t].session
             fresh == task[t].pc = "watch"
             next == IF fresh THEN [task[t] EXCEPT !.pc = "append"] ELSE returned(t, TRUE)
  <2>1. s \in Session /\ task[t].pc \in {"watch", "rewatch"} /\ Frame
    BY <1>9 DEF start_exit_watcher, IInv, TypeInv, BusyHasSession, Frame
  <2>2. t \in Session => t = s /\ shim[s].pc \in {"ready", "exit", "dead"}
    BY <2>1 DEF IInv, Evidence, HandlerServes
  <2>3. CASE Return(t, FALSE)
    BY <2>1, <2>2, <2>3, ReturnKeeps
  <2>4. CASE ~Return(t, FALSE)
    <3>1. PICK w \in Watcher \cup {t} : \A x \in Task :
            task'[x] = IF x = t THEN next
                       ELSE IF x = w THEN [pc |-> "armed", session |-> s, lifecycle |-> NoRow]
                       ELSE task[x]
      <4>1. CASE task' = [task EXCEPT ![t] = next]
        BY <1>a, <4>1 DEF TypeOK
      <4>2. CASE \E w \in Watcher : arm(w, s, t, next)
        <5>1. PICK w \in Watcher : arm(w, s, t, next)
          BY <4>2
        <5> HIDE DEF next
        <5> QED BY <1>a, <5>1 DEF arm, TypeOK
      <4> QED BY <1>9, <2>4, <4>1, <4>2 DEF start_exit_watcher
    <3>2. shim' = IF fresh THEN shim ELSE reply(t, TRUE)
      BY <1>9, <2>4 DEF start_exit_watcher
    <3>3. /\ next.pc \in {"append", "idle", "probe", "spawned"}
          /\ next.pc = "append" => /\ fresh /\ next.session = s
                                   /\ next.lifecycle = task[t].lifecycle
          /\ next.pc # "append" => next.lifecycle.state = "None"
          /\ t \in Spawner => next.session = s /\ next.pc # "idle"
          /\ t \in Session => next.pc = "append" \/ next.pc = "idle"
      <4>1. CASE fresh
        BY <1>a, <4>1 DEF TypeOK, TaskState
      <4>2. CASE ~fresh /\ t \in Spawner
        BY <1>a, <4>2, ConstantsDisjoint DEF returned, NoRow, TypeOK, TaskState
      <4>3. CASE ~fresh /\ t \notin Spawner
        BY <4>3 DEF returned, NoRow, Idle
      <4> QED BY <4>1, <4>2, <4>3
    <3>4. \A r \in Session :
            /\ r # t => shim'[r] = shim[r]
            /\ fresh => shim'[r] = shim[r]
            /\ shim[r].pc = "none" => shim'[r].pc = "none"
            /\ shim'[r].pc \in {"ready", "wait", "exit", "resumed"}
               => shim[r].pc \in {"ready", "wait", "exit", "resumed"}
            /\ shim'[r].pc \in {"exit", "resumed"} => shim[r].pc \in {"exit", "resumed"}
      <4>1. CASE t \in Session /\ ~fresh
        <5>1. reply(t, TRUE) = shim'
          BY <3>2, <4>1
        <5>2. TypeInv
          BY <1>a
        <5>3. \A r \in Session : r # t => shim'[r] = shim[r]
          BY <2>2, <4>1, <5>1, <5>2, ReplyShim
        <5>4. /\ shim[t].pc \in {"ready", "exit", "dead"}
              /\ shim[t].pc = "ready" => shim'[t].pc \in {"ready", "wait", "dead"}
              /\ shim[t].pc = "exit" => shim'[t].pc \in {"exit", "resumed", "dead"}
              /\ shim[t].pc = "dead" => shim'[t].pc = "dead"
          BY <2>2, <4>1, <5>1, <5>2, ReplyShim
        <5> QED BY <4>1, <5>3, <5>4
      <4>2. CASE t \notin Session \/ fresh
        BY <3>2, <4>2 DEF reply
      <4> QED BY <4>1, <4>2
    <3>5. w \in Session => w = t
      BY <3>1, ConstantsDisjoint
    <3>6. w \in Spawner => w = t
      BY <3>1, ConstantsDisjoint
    <3> HIDE DEF next
    <3>7. CopyIsMarked'
      BY <2>1, <3>1, <3>3 DEF CopyIsMarked, IInv, Evidence
    <3>8. ConclusionIsTrue'
      BY <2>1, <3>1, <3>3 DEF ConclusionIsTrue, IInv, Evidence, Frame, Terminal, NoRow
    <3>9. ShimIsTrue' /\ StoreIsTrue'
      BY <2>1, <3>4 DEF ShimIsTrue, StoreIsTrue, IInv, Evidence, Frame
    <3>10. HandlerServes'
      BY <2>2, <3>1, <3>3, <3>4, <3>5 DEF HandlerServes, IInv, Evidence
    <3>11. LaunchIsAlone'
      BY <2>1, <3>1, <3>3, <3>4, <3>6 DEF LaunchIsAlone, IInv, Evidence, Frame
    <3>12. SenderIsHandler'
      BY <1>a, <2>1, <3>1, <3>3, <3>6 DEF SenderIsHandler, IInv, Evidence, Frame, TypeOK
    <3>13. SenderHasRow' /\ NoFalseEnd'
      BY <2>1 DEF SenderHasRow, NoFalseEnd, Logged, Reports, IInv, Evidence, Frame
    <3> QED BY <3>7, <3>8, <3>9, <3>10, <3>11, <3>12, <3>13 DEF Evidence
  <2> QED BY <2>3, <2>4
<1>10. ASSUME NEW t \in Task, finish_terminal(t) PROVE Evidence'
  <2> DEFINE s == task[t].session
  <2>1. s \in Session /\ task[t].pc = "finish" /\ Frame
    BY <1>10 DEF finish_terminal, IInv, TypeInv, BusyHasSession, Frame
  <2>2. t \in Session => t = s /\ shim[s].pc \in {"ready", "exit", "dead"}
    BY <2>1 DEF IInv, Evidence, HandlerServes
  <2>3. CASE Return(t, TRUE)
    BY <2>1, <2>2, <2>3, ReturnKeeps
  <2>4. CASE ~Return(t, TRUE)
    <3>1. task' = [task EXCEPT ![t].pc = "append"] /\ shim' = shim
      BY <1>10, <2>4 DEF finish_terminal
    <3>2. Continue(t, s, "append", task[t].lifecycle) /\ task[t].lifecycle \in Row
      BY <1>a, <3>1, PcContinues DEF TaskPc, TypeOK, TaskState
    <3>3. /\ task[t].lifecycle.state \in {"Running", "Exited", "Lost"}
          /\ task[t].lifecycle.state \in Terminal => proc[s] = "dead"
          /\ task[t].lifecycle.state = "Running" => proc[s] \in Begun
      BY <2>1 DEF IInv, Evidence, CopyIsMarked, ConclusionIsTrue
    <3>4. t \in Spawner => \A r \in Session : sender[r] = t => r = s
      BY ConstantsDisjoint DEF IInv, Evidence, SenderIsHandler
    <3> QED BY <2>1, <2>2, <3>1, <3>2, <3>3, <3>4, ContinueKeeps DEF TaskPc
  <2> QED BY <2>3, <2>4
<1>11. ASSUME NEW t \in Task, append_event(t) PROVE Evidence'
  <2> DEFINE s == task[t].session
             e == [session |-> s, kind |-> event_kind(task[t].lifecycle),
                   incarnation |-> crashes]
  <2>1. /\ s \in Session /\ task[t].pc = "append"
        /\ task' = [task EXCEPT ![t].pc = "reply"] /\ shim' = shim
    BY <1>11 DEF append_event, IInv, TypeInv, BusyHasSession
  <2>2. UNCHANGED <<row, launches, sender, todo, proc>> /\ log' = Append(log, e)
    BY <1>11 DEF append_event, memory
  <2>3. ASSUME NEW r \in Session, Logged(r, Ended)'
        PROVE  Logged(r, Ended) \/ proc[r] = "dead"
    <3>1. PICK i \in DOMAIN log' : Reports(i, r, Ended)'
      BY <2>3 DEF Logged
    <3>2. CASE i \in DOMAIN log
      <4>1. log'[i] = log[i]
        BY <1>a, <2>2, <3>2 DEF TypeOK
      <4> QED BY <3>1, <3>2, <4>1 DEF Logged, Reports, Ended
    <3>3. CASE i \notin DOMAIN log
      <4>1. log'[i] = e
        BY <1>a, <2>2, <3>3 DEF TypeOK
      <4>2. s = r /\ event_kind(task[t].lifecycle) \in Ended
        BY <3>1, <4>1 DEF Reports
      <4>3. task[t].lifecycle.state # "Running"
        BY <4>2 DEF event_kind, Ended
      <4> QED BY <2>1, <4>2, <4>3
        DEF IInv, Evidence, CopyIsMarked, ConclusionIsTrue, Terminal
    <3> QED BY <3>2, <3>3
  <2>4. Frame
    BY <2>2, <2>3 DEF Frame
  <2>5. t \in Session => t = s /\ shim[s].pc \in {"ready", "exit", "dead"}
    BY <2>1 DEF IInv, Evidence, HandlerServes
  <2>6. Continue(t, s, "reply", task[t].lifecycle) /\ task[t].lifecycle \in Row
    BY <1>a, <2>1, PcContinues DEF TaskPc, TypeOK, TaskState
  <2>7. /\ task[t].lifecycle.state \in Terminal => proc[s] = "dead"
        /\ task[t].lifecycle.state = "Running" => proc[s] \in Begun
    BY <2>1 DEF IInv, Evidence, ConclusionIsTrue
  <2>8. t \in Spawner => \A r \in Session : sender[r] = t => r = s
    BY ConstantsDisjoint DEF IInv, Evidence, SenderIsHandler
  <2> QED BY <2>1, <2>4, <2>5, <2>6, <2>7, <2>8, ContinueKeeps DEF TaskPc
<1>12. ASSUME NEW s \in Session, take_launch_spec(s) PROVE Evidence'
  <2>1. shim[s].pc = "launch" /\ UNCHANGED <<row, log, sender, task, todo>>
    BY <1>12 DEF take_launch_spec
  <2>2. /\ launches' = launches \ {s}
        /\ \A r \in Session : r # s => shim'[r] = shim[r] /\ proc'[r] = proc[r]
        /\ \/ proc[s] = "none" /\ proc'[s] = "alive" /\ shim'[s].pc = "ready"
           \/ proc'[s] = proc[s] /\ shim'[s].pc \in {"launch", "dead"}
    <3>1. /\ call_ok(shim[s]).pc = "ready"
          /\ call_failed(shim[s]).pc \in {"launch", "dead"}
          /\ shim[s] \in ShimState
      BY <1>a, <2>1 DEF call_ok, call_failed, TypeOK, ShimState
    <3>2. s \in launches => proc[s] = "none"
      BY DEF IInv, Evidence, StoreIsTrue
    <3> QED BY <1>12, <1>a, <3>1, <3>2 DEF take_launch_spec, TypeOK, ShimState
  <2>3. row[s].state # "None"
    BY <2>1 DEF IInv, Evidence, StoreIsTrue
  <2>4. \A r \in Session : proc[r] \in Begun => proc'[r] = proc[r]
    BY <2>2 DEF Begun
  <2>5. CopyIsMarked' /\ ConclusionIsTrue'
    BY <2>1, <2>4 DEF CopyIsMarked, ConclusionIsTrue, Begun, IInv, Evidence
  <2>6. ShimIsTrue' /\ StoreIsTrue'
    BY <2>1, <2>2, <2>3, <2>4 DEF ShimIsTrue, StoreIsTrue, Begun, IInv, Evidence
  <2>7. HandlerServes' /\ LaunchIsAlone'
    BY <2>1, <2>2 DEF HandlerServes, LaunchIsAlone, IInv, Evidence
  <2>8. SenderIsHandler' /\ SenderHasRow'
    BY <2>1 DEF SenderIsHandler, SenderHasRow, IInv, Evidence
  <2>9. NoFalseEnd'
    BY <2>1, <2>4 DEF NoFalseEnd, Logged, Reports, Begun, IInv, Evidence
  <2> QED BY <2>5, <2>6, <2>7, <2>8, <2>9 DEF Evidence
<1>13. ASSUME NEW s \in Session, send_ready(s) PROVE Evidence'
  <2> DEFINE h == sender[s]
  <2>1. h \in Spawner /\ h # Nobody /\ h \notin Session /\ shim[s].pc = "ready"
    BY <1>13, <1>a, ConstantsDisjoint DEF send_ready, TypeOK
  <2>2. task[h].session = s /\ task[h].pc # "idle" /\ proc[s] \in Begun
    BY <2>1 DEF IInv, Evidence, SenderIsHandler, ShimIsTrue
  <2>3. UNCHANGED <<row, log, launches, todo, proc>>
    BY <1>13 DEF send_ready
  <2>4. /\ \A x \in Task : x # h => task'[x] = task[x]
        /\ task'[h].session = s /\ task'[h].lifecycle = task[h].lifecycle
        /\ task'[h].pc = IF task[h].pc = "waiting" THEN "received" ELSE task[h].pc
    BY <1>13, <1>a, <2>1, <2>2 DEF send_ready, TypeOK, TaskState
  <2>5. sender'[s] = Nobody /\ \A r \in Session : r # s => sender'[r] = sender[r]
    BY <1>13, <1>a DEF send_ready, TypeOK
  <2>6. /\ shim'[s].pc \in {"ready", "wait", "dead"}
        /\ \A r \in Session : r # s => shim'[r] = shim[r]
    <3>1. shim' = reply(s, TRUE) \/ shim' = reply(s, FALSE)
      BY <1>13 DEF send_ready, reply, answered
    <3>2. TypeInv
      BY <1>a
    <3>3. CASE shim' = reply(s, TRUE)
      BY <2>1, <3>2, <3>3, ReplyShim
    <3>4. CASE shim' = reply(s, FALSE)
      BY <2>1, <3>2, <3>4, ReplyShim
    <3> QED BY <3>1, <3>3, <3>4
  <2>7. task[s].pc = "idle"
    BY <1>13 DEF send_ready
  <2> HIDE DEF h
  <2>8. CopyIsMarked' /\ ConclusionIsTrue'
    BY <2>2, <2>3, <2>4 DEF CopyIsMarked, ConclusionIsTrue, IInv, Evidence
  <2>9. ShimIsTrue' /\ StoreIsTrue'
    BY <2>1, <2>2, <2>3, <2>6 DEF ShimIsTrue, StoreIsTrue, IInv, Evidence
  <2>10. HandlerServes'
    BY <2>1, <2>4, <2>6, <2>7 DEF HandlerServes, IInv, Evidence
  <2>11. LaunchIsAlone'
    BY <2>1, <2>2, <2>3, <2>4, <2>5, <2>6 DEF LaunchIsAlone, IInv, Evidence
  <2>12. SenderIsHandler' /\ SenderHasRow'
    BY <1>a, <2>2, <2>3, <2>4, <2>5
    DEF SenderIsHandler, SenderHasRow, IInv, Evidence, TypeOK
  <2>13. NoFalseEnd'
    BY <2>3 DEF NoFalseEnd, Logged, Reports, IInv, Evidence
  <2> QED BY <2>8, <2>9, <2>10, <2>11, <2>12, <2>13 DEF Evidence
<1>14. ASSUME NEW s \in Session, record_reconnected_ready(s) PROVE Evidence'
  <2>1. shim[s].pc = "ready" /\ Frame /\ s \notin Spawner
    BY <1>14, ConstantsDisjoint DEF record_reconnected_ready, Frame, memory
  <2>2. proc[s] \in Begun
    BY <2>1 DEF IInv, Evidence, ShimIsTrue
  <2>3. CASE Return(s, FALSE)
    BY <2>1, <2>3, ReturnKeeps
  <2>4. CASE Continue(s, s, "update", mark_running(row[s])) /\ UNCHANGED shim
    <3>1. mark_running(row[s]) \in Row /\ mark_running(row[s]).state = "Running"
      BY <1>a, RowTypes DEF TypeOK
    <3> QED BY <2>1, <2>2, <2>4, <3>1, ContinueKeeps DEF TaskPc, Terminal
  <2>5. CASE Continue(s, s, "rewatch", NoRow) /\ UNCHANGED shim
    <3>1. NoRow \in Row /\ NoRow.state = "None"
      BY FirstRows DEF NoRow
    <3> QED BY <2>1, <2>5, <3>1, ContinueKeeps DEF TaskPc, Terminal
  <2> QED BY <1>14, <2>3, <2>4, <2>5 DEF record_reconnected_ready
<1>15. ASSUME NEW s \in Session, record_shim_exit(s) PROVE Evidence'
  <2>1. shim[s].pc = "exit" /\ Frame /\ s \notin Spawner /\ record_exited(s, s)
    BY <1>15, ConstantsDisjoint DEF record_shim_exit, Frame, memory
  <2>2. proc[s] = "dead"
    BY <2>1 DEF IInv, Evidence, ShimIsTrue
  <2> QED BY <2>1, <2>2, RecordKeeps
<1>16. ASSUME NEW s \in Session,
              \/ wait_for_runtime(s) \/ connect_failed(s)
              \/ shim_end(s) \/ shim_killed(s)
       PROVE  Evidence'
  <2>1. UNCHANGED <<row, log, launches, sender, task, todo, proc>>
    BY <1>16 DEF wait_for_runtime, connect_failed, shim_end, shim_killed, memory
  <2>2. /\ shim[s].pc # "none"
        /\ \/ shim'[s].pc = shim[s].pc /\ shim[s].pc \in Calling
           \/ shim'[s].pc = "dead"
           \/ shim[s].pc = "wait" /\ shim'[s].pc = "exit" /\ proc[s] = "dead"
        /\ \A r \in Session : r # s => shim'[r] = shim[r]
    <3>1. /\ shim[s] \in ShimState
          /\ call_failed(shim[s]).pc \in {shim[s].pc, "dead"}
      BY <1>a DEF call_failed, TypeOK, ShimState
    <3>2. CASE wait_for_runtime(s)
      BY <1>a, <3>1, <3>2 DEF wait_for_runtime, TypeOK, ShimState
    <3>3. CASE connect_failed(s)
      BY <1>a, <3>1, <3>3 DEF connect_failed, TypeOK, Calling
    <3>4. CASE shim_end(s) \/ shim_killed(s)
      BY <1>a, <3>1, <3>4 DEF shim_end, shim_killed, TypeOK, Calling, ShimState
    <3> QED BY <1>16, <3>2, <3>3, <3>4
  <2>3. CopyIsMarked' /\ ConclusionIsTrue'
    BY <2>1 DEF CopyIsMarked, ConclusionIsTrue, IInv, Evidence
  <2>4. ShimIsTrue' /\ StoreIsTrue'
    BY <2>1, <2>2 DEF ShimIsTrue, StoreIsTrue, Begun, Calling, IInv, Evidence
  <2>5. HandlerServes'
    BY <2>1, <2>2 DEF HandlerServes, IInv, Evidence
  <2>6. LaunchIsAlone'
    BY <2>1, <2>2 DEF LaunchIsAlone, IInv, Evidence
  <2>7. SenderIsHandler' /\ SenderHasRow' /\ NoFalseEnd'
    BY <2>1 DEF SenderIsHandler, SenderHasRow, NoFalseEnd, Logged, Reports, IInv, Evidence
  <2> QED BY <2>3, <2>4, <2>5, <2>6, <2>7 DEF Evidence
<1>17. ASSUME NEW s \in Session, runtime_exits(s) PROVE Evidence'
  <2>1. UNCHANGED <<row, log, launches, sender, task, todo, shim>>
    BY <1>17 DEF runtime_exits, memory
  <2>2. /\ proc[s] = "alive" /\ proc'[s] = "dead"
        /\ \A r \in Session : r # s => proc'[r] = proc[r]
    BY <1>17, <1>a DEF runtime_exits, TypeOK
  <2>3. CopyIsMarked' /\ ConclusionIsTrue'
    BY <2>1, <2>2 DEF CopyIsMarked, ConclusionIsTrue, Begun, IInv, Evidence
  <2>4. ShimIsTrue' /\ StoreIsTrue'
    BY <2>1, <2>2 DEF ShimIsTrue, StoreIsTrue, Begun, IInv, Evidence
  <2>5. HandlerServes' /\ LaunchIsAlone'
    BY <2>1, <2>2 DEF HandlerServes, LaunchIsAlone, IInv, Evidence
  <2>6. SenderIsHandler' /\ SenderHasRow'
    BY <2>1 DEF SenderIsHandler, SenderHasRow, IInv, Evidence
  <2>7. NoFalseEnd'
    BY <2>1, <2>2 DEF NoFalseEnd, Logged, Reports, IInv, Evidence
  <2> QED BY <2>3, <2>4, <2>5, <2>6, <2>7 DEF Evidence
<1>18. ASSUME NEW w \in Watcher,
              watcher_fires(w) \/ watcher_cancelled(w) \/ watcher_lost(w)
                \/ watcher_evidence(w)
       PROVE  Evidence'
  <2> DEFINE s == task[w].session
  <2>1. w \notin Session /\ w \notin Spawner /\ w # Sweep
    BY ConstantsDisjoint
  <2>2. Frame /\ shim' = shim /\ s \in Session /\ task[w].pc \in {"armed", "fired"}
    BY <1>18 DEF watcher_fires, watcher_cancelled, watcher_lost, watcher_evidence, Frame, memory,
                 IInv, TypeInv, BusyHasSession
  <2>3. CASE task' = [task EXCEPT ![w] = Idle]
    <3>1. Return(w, TRUE)
      BY <2>1, <2>2, <2>3 DEF Return, returned, reply
    <3> QED BY <2>1, <2>2, <3>1, ReturnKeeps
  <2>4. CASE task' # [task EXCEPT ![w] = Idle]
    <3>1. PICK pc \in {"fired", "process_exit", "shim_died"} :
            task' = [task EXCEPT ![w].pc = pc]
      BY <1>18, <1>a, <2>4 DEF watcher_fires, watcher_cancelled, watcher_lost, watcher_evidence, TypeOK
    <3>2. Continue(w, s, pc, task[w].lifecycle) /\ task[w].lifecycle \in Row
      <4>1. pc \in TaskPc
        BY <3>1 DEF TaskPc
      <4>2. Continue(w, s, pc, task[w].lifecycle)
        BY <1>a, <3>1, <4>1, PcContinues
      <4> QED BY <1>a, <4>2 DEF TypeOK, TaskState
    <3>3. proc[s] = "dead"
      BY <1>18, <2>2, <2>4
      DEF watcher_fires, watcher_cancelled, watcher_lost, watcher_evidence, IInv, Evidence,
          ConclusionIsTrue
    <3> QED BY <2>1, <2>2, <3>1, <3>2, <3>3, ContinueKeeps DEF TaskPc, Begun
  <2> QED BY <2>3, <2>4
<1>19. ASSUME NEW w \in Watcher, record_watcher_exit(w) PROVE Evidence'
  <2> DEFINE s == task[w].session
  <2>1. w \notin Session /\ w \notin Spawner
    BY ConstantsDisjoint
  <2>2. /\ Frame /\ s \in Session /\ task[w].pc \in {"process_exit", "shim_died"}
        /\ record_exited(w, s) \/ record_lost(w, s)
    BY <1>19 DEF record_watcher_exit, Frame, memory, IInv, TypeInv, BusyHasSession
  <2>3. proc[s] = "dead"
    BY <2>2 DEF IInv, Evidence, ConclusionIsTrue
  <2> QED BY <2>1, <2>2, <2>3, RecordKeeps
<1>20. CASE sweep_begin
  <2>1. UNCHANGED <<row, log, launches, sender, shim, proc>>
    BY <1>20 DEF sweep_begin, memory
  <2>2. /\ \A x \in Task : x # Sweep => task'[x] = task[x]
        /\ task'[Sweep] = [pc |-> "probe", session |-> Nobody, lifecycle |-> NoRow]
        /\ todo' = {s \in Session : row[s].state = "Running"}
    BY <1>20, <1>a DEF sweep_begin, Continue, TypeOK
  <2>3. CopyIsMarked' /\ ConclusionIsTrue'
    BY <2>1, <2>2, ConstantsDisjoint
    DEF CopyIsMarked, ConclusionIsTrue, NoRow, IInv, Evidence
  <2>4. ShimIsTrue' /\ StoreIsTrue'
    BY <2>1, <2>2 DEF ShimIsTrue, StoreIsTrue, IInv, Evidence
  <2>5. HandlerServes' /\ LaunchIsAlone'
    BY <2>1, <2>2 DEF HandlerServes, LaunchIsAlone, IInv, Evidence
  <2>6. SenderIsHandler' /\ SenderHasRow'
    BY <1>a, <2>1, <2>2 DEF SenderIsHandler, SenderHasRow, IInv, Evidence, TypeOK
  <2>7. NoFalseEnd'
    BY <2>1 DEF NoFalseEnd, Logged, Reports, IInv, Evidence
  <2> QED BY <2>3, <2>4, <2>5, <2>6, <2>7 DEF Evidence
<1>21. ASSUME NEW s \in Session, sweep_probe(s) PROVE Evidence'
  <2>1. Frame
    BY <1>21 DEF sweep_probe, Frame, memory
  <2>2. CASE proc[s] # "alive" /\ record_lost(Sweep, s)
    <3>1. proc[s] = "dead"
      BY <1>21, <2>2 DEF sweep_probe, Begun, IInv, Evidence, StoreIsTrue
    <3> QED BY <2>1, <2>2, <3>1, RecordKeeps
  <2>3. CASE Continue(Sweep, s, "rewatch", NoRow) /\ UNCHANGED shim
    <3>1. NoRow \in Row /\ NoRow.state = "None"
      BY FirstRows DEF NoRow
    <3> QED BY <2>1, <2>3, <3>1, ContinueKeeps DEF TaskPc, Terminal
  <2>4. CASE Return(Sweep, FALSE)
    BY <2>1, <2>4, ReturnKeeps
  <2> QED BY <1>21, <2>2, <2>3, <2>4 DEF sweep_probe
<1>22. CASE sweep_end \/ sweep_aborted
  <2>1. UNCHANGED <<row, log, launches, sender, shim, proc>> /\ todo' \subseteq todo
    BY <1>22 DEF sweep_end, sweep_aborted, memory
  <2>2. /\ \A x \in Task : x # Sweep => task'[x] = task[x]
        /\ task'[Sweep] = Idle
    BY <1>22, <1>a DEF sweep_end, sweep_aborted, TypeOK
  <2>3. CopyIsMarked' /\ ConclusionIsTrue'
    BY <2>1, <2>2, ConstantsDisjoint
    DEF CopyIsMarked, ConclusionIsTrue, Idle, NoRow, IInv, Evidence
  <2>4. ShimIsTrue' /\ StoreIsTrue'
    BY <2>1 DEF ShimIsTrue, StoreIsTrue, IInv, Evidence
  <2>5. HandlerServes' /\ LaunchIsAlone'
    BY <2>1, <2>2 DEF HandlerServes, LaunchIsAlone, IInv, Evidence
  <2>6. SenderIsHandler' /\ SenderHasRow'
    BY <1>a, <2>1, <2>2 DEF SenderIsHandler, SenderHasRow, IInv, Evidence, TypeOK
  <2>7. NoFalseEnd'
    BY <2>1 DEF NoFalseEnd, Logged, Reports, IInv, Evidence
  <2> QED BY <2>3, <2>4, <2>5, <2>6, <2>7 DEF Evidence
<1>23. CASE process_ends
  <2>1. /\ UNCHANGED <<row, log, proc>> /\ launches' = {} /\ todo' = {}
        /\ \A s \in Session : sender'[s] = Nobody
    BY <1>23 DEF process_ends
  <2>2. \A t \in Task :
          /\ task'[t].pc \in {"idle", "spawned", "failed"}
          /\ task'[t].lifecycle.state = "None" \/ task'[t] = task[t]
          /\ t \in Session => task'[t].pc = "idle"
    <3> TAKE t \in Task
    <3>1. CASE t \in Spawner /\ task[t].pc \notin {"idle", "spawned"}
      <4>1. task'[t] = [task[t] EXCEPT !.pc = "failed", !.lifecycle = NoRow]
        BY <1>23, <3>1 DEF process_ends, returned
      <4> QED BY <1>a, <3>1, <4>1, ConstantsDisjoint DEF TypeOK, TaskState, NoRow
    <3>2. CASE t \in Spawner /\ task[t].pc \in {"idle", "spawned"}
      BY <1>23, <3>2, ConstantsDisjoint DEF process_ends
    <3>3. CASE t \notin Spawner
      BY <1>23, <3>3 DEF process_ends, Idle, NoRow
    <3> QED BY <3>1, <3>2, <3>3
  <2>3. \A s \in Session : shim'[s].pc \in {shim[s].pc, "dead"} /\
                           (shim[s].pc = "none" => shim'[s].pc = "none")
    <3> TAKE s \in Session
    <3>1. /\ answered(shim[s], FALSE).pc \in {shim[s].pc, "dead"}
          /\ shim[s].pc = "none" => answered(shim[s], FALSE).pc = "none"
      BY <1>a DEF answered, call_failed, Calling, TypeOK, ShimState
    <3> QED BY <1>23, <3>1 DEF process_ends
  <2>4. CopyIsMarked' /\ ConclusionIsTrue'
    BY <2>1, <2>2 DEF CopyIsMarked, ConclusionIsTrue, Terminal, IInv, Evidence
  <2>5. ShimIsTrue' /\ StoreIsTrue'
    BY <2>1, <2>3 DEF ShimIsTrue, StoreIsTrue, IInv, Evidence
  <2>6. HandlerServes' /\ LaunchIsAlone'
    BY <2>2 DEF HandlerServes, LaunchIsAlone
  <2>7. SenderIsHandler' /\ SenderHasRow'
    BY <2>1 DEF SenderIsHandler, SenderHasRow
  <2>8. NoFalseEnd'
    BY <2>1 DEF NoFalseEnd, Logged, Reports, IInv, Evidence
  <2> QED BY <2>4, <2>5, <2>6, <2>7, <2>8 DEF Evidence
<1>24. CASE start_daemon \/ UNCHANGED vars
  <2>1. UNCHANGED <<row, log, launches, sender, task, todo, shim, proc>>
    BY <1>24 DEF start_daemon, vars, memory
  <2> QED BY <2>1
    DEF CopyIsMarked, ConclusionIsTrue, ShimIsTrue, HandlerServes, StoreIsTrue,
        LaunchIsAlone, SenderIsHandler, SenderHasRow, NoFalseEnd, Logged, Reports,
        IInv, Evidence
<1>25. ASSUME NEW t \in Task, respond(t) PROVE Evidence'
  <2>1. task[t].pc = "reply" /\ Return(t, TRUE) /\ Frame
    BY <1>25 DEF respond, Frame, memory, Logged, Reports
  <2>2. t \in Session => shim[t].pc \in {"ready", "exit", "dead"}
    BY <2>1 DEF IInv, Evidence, HandlerServes
  <2> QED BY <2>1, <2>2, ReturnKeeps
<1>26. ASSUME NEW t \in Task, recording_failed(t) PROVE Evidence'
  <2>1. task[t].pc \in {"update", "append", "reply"} /\ Return(t, FALSE) /\ Frame
    BY <1>26 DEF recording_failed, Frame, memory, Logged, Reports
  <2>2. t \in Session => shim[t].pc \in {"ready", "exit", "dead"}
    BY <2>1 DEF IInv, Evidence, HandlerServes
  <2> QED BY <2>1, <2>2, ReturnKeeps
<1> QED
  BY <1>1, <1>2, <1>3, <1>4, <1>5, <1>6, <1>7, <1>8, <1>9, <1>10, <1>11, <1>12, <1>13,
     <1>14, <1>15, <1>16, <1>17, <1>18, <1>19, <1>20, <1>21, <1>22, <1>23, <1>24, <1>25,
     <1>26
  DEF Next, Spawning, Recording, Shim, Watching, Sweeping, Environment, crash,
      startup_failed

\* Initially nothing runs and nothing is believed.
LEMMA EvidenceInit == Init => Evidence
<1> SUFFICES ASSUME Init PROVE Evidence
  OBVIOUS
<1>1. \A t \in Task : task[t].pc = "idle" /\ task[t].lifecycle.state = "None"
  BY DEF Init, Idle, NoRow
<1>2. \A s \in Session :
        /\ row[s].state = "None" /\ proc[s] = "none" /\ shim[s].pc = "none"
        /\ sender[s] = Nobody
  BY DEF Init, NoRow
<1>3. launches = {} /\ todo = {} /\ DOMAIN log = {}
  BY DEF Init
<1> QED BY <1>1, <1>2, <1>3, TaskNames
  DEF CopyIsMarked, ConclusionIsTrue, ShimIsTrue, HandlerServes, StoreIsTrue,
      LaunchIsAlone, SenderIsHandler, SenderHasRow, NoFalseEnd, Logged, Terminal, Evidence

\* The inductive invariant holds in every reachable state.
LEMMA Invariance == Spec => []IInv
<1>1. Init => IInv
  BY TypeInit, EvidenceInit DEF IInv
<1>2. IInv /\ [Next]_vars => IInv'
  BY TypeStep, EvidenceStep DEF IInv
<1> QED BY <1>1, <1>2, PTL DEF Spec

\* The daemon never calls a live runtime ended, in the store or in the log: every
\* way to record_exited and record_lost starts from evidence that the process is
\* dead, and a session's runtime is started at most once.
THEOREM NeverEndsALiveRuntime == Spec => []NoFalseEnd
<1>1. IInv => NoFalseEnd
  BY DEF IInv, Evidence
<1> QED BY <1>1, Invariance, PTL

\* pending_ready never holds a sender for a session without a row, so the error
\* branch of begin_ready_wait is unreachable.
THEOREM SendersHaveRows == Spec => []SenderHasRow
<1>1. IInv => SenderHasRow
  BY DEF IInv, Evidence
<1> QED BY <1>1, Invariance, PTL
=============================================================================
