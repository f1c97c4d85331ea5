------------------------------ MODULE Lifecycle ------------------------------
(***************************************************************************)
(* The lifecycle record of one session and the transitions it allows       *)
(* (crates/rtm-core/src/types/lifecycle.rs).  Of the record's fields the   *)
(* model keeps the state and whether the two process ids are known; exit   *)
(* codes, start times and paths are data no property tells apart.          *)
(***************************************************************************)

\* The states of enum LifecycleState.
LifecycleState == {"Forking", "Running", "Exited", "Lost"}

Terminal == {"Exited", "Lost"}

\* A row of the store; the state "None" means that the store has no row.
Row == [state : LifecycleState \cup {"None"}, pids : BOOLEAN]

NoRow == [state |-> "None", pids |-> FALSE]

forking == [state |-> "Forking", pids |-> FALSE]

\* mark_running, mark_exited and mark_lost return whether they applied; that
\* answer is the predicate, the record they leave is the function.
accepts_running(l) == l.state = "Forking"

mark_running(l) == [l EXCEPT !.state = "Running", !.pids = TRUE]

accepts_exit(l) == l.state \in {"Forking", "Running"}

mark_exited(l) == [l EXCEPT !.state = "Exited"]

accepts_lost(l) == l.state \in {"Forking", "Running"}

mark_lost(l) == [l EXCEPT !.state = "Lost"]

\* running_event, terminated_event, lost_event: the event that reports l.
event_kind(l) ==
  CASE l.state = "Running" -> "Running"
    [] l.state = "Exited"  -> "Terminated"
    [] OTHER               -> "Lost"
=============================================================================
