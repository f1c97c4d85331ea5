------------------------------- MODULE Panes -------------------------------
(***************************************************************************)
(* Sessions in tmux panes: the occupancy check of the spawn preflight      *)
(* (spawn_preflight.rs), respawn-pane and the shim's shell (shim_socket.rs,*)
(* shim.rs), the recording of the pane (server/spawn.rs), and the nudges   *)
(* and captures that use it (server/state.rs, tmux.rs).  A pane address is *)
(* a position: tmux renumbers the panes after one that closes.  Every      *)
(* session is asked for once; what two requests for one session do to its  *)
(* row, and how an end is recorded, is in Rtmd.                            *)
(***************************************************************************)
EXTENDS Naturals, FiniteSets

CONSTANTS
  Session,    \* sessions
  Docker,     \* the sessions whose runtime is in a container
  Nobody,     \* not a session
  Client,     \* calls of nudge and capture
  Panes,      \* number of panes at the start
  MaxCloses   \* bound on panes that are closed by hand

ASSUME NobodyIsNoSession == Nobody \notin Session /\ Docker \subseteq Session

ASSUME Bounded == Panes \in Nat \ {0} /\ MaxCloses \in Nat

VARIABLES
  rows,      \* the store: state and pane of each session
  spawn,     \* the spawn request of each session
  shim,      \* the shim of each session
  runtime,   \* the runtime of each session
  screen,    \* what is in each pane
  call,      \* the nudges and captures
  closes,    \* panes closed by hand so far
  settled,   \* at its check: sessions that were answered and held its pane
  drove,     \* the live session that a spawn drove out of its pane
  away,      \* sessions whose pane was taken, moved or closed
  astray     \* sessions that kept their pane and whose call reached another one

store == <<rows, spawn>>
processes == <<shim, runtime, screen>>
history == <<settled, drove, away, astray>>

vars == <<rows, spawn, shim, runtime, screen, call, closes, settled, drove, away,
          astray>>

Pane == 1..Panes

NoPane == 0

Row == [state : {"None", "Forking", "Running", "Ended"}, pane : Pane \cup {NoPane}]

SpawnState ==
  [pc : {"idle", "kill", "begin", "respawn", "wait", "record", "update",
         "late", "conflict", "failed", "spawned"},
   pane : Pane \cup {NoPane}, force : BOOLEAN, victim : Session \cup {Nobody}]

Cell == [what : {"user", "shim", "shell", "dead"}, who : Session \cup {Nobody}]

CallState ==
  [pc : {"idle", "terminal", "alive", "act"}, session : Session \cup {Nobody},
   pane : Pane \cup {NoPane}, left : 0..3]

NoCall == [pc |-> "idle", session |-> Nobody, pane |-> NoPane, left |-> 0]

TypeOK ==
  /\ rows \in [Session -> Row]
  /\ spawn \in [Session -> SpawnState]
  /\ shim \in [Session -> {"none", "launch", "ready", "wait", "exit", "gone"}]
  /\ runtime \in [Session -> {"unborn", "live", "dead"}]
  /\ screen \in [Pane -> Cell]
  /\ call \in [Client -> CallState]
  /\ closes \in 0..MaxCloses
  /\ settled \in [Session -> SUBSET Session]
  /\ drove \in [Session -> Session \cup {Nobody}]
  /\ away \in SUBSET Session
  /\ astray \in SUBSET Session

Dead == [what |-> "dead", who |-> Nobody]

Init ==
  /\ rows = [s \in Session |-> [state |-> "None", pane |-> NoPane]]
  /\ spawn = [s \in Session |->
                [pc |-> "idle", pane |-> NoPane, force |-> FALSE, victim |-> Nobody]]
  /\ shim = [s \in Session |-> "none"]
  /\ runtime = [s \in Session |-> "unborn"]
  /\ screen = [p \in Pane |-> [what |-> "user", who |-> Nobody]]
  /\ call = [c \in Client |-> NoCall]
  /\ closes = 0
  /\ settled = [s \in Session |-> {}]
  /\ drove = [s \in Session |-> Nobody]
  /\ away = {}
  /\ astray = {}

-----------------------------------------------------------------------------
(* tmux.                                                                   *)

is_alive(p) == screen[p].what # "dead"

In(s, p) == screen[p] = [what |-> "shim", who |-> s]

\* The runtime of s is alive in pane p.
Holds(s, p) == In(s, p) /\ runtime[s] = "live"

\* A runtime may survive the hang-up of its pane.
HangUpRuntime(p) ==
  \/ runtime' = runtime
  \/ \E s \in Session : Holds(s, p) /\ runtime' = [runtime EXCEPT ![s] = "dead"]

\* The process in pane p is hung up on, and a shim ends.
HangUp(p) ==
  /\ shim' = [s \in Session |-> IF In(s, p) THEN "gone" ELSE shim[s]]
  /\ HangUpRuntime(p)

\* Pane p goes and the panes after it move down.
Remove(p) ==
  /\ screen' = [q \in Pane |-> IF q < p THEN screen[q]
                               ELSE IF q < Panes THEN screen[q + 1] ELSE Dead]
  /\ away' = away \cup {s \in Session : \E q \in Pane : q >= p /\ screen[q].who = s}

close_pane(p) ==
  /\ is_alive(p) /\ closes < MaxCloses
  /\ closes' = closes + 1
  /\ HangUp(p) /\ Remove(p)
  /\ UNCHANGED <<store, call, settled, drove, astray>>

-----------------------------------------------------------------------------
(* The spawn request.                                                      *)

SpawnGo(s, pc) == spawn' = [spawn EXCEPT ![s].pc = pc]

running_tmux_occupant(p) == {t \in Session : rows[t] = [state |-> "Running", pane |-> p]}

\* Mutant: the check looks for the session's own row only.
check_session_only(s, p, force) ==
  /\ spawn[s].pc = "idle"
  /\ spawn' = [spawn EXCEPT ![s] = [pc |-> "begin", pane |-> p, force |-> force,
                                    victim |-> Nobody]]
  /\ settled' = [settled EXCEPT ![s] =
                   {t \in Session : spawn[t].pc = "spawned" /\ spawn[t].pane = p /\ Holds(t, p)}]
  /\ UNCHANGED <<rows, processes, call, closes, drove, away, astray>>

\* spawn_preflight::check: a Running session in the pane is a conflict or, with
\* force, is killed first.
check(s, p, force) ==
  /\ spawn[s].pc = "idle"
  /\ \/ /\ running_tmux_occupant(p) = {}
        /\ spawn' = [spawn EXCEPT ![s] = [pc |-> "begin", pane |-> p, force |-> force,
                                          victim |-> Nobody]]
     \/ /\ ~force /\ running_tmux_occupant(p) # {}
        /\ spawn' = [spawn EXCEPT ![s] = [pc |-> "conflict", pane |-> p, force |-> force,
                                          victim |-> Nobody]]
     \/ /\ force
        /\ \E t \in running_tmux_occupant(p) :
             spawn' = [spawn EXCEPT ![s] = [pc |-> "kill", pane |-> p, force |-> force,
                                            victim |-> t]]
  /\ settled' = [settled EXCEPT ![s] =
                   {t \in Session : spawn[t].pc = "spawned" /\ spawn[t].pane = p /\ Holds(t, p)}]
  /\ UNCHANGED <<rows, processes, call, closes, drove, away, astray>>

\* kill_runtime with TERM: the runtime ends, or is ended, or is recorded as
\* ended; a container that docker does not know yet, or that it fails to inspect,
\* passes for one that has ended.  Nobody looks at the pane again.
kill_returns(s) ==
  /\ spawn[s].pc = "kill"
  /\ \/ runtime[spawn[s].victim] = "dead"
     \/ rows[spawn[s].victim].state = "Ended"
     \/ spawn[s].victim \in Docker
  /\ SpawnGo(s, "begin")
  /\ UNCHANGED <<rows, processes, call, closes, history>>

\* Mutant: a runtime that ignores TERM is left alone after the grace period.
kill_gives_up(s) ==
  /\ spawn[s].pc = "kill"
  /\ runtime[spawn[s].victim] = "live"
  /\ SpawnGo(s, "begin")
  /\ UNCHANGED <<rows, processes, call, closes, history>>

kill_escalates(s) ==
  /\ spawn[s].pc = "kill"
  /\ runtime[spawn[s].victim] = "live"
  /\ runtime' = [runtime EXCEPT ![spawn[s].victim] = "dead"]
  /\ SpawnGo(s, "begin")
  /\ UNCHANGED <<rows, shim, screen, call, closes, history>>

\* The kill fails, because the runtime was reaped between its last check and the
\* KILL, or with a docker command (see RuntimeKill), and the request with it.
kill_fails(s) ==
  /\ spawn[s].pc = "kill"
  /\ SpawnGo(s, "failed")
  /\ UNCHANGED <<rows, processes, call, closes, history>>

\* Mutant: the row names the pane before the shim is in it.
begin_spawn_pane(s) ==
  /\ spawn[s].pc = "begin" /\ is_alive(spawn[s].pane)
  /\ rows' = [rows EXCEPT ![s] = [state |-> "Forking", pane |-> spawn[s].pane]]
  /\ SpawnGo(s, "respawn")
  /\ UNCHANGED <<processes, call, closes, history>>

begin_spawn(s) ==
  /\ spawn[s].pc = "begin"
  /\ \/ /\ ~is_alive(spawn[s].pane)
        /\ SpawnGo(s, "failed") /\ UNCHANGED rows
     \/ /\ is_alive(spawn[s].pane)
        /\ rows' = [rows EXCEPT ![s].state = "Forking"]
        /\ SpawnGo(s, "respawn")
  /\ UNCHANGED <<processes, call, closes, history>>

\* tmux respawn-pane -k: whatever is in the pane is killed.
launch_tmux_shim(s) ==
  LET p == spawn[s].pane IN
  /\ spawn[s].pc = "respawn"
  /\ is_alive(p)
  /\ shim' = [t \in Session |-> IF t = s THEN "launch"
                                ELSE IF In(t, p) THEN "gone" ELSE shim[t]]
  /\ HangUpRuntime(p)
  /\ screen' = [screen EXCEPT ![p] = [what |-> "shim", who |-> s]]
  /\ SpawnGo(s, "wait")
  /\ drove' = [drove EXCEPT ![s] = IF \E t \in Session : Holds(t, p)
                                     THEN screen[p].who ELSE Nobody]
  /\ away' = away \cup ({screen[p].who} \cap Session)
  /\ UNCHANGED <<rows, call, closes, settled, astray>>

\* respawn-pane fails, because the pane is dead or otherwise: the row goes.
cancel_spawn(s) ==
  /\ spawn[s].pc = "respawn"
  /\ rows' = [rows EXCEPT ![s] = [state |-> "None", pane |-> NoPane]]
  /\ SpawnGo(s, "failed")
  /\ UNCHANGED <<processes, call, closes, history>>

ready_timeout(s) ==
  /\ spawn[s].pc = "wait"
  /\ SpawnGo(s, "late")
  /\ UNCHANGED <<rows, processes, call, closes, history>>

\* record_running reads the row, asks tmux, and writes.
record_get(s) ==
  /\ spawn[s].pc = "record"
  /\ SpawnGo(s, IF rows[s].state = "Forking" THEN "update" ELSE "failed")
  /\ UNCHANGED <<rows, processes, call, closes, history>>

record_running(s) ==
  /\ spawn[s].pc = "update"
  /\ rows' = [rows EXCEPT ![s] = [state |-> "Running", pane |-> spawn[s].pane]]
  /\ SpawnGo(s, "spawned")
  /\ UNCHANGED <<processes, call, closes, history>>

-----------------------------------------------------------------------------
(* The shim and the runtime.                                               *)

start_runtime(s) ==
  /\ shim[s] = "launch"
  /\ shim' = [shim EXCEPT ![s] = "ready"]
  /\ runtime' = [runtime EXCEPT ![s] = "live"]
  /\ UNCHANGED <<store, screen, call, closes, history>>

\* A ShimReady after its request has gone is recorded without the pane.  (Its first
\* attempt meets the dropped receiver and fails; it is repeated.)
record_reconnected_ready(s) ==
  rows' = [rows EXCEPT ![s].state = "Running"]

send_ready(s) ==
  /\ shim[s] = "ready"
  /\ shim' = [shim EXCEPT ![s] = "wait"]
  /\ \/ spawn[s].pc = "wait" /\ SpawnGo(s, "record") /\ UNCHANGED rows
     \/ /\ spawn[s].pc = "late" /\ rows[s].state \in {"Forking", "Running"}
        /\ record_reconnected_ready(s) /\ UNCHANGED spawn
  /\ UNCHANGED <<runtime, screen, call, closes, history>>

runtime_exits(s) ==
  /\ runtime[s] = "live"
  /\ runtime' = [runtime EXCEPT ![s] = "dead"]
  /\ UNCHANGED <<store, shim, screen, call, closes, history>>

\* The ShimExit that the daemon acknowledges.
send_exit(s) ==
  /\ shim[s] = "wait" /\ runtime[s] = "dead"
  /\ shim' = [shim EXCEPT ![s] = "exit"]
  /\ rows' = [rows EXCEPT ![s].state = "Ended"]
  /\ UNCHANGED <<spawn, runtime, screen, call, closes, history>>

exec_shell_resume(s) ==
  /\ shim[s] = "exit"
  /\ shim' = [shim EXCEPT ![s] = "gone"]
  /\ \E p \in Pane : /\ In(s, p)
                     /\ screen' = [screen EXCEPT ![p].what = "shell"]
  /\ UNCHANGED <<store, runtime, call, closes, history>>

\* The shim ends and its pane closes: the daemon cannot be reached in ten
\* attempts, or there is no shell to go on with.
shim_ends(s) ==
  /\ shim[s] \in {"launch", "ready", "wait", "exit"}
  /\ shim[s] = "wait" => runtime[s] = "dead"
  /\ \E p \in Pane : In(s, p) /\ HangUp(p) /\ Remove(p)
  /\ UNCHANGED <<store, call, closes, settled, drove, astray>>

\* Mutant: only a session with its shim is watched.
record_end_with_shim(s) ==
  /\ rows[s].state = "Running" /\ runtime[s] = "dead" /\ shim[s] # "gone"
  /\ rows' = [rows EXCEPT ![s].state = "Ended"]
  /\ UNCHANGED <<spawn, processes, call, closes, history>>

\* The exit watcher or the sweep: see Rtmd.
record_end(s) ==
  /\ rows[s].state = "Running" /\ runtime[s] = "dead"
  /\ rows' = [rows EXCEPT ![s].state = "Ended"]
  /\ UNCHANGED <<spawn, processes, call, closes, history>>

\* To the sweep, too, a container that docker does not show is one that has ended.
container_not_shown(s) ==
  /\ rows[s].state = "Running" /\ s \in Docker
  /\ rows' = [rows EXCEPT ![s].state = "Ended"]
  /\ UNCHANGED <<spawn, processes, call, closes, history>>

-----------------------------------------------------------------------------
(* Nudges and captures.                                                    *)

Reply(c) == call' = [call EXCEPT ![c] = NoCall]

\* Mutant: a nudge presses Enter twice.
read_row_extra(c, op, s) ==
  /\ call[c].pc = "idle"
  /\ rows[s].state # "None" /\ rows[s].pane # NoPane
  /\ call' = [call EXCEPT ![c] = [pc |-> "alive", session |-> s, pane |-> rows[s].pane,
                                  left |-> IF op = "nudge" THEN 4 ELSE 2]]
  /\ UNCHANGED <<store, processes, closes, history>>

\* A session without a row or a pane is answered at once.
read_row(c, op, s) ==
  /\ call[c].pc = "idle"
  /\ rows[s].state # "None" /\ rows[s].pane # NoPane
  /\ call' = [call EXCEPT ![c] =
                [pc |-> IF op = "nudge" THEN "terminal" ELSE "alive", session |-> s,
                 pane |-> rows[s].pane, left |-> IF op = "nudge" THEN 3 ELSE 2]]
  /\ UNCHANGED <<store, processes, closes, history>>

\* A nudge reads the row again and gives up on an ended session.
is_terminal(c) ==
  /\ call[c].pc = "terminal"
  /\ IF rows[call[c].session].state = "Ended" THEN Reply(c)
     ELSE call' = [call EXCEPT ![c].pc = "alive"]
  /\ UNCHANGED <<store, processes, closes, history>>

pane_alive(c) ==
  /\ call[c].pc = "alive"
  /\ IF is_alive(call[c].pane) THEN call' = [call EXCEPT ![c].pc = "act"] ELSE Reply(c)
  /\ UNCHANGED <<store, processes, closes, history>>

\* One of the three send-keys of a nudge, or of the two commands of a capture.
tmux_command(c) ==
  LET who == screen[call[c].pane].who
      s == call[c].session
  IN /\ call[c].pc = "act"
     /\ IF is_alive(call[c].pane) /\ call[c].left > 1
          THEN call' = [call EXCEPT ![c].left = @ - 1]
          ELSE Reply(c)
     /\ astray' = IF is_alive(call[c].pane) /\ who # s /\ s \notin away
                    THEN astray \cup {s} ELSE astray
     /\ UNCHANGED <<store, processes, closes, settled, drove, away>>

-----------------------------------------------------------------------------

SpawnStep(s) ==
  \/ kill_returns(s) \/ kill_escalates(s)
  \/ begin_spawn(s) \/ launch_tmux_shim(s)
  \/ record_get(s) \/ record_running(s)

Next ==
  \/ \E s \in Session :
       \/ \E p \in Pane, force \in BOOLEAN : check(s, p, force)
       \/ SpawnStep(s)
       \/ kill_fails(s) \/ cancel_spawn(s) \/ ready_timeout(s)
       \/ start_runtime(s) \/ send_ready(s) \/ runtime_exits(s) \/ send_exit(s)
       \/ exec_shell_resume(s) \/ shim_ends(s)
       \/ record_end(s) \/ container_not_shown(s)
  \/ \E c \in Client :
       \/ \E s \in Session, op \in {"nudge", "capture"} : read_row(c, op, s)
       \/ is_terminal(c) \/ pane_alive(c) \/ tmux_command(c)
  \/ \E p \in Pane : close_pane(p)

\* The daemon's tasks and watchers go on; nothing makes a kill or a launch fail.
Fairness ==
  \A s \in Session : WF_vars(SpawnStep(s)) /\ WF_vars(record_end(s))

Spec == Init /\ [][Next]_vars /\ Fairness

-----------------------------------------------------------------------------
(* Properties.                                                             *)

\* A host session whose spawn was answered, and which lives in the pane it asked
\* for, is not driven out of it by an unforced spawn that checks the pane
\* afterwards.  (The row of a container may be called ended while it runs.)
SettledIsKept ==
  \A s \in Session : drove[s] \in settled[s] \ Docker => spawn[s].force

\* version.rs, "Spawn rejects session reuse and occupied tmux panes with typed
\* conflicts.": an unforced spawn never drives a live session out of its pane.
OccupiedIsRejected ==
  \A s \in Session : drove[s] # Nobody => spawn[s].force

\* A nudge types into, and a capture shows, the pane of the session that was
\* named, unless that pane was taken, moved or closed meanwhile.
ReachesSession == astray = {}

\* A pane that was given back to a shell is, from some time on, that of a
\* session recorded as ended, so that nothing more is typed into the shell: the
\* late write of record_running does not stay.
ShellIsEnded ==
  \A s \in Session :
    (\E p \in Pane : screen[p] = [what |-> "shell", who |-> s])
      ~> [](rows[s].state = "Ended")

\* A host session that a forced spawn has killed before it takes the pane is
\* recorded as ended.
VictimEnds ==
  \A s \in Session, t \in Session \ Docker :
    spawn[s].pc = "begin" /\ spawn[s].victim = t ~> rows[t].state = "Ended"
=============================================================================
