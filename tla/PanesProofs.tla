----------------------------- MODULE PanesProofs -----------------------------
(***************************************************************************)
(* For any number of sessions, panes, calls and closed panes: an unforced  *)
(* spawn does not drive out a host session that had settled in the pane    *)
(* before it looked, and a nudge or a capture reaches the session it names *)
(* as long as that session keeps its pane.                                 *)
(***************************************************************************)
EXTENDS Panes, TLAPS

\* A shim that has not started its runtime was launched by a request that is
\* still waiting, or has stopped waiting, for it.
Launching ==
  \A s \in Session : shim[s] = "launch" => spawn[s].pc \in {"wait", "late"}

\* As long as the host runtime of an answered spawn lives, its row says where.
SpawnedIsRow ==
  \A s \in Session \ Docker :
    spawn[s].pc = "spawned" /\ runtime[s] = "live" =>
      rows[s] = [state |-> "Running", pane |-> spawn[s].pane]

\* A request without force that got past its check found no host session settled.
Unforced ==
  \A s \in Session :
    /\ spawn[s].pc = "idle" => drove[s] = Nobody
    /\ spawn[s].pc = "kill" => spawn[s].force
    /\ ~spawn[s].force => \/ settled[s] \subseteq Docker
                          \/ spawn[s].pc = "conflict" /\ drove[s] = Nobody

\* A session that was launched is in its pane until the pane is taken, moved or
\* closed.
Placed ==
  \A s \in Session :
    /\ spawn[s].pc # "idle" => spawn[s].pane \in Pane
    /\ spawn[s].pc \in {"wait", "record", "update", "late", "spawned"} /\ s \notin away =>
         screen[spawn[s].pane].who = s

\* The pane of a row is the one that the session was spawned into.
RowPlaced ==
  \A s \in Session :
    rows[s].pane # NoPane => spawn[s].pc = "spawned" /\ rows[s].pane = spawn[s].pane

CallPlaced ==
  \A c \in Client :
    call[c].pc # "idle" => /\ call[c].session \in Session
                           /\ spawn[call[c].session].pc = "spawned"
                           /\ call[c].pane = spawn[call[c].session].pane
                           /\ call[c].left # 0

IInv ==
  /\ TypeOK /\ Launching /\ SpawnedIsRow /\ Unforced
  /\ Placed /\ RowPlaced /\ CallPlaced /\ ReachesSession

-----------------------------------------------------------------------------

LEMMA InitHolds == Init => IInv
<1> SUFFICES ASSUME Init PROVE IInv
  OBVIOUS
<1> USE Bounded DEF Init, Pane, NoPane
<1>1. TypeOK
  BY DEF TypeOK, Row, SpawnState, Cell, CallState, NoCall
<1>2. Launching /\ SpawnedIsRow /\ Unforced /\ Placed
  BY DEF Launching, SpawnedIsRow, Unforced, Placed
<1>3. RowPlaced /\ CallPlaced /\ ReachesSession
  BY DEF RowPlaced, CallPlaced, NoCall, ReachesSession
<1> QED
  BY <1>1, <1>2, <1>3 DEF IInv

\* At a check, the settled host sessions are Running in the store.
LEMMA SettledIsOccupant ==
  ASSUME IInv, NEW p \in Pane, running_tmux_occupant(p) = {}
  PROVE  {t \in Session : spawn[t].pc = "spawned" /\ spawn[t].pane = p /\ Holds(t, p)}
           \subseteq Docker
  BY DEF IInv, SpawnedIsRow, running_tmux_occupant, Holds

\* The parts of the invariant that a step which leaves the panes and the requests
\* alone can disturb.
LEMMA StillPlaced ==
  ASSUME IInv, UNCHANGED <<spawn, screen, call, away, astray, settled, drove>>
  PROVE  Unforced' /\ Placed' /\ CallPlaced' /\ ReachesSession'
  BY DEF IInv, Unforced, Placed, CallPlaced, ReachesSession

\* The parts that a step of a request disturbs when the pane has been chosen.
LEMMA RequestPlaced ==
  ASSUME IInv, NEW s \in Session, NEW pc, SpawnGo(s, pc),
         spawn[s].pc \notin {"idle", "conflict", "spawned"},
         pc \notin {"idle", "kill", "conflict"},
         \/ pc \in {"begin", "respawn", "failed"}
         \/ spawn[s].pc \in {"wait", "record", "update", "late"},
         UNCHANGED <<screen, call, away, astray, settled, drove>>
  PROVE  /\ \A t \in Session : /\ spawn'[t].pane = spawn[t].pane
                               /\ spawn'[t].force = spawn[t].force
                               /\ spawn'[t].pc = IF t = s THEN pc ELSE spawn[t].pc
         /\ Unforced' /\ Placed' /\ CallPlaced' /\ ReachesSession'
<1>1. \A t \in Session : /\ spawn'[t].pane = spawn[t].pane
                         /\ spawn'[t].force = spawn[t].force
                         /\ spawn'[t].pc = IF t = s THEN pc ELSE spawn[t].pc
  BY DEF SpawnGo, IInv, TypeOK, SpawnState
<1>2. Unforced'
  BY <1>1 DEF IInv, Unforced
<1>3. Placed'
  BY <1>1 DEF IInv, Placed
<1>4. CallPlaced' /\ ReachesSession'
  BY <1>1 DEF IInv, CallPlaced, ReachesSession
<1> QED
  BY <1>1, <1>2, <1>3, <1>4

LEMMA HangUpRuntimeEnds ==
  ASSUME IInv, NEW p \in Pane, HangUpRuntime(p)
  PROVE  /\ runtime' \in [Session -> {"unborn", "live", "dead"}]
         /\ \A s \in Session : runtime'[s] = "live" => runtime[s] = "live"
  BY DEF HangUpRuntime, IInv, TypeOK

LEMMA HangUpEnds ==
  ASSUME IInv, NEW p \in Pane, HangUp(p)
  PROVE  /\ shim' \in [Session -> {"none", "launch", "ready", "wait", "exit", "gone"}]
         /\ \A s \in Session : shim'[s] = "launch" => shim[s] = "launch"
         /\ runtime' \in [Session -> {"unborn", "live", "dead"}]
         /\ \A s \in Session : runtime'[s] = "live" => runtime[s] = "live"
<1>1. HangUpRuntime(p)
  BY DEF HangUp
<1>2. shim' = [s \in Session |-> IF In(s, p) THEN "gone" ELSE shim[s]]
  BY DEF HangUp
<1> QED
  BY <1>1, <1>2, HangUpRuntimeEnds DEF IInv, TypeOK

\* The panes before the one that goes stay; the sessions in the others are away.
LEMMA RemoveMoves ==
  ASSUME IInv, NEW p \in Pane, Remove(p), UNCHANGED <<spawn, call, settled, drove, astray>>
  PROVE  /\ screen' \in [Pane -> Cell] /\ away' \in SUBSET Session
         /\ Unforced' /\ Placed' /\ CallPlaced' /\ ReachesSession'
<1> USE Bounded DEF Pane
<1>1. screen' = [q \in Pane |-> IF q < p THEN screen[q]
                               ELSE IF q < Panes THEN screen[q + 1] ELSE Dead]
  BY DEF Remove
<1>2. away' = away \cup {s \in Session : \E q \in Pane : q >= p /\ screen[q].who = s}
  BY DEF Remove
<1>3. screen' \in [Pane -> Cell]
  <2>1. Dead \in Cell
    BY DEF Dead, Cell
  <2>2. \A q \in Pane : q < Panes => q + 1 \in Pane
    OBVIOUS
  <2>3. screen \in [Pane -> Cell]
    BY DEF IInv, TypeOK
  <2>4. \A q \in Pane : q < Panes => screen[q + 1] \in Cell
    BY <2>2, <2>3
  <2> QED
    BY <1>1, <2>1, <2>3, <2>4
<1>4. away' \in SUBSET Session
  BY <1>2 DEF IInv, TypeOK
<1>5. Placed'
  <2> SUFFICES ASSUME NEW s \in Session
               PROVE  /\ spawn[s].pc # "idle" => spawn[s].pane \in Pane
                      /\ spawn[s].pc \in {"wait", "record", "update", "late", "spawned"}
                           /\ s \notin away' => screen'[spawn[s].pane].who = s
    BY DEF Placed
  <2>1. spawn[s].pc # "idle" => spawn[s].pane \in Pane
    BY DEF IInv, Placed
  <2>2. ASSUME spawn[s].pc \in {"wait", "record", "update", "late", "spawned"}, s \notin away'
        PROVE  screen'[spawn[s].pane].who = s
    <3>1. spawn[s].pane \in Pane /\ screen[spawn[s].pane].who = s
      BY <1>2, <2>1, <2>2 DEF IInv, Placed
    <3>2. ~(spawn[s].pane >= p)
      BY <1>2, <2>2, <3>1
    <3> QED
      BY <1>1, <3>1, <3>2
  <2> QED
    BY <2>1, <2>2
<1>6. Unforced' /\ CallPlaced' /\ ReachesSession'
  BY DEF IInv, Unforced, CallPlaced, ReachesSession
<1> QED
  BY <1>3, <1>4, <1>5, <1>6

-----------------------------------------------------------------------------
(* The spawn request.                                                      *)

LEMMA CheckKeeps ==
  ASSUME IInv, NEW s \in Session, NEW p \in Pane, NEW force \in BOOLEAN, check(s, p, force)
  PROVE  IInv'
<1> DEFINE held == {t \in Session : spawn[t].pc = "spawned" /\ spawn[t].pane = p /\ Holds(t, p)}
<1>1. PICK pc \in {"begin", "conflict", "kill"}, victim \in Session \cup {Nobody} :
        /\ spawn' = [spawn EXCEPT ![s] = [pc |-> pc, pane |-> p, force |-> force,
                                          victim |-> victim]]
        /\ pc = "begin" => running_tmux_occupant(p) = {}
        /\ pc = "kill" => force
  <2>1. running_tmux_occupant(p) \subseteq Session
    BY DEF running_tmux_occupant
  <2> QED
    BY <2>1, Zenon DEF check
<1>2. /\ spawn[s].pc = "idle" /\ settled' = [settled EXCEPT ![s] = held]
      /\ UNCHANGED <<rows, shim, runtime, screen, call, closes, drove, away, astray>>
  BY DEF check, processes
<1>3. pc = "begin" => held \subseteq Docker
  BY <1>1, SettledIsOccupant
<1>4. held \in SUBSET Session
  OBVIOUS
<1> HIDE DEF held
<1>5. TypeOK'
  BY <1>1, <1>2, <1>4 DEF IInv, TypeOK, SpawnState
<1>6. \A t \in Session : /\ t # s => spawn'[t] = spawn[t] /\ settled'[t] = settled[t]
                         /\ t = s => /\ spawn'[t].pc = pc /\ spawn'[t].force = force
                                     /\ spawn'[t].pane = p /\ settled'[t] = held
  BY <1>1, <1>2 DEF IInv, TypeOK
<1>7. Launching' /\ SpawnedIsRow'
  BY <1>2, <1>6 DEF IInv, Launching, SpawnedIsRow
<1>8. Unforced'
  BY <1>1, <1>2, <1>3, <1>6 DEF IInv, Unforced
<1>9. Placed' /\ RowPlaced'
  BY <1>2, <1>6 DEF IInv, Placed, RowPlaced
<1>10. CallPlaced' /\ ReachesSession'
  BY <1>2, <1>6 DEF IInv, CallPlaced, ReachesSession
<1> QED
  BY <1>5, <1>7, <1>8, <1>9, <1>10 DEF IInv

\* The type of the requests after a step of one.
LEMMA SpawnGoType ==
  ASSUME IInv, NEW s \in Session, SpawnGo(s, "begin") \/ SpawnGo(s, "respawn") \/
         SpawnGo(s, "wait") \/ SpawnGo(s, "record") \/ SpawnGo(s, "update") \/
         SpawnGo(s, "late") \/ SpawnGo(s, "failed") \/ SpawnGo(s, "spawned")
  PROVE  spawn' \in [Session -> SpawnState]
  BY DEF SpawnGo, IInv, TypeOK, SpawnState

LEMMA KillKeeps ==
  ASSUME IInv, NEW s \in Session, kill_returns(s) \/ kill_escalates(s)
  PROVE  IInv'
<1>1. /\ spawn[s].pc = "kill" /\ SpawnGo(s, "begin")
      /\ UNCHANGED <<rows, shim, screen, call, closes, settled, drove, away, astray>>
      /\ runtime' = runtime \/ runtime' = [runtime EXCEPT ![spawn[s].victim] = "dead"]
  BY DEF kill_returns, kill_escalates, processes, history
<1>2. /\ runtime' \in [Session -> {"unborn", "live", "dead"}]
      /\ \A t \in Session : runtime'[t] = "live" => runtime[t] = "live"
  BY <1>1 DEF IInv, TypeOK
<1>3. TypeOK'
  BY <1>1, <1>2, SpawnGoType DEF IInv, TypeOK
<1>4. /\ \A t \in Session : /\ spawn'[t].pane = spawn[t].pane
                            /\ spawn'[t].pc = IF t = s THEN "begin" ELSE spawn[t].pc
      /\ Unforced' /\ Placed' /\ CallPlaced' /\ ReachesSession'
  BY <1>1, RequestPlaced
<1>5. Launching' /\ SpawnedIsRow' /\ RowPlaced'
  BY <1>1, <1>2, <1>4 DEF IInv, Launching, SpawnedIsRow, RowPlaced
<1> QED
  BY <1>3, <1>4, <1>5 DEF IInv

LEMMA RequestKeeps ==
  ASSUME IInv, NEW s \in Session,
         \/ kill_fails(s) \/ begin_spawn(s) \/ cancel_spawn(s)
         \/ ready_timeout(s) \/ record_get(s)
  PROVE  IInv'
<1>1. PICK pc \in {"respawn", "failed", "late", "update"} :
        /\ SpawnGo(s, pc)
        /\ spawn[s].pc \in {"kill", "begin", "respawn", "wait", "record"}
        /\ pc \in {"respawn", "failed"} \/ spawn[s].pc \in {"wait", "record"}
        /\ spawn[s].pc = "wait" => pc = "late"
  <2>1. CASE begin_spawn(s)
    BY <2>1 DEF begin_spawn
  <2>2. CASE cancel_spawn(s)
    BY <2>2 DEF cancel_spawn
  <2>3. CASE ready_timeout(s)
    BY <2>3 DEF ready_timeout
  <2>4. CASE record_get(s)
    BY <2>4 DEF record_get
  <2>5. CASE kill_fails(s)
    BY <2>5 DEF kill_fails
  <2> QED
    BY <2>1, <2>2, <2>3, <2>4, <2>5
<1>2. /\ UNCHANGED <<shim, runtime, screen, call, closes, settled, drove, away, astray>>
      /\ \/ rows' = rows
         \/ rows' = [rows EXCEPT ![s].state = "Forking"]
         \/ rows' = [rows EXCEPT ![s] = [state |-> "None", pane |-> NoPane]]
  BY DEF kill_fails, begin_spawn, cancel_spawn, ready_timeout, record_get, processes, history
<1>3. /\ rows' \in [Session -> Row]
      /\ \A t \in Session : rows'[t].pane \in {rows[t].pane, NoPane}
      /\ \A t \in Session : t # s => rows'[t] = rows[t]
  <2>1. rows \in [Session -> Row]
    BY DEF IInv, TypeOK
  <2>2. CASE rows' = rows
    BY <2>1, <2>2
  <2>3. CASE rows' = [rows EXCEPT ![s].state = "Forking"]
    BY <2>1, <2>3 DEF Row
  <2>4. CASE rows' = [rows EXCEPT ![s] = [state |-> "None", pane |-> NoPane]]
    <3>1. [state |-> "None", pane |-> NoPane] \in Row
      BY DEF Row
    <3> QED
      BY <2>1, <2>4, <3>1
  <2> QED
    BY <1>2, <2>2, <2>3, <2>4
<1>4. TypeOK'
  BY <1>1, <1>2, <1>3, SpawnGoType DEF IInv, TypeOK
<1>5. /\ \A t \in Session : /\ spawn'[t].pane = spawn[t].pane
                            /\ spawn'[t].pc = IF t = s THEN pc ELSE spawn[t].pc
      /\ Unforced' /\ Placed' /\ CallPlaced' /\ ReachesSession'
  BY <1>1, <1>2, RequestPlaced
<1>6. Launching' /\ SpawnedIsRow' /\ RowPlaced'
  <2>1. Launching'
    BY <1>1, <1>2, <1>5 DEF IInv, Launching
  <2>2. SpawnedIsRow'
    BY <1>1, <1>2, <1>3, <1>5 DEF IInv, SpawnedIsRow
  <2>3. RowPlaced'
    BY <1>1, <1>3, <1>5 DEF IInv, RowPlaced
  <2> QED
    BY <2>1, <2>2, <2>3
<1> QED
  BY <1>4, <1>5, <1>6 DEF IInv

LEMMA RecordRunningKeeps ==
  ASSUME IInv, NEW s \in Session, record_running(s)
  PROVE  IInv'
<1>1. /\ spawn[s].pc = "update" /\ SpawnGo(s, "spawned")
      /\ rows' = [rows EXCEPT ![s] = [state |-> "Running", pane |-> spawn[s].pane]]
      /\ UNCHANGED <<shim, runtime, screen, call, closes, settled, drove, away, astray>>
  BY DEF record_running, processes, history
<1>2. /\ \A t \in Session : /\ spawn'[t].pane = spawn[t].pane
                            /\ spawn'[t].pc = IF t = s THEN "spawned" ELSE spawn[t].pc
      /\ Unforced' /\ Placed' /\ CallPlaced' /\ ReachesSession'
  BY <1>1, RequestPlaced
<1>3. /\ rows' \in [Session -> Row]
      /\ rows'[s] = [state |-> "Running", pane |-> spawn[s].pane]
      /\ \A t \in Session : t # s => rows'[t] = rows[t]
  BY <1>1 DEF IInv, TypeOK, Row, SpawnState
<1>4. TypeOK'
  BY <1>1, <1>3, SpawnGoType DEF IInv, TypeOK
<1>5. Launching' /\ SpawnedIsRow' /\ RowPlaced'
  BY <1>1, <1>2, <1>3 DEF IInv, Launching, SpawnedIsRow, RowPlaced
<1> QED
  BY <1>2, <1>4, <1>5 DEF IInv

LEMMA LaunchKeeps ==
  ASSUME IInv, NEW s \in Session, launch_tmux_shim(s)
  PROVE  IInv'
<1> DEFINE p == spawn[s].pane
<1>1. /\ spawn[s].pc = "respawn" /\ SpawnGo(s, "wait")
      /\ shim' = [t \in Session |-> IF t = s THEN "launch"
                                    ELSE IF In(t, p) THEN "gone" ELSE shim[t]]
      /\ HangUpRuntime(p)
      /\ screen' = [screen EXCEPT ![p] = [what |-> "shim", who |-> s]]
      /\ away' = away \cup ({screen[p].who} \cap Session)
      /\ UNCHANGED <<rows, call, closes, settled, astray>>
  BY DEF launch_tmux_shim
<1>2. drove' = [drove EXCEPT ![s] = IF \E t \in Session : Holds(t, p)
                                     THEN screen[p].who ELSE Nobody]
  BY DEF launch_tmux_shim
<1>3. p \in Pane
  BY <1>1 DEF IInv, Placed
<1>4. \A t \in Session : /\ spawn'[t].pane = spawn[t].pane
                         /\ spawn'[t].force = spawn[t].force
                         /\ spawn'[t].pc = IF t = s THEN "wait" ELSE spawn[t].pc
  BY <1>1 DEF SpawnGo, IInv, TypeOK, SpawnState
<1> HIDE DEF p
<1>5. /\ runtime' \in [Session -> {"unborn", "live", "dead"}]
      /\ \A t \in Session : runtime'[t] = "live" => runtime[t] = "live"
  BY <1>1, <1>3, HangUpRuntimeEnds
<1>6. TypeOK'
  <2>1. shim' \in [Session -> {"none", "launch", "ready", "wait", "exit", "gone"}]
    BY <1>1 DEF IInv, TypeOK
  <2>2. screen' \in [Pane -> Cell] /\ away' \in SUBSET Session
    BY <1>1 DEF IInv, TypeOK, Cell
  <2>3. drove' \in [Session -> Session \cup {Nobody}]
    <3>1. screen[p].who \in Session \cup {Nobody}
      BY <1>3 DEF IInv, TypeOK, Cell
    <3> QED
      BY <1>2, <3>1 DEF IInv, TypeOK
  <2> QED
    BY <1>1, <1>5, <2>1, <2>2, <2>3, SpawnGoType DEF IInv, TypeOK
<1>7. Launching' /\ SpawnedIsRow' /\ RowPlaced'
  BY <1>1, <1>4, <1>5 DEF IInv, Launching, SpawnedIsRow, RowPlaced
<1>8. Unforced'
  <2>1. \A t \in Session : t # s => drove'[t] = drove[t]
    BY <1>2 DEF IInv, TypeOK
  <2> QED
    BY <1>1, <1>4, <2>1 DEF IInv, Unforced
<1>9. Placed'
  <2>1. screen'[p].who = s /\ \A q \in Pane : q # p => screen'[q] = screen[q]
    BY <1>1, <1>3 DEF IInv, TypeOK
  <2>2. \A t \in Session : t \notin away' => t \notin away /\ screen[p].who # t
    BY <1>1
  <2> QED
    BY <1>1, <1>3, <1>4, <2>1, <2>2 DEF IInv, Placed, p
<1>10. CallPlaced' /\ ReachesSession'
  BY <1>1, <1>4 DEF IInv, CallPlaced, ReachesSession
<1> QED
  BY <1>6, <1>7, <1>8, <1>9, <1>10 DEF IInv

-----------------------------------------------------------------------------
(* The shim, the runtime and the user.                                     *)

LEMMA ProcessKeeps ==
  ASSUME IInv, NEW s \in Session,
         \/ start_runtime(s) \/ runtime_exits(s) \/ send_exit(s)
         \/ record_end(s) \/ container_not_shown(s)
  PROVE  IInv'
<1>1. UNCHANGED <<spawn, screen, call, closes, settled, drove, away, astray>>
  BY DEF start_runtime, runtime_exits, send_exit, record_end, container_not_shown, store,
         processes, history
<1>2. CASE start_runtime(s)
  <2>1. /\ shim[s] = "launch" /\ shim' = [shim EXCEPT ![s] = "ready"]
        /\ runtime' = [runtime EXCEPT ![s] = "live"] /\ rows' = rows
    BY <1>2 DEF start_runtime, store
  <2>2. TypeOK'
    BY <1>1, <2>1 DEF IInv, TypeOK
  <2>3. Launching' /\ SpawnedIsRow' /\ RowPlaced'
    BY <1>1, <2>1 DEF IInv, TypeOK, Launching, SpawnedIsRow, RowPlaced
  <2> QED
    BY <1>1, <2>2, <2>3, StillPlaced DEF IInv
<1>3. CASE runtime_exits(s)
  <2>1. runtime' = [runtime EXCEPT ![s] = "dead"] /\ UNCHANGED <<shim, rows>>
    BY <1>3 DEF runtime_exits, store
  <2>2. TypeOK'
    BY <1>1, <2>1 DEF IInv, TypeOK
  <2>3. Launching' /\ SpawnedIsRow' /\ RowPlaced'
    BY <1>1, <2>1 DEF IInv, TypeOK, Launching, SpawnedIsRow, RowPlaced
  <2> QED
    BY <1>1, <2>2, <2>3, StillPlaced DEF IInv
<1>4. CASE send_exit(s) \/ record_end(s) \/ container_not_shown(s)
  <2>1. /\ runtime[s] = "dead" \/ s \in Docker
        /\ runtime' = runtime
        /\ rows' = [rows EXCEPT ![s].state = "Ended"]
        /\ shim' = shim \/ shim' = [shim EXCEPT ![s] = "exit"]
    BY <1>4 DEF send_exit, record_end, container_not_shown, processes
  <2>2. /\ rows' \in [Session -> Row]
        /\ \A t \in Session : rows'[t].pane = rows[t].pane /\ (t # s => rows'[t] = rows[t])
    BY <2>1 DEF IInv, TypeOK, Row
  <2>3. TypeOK'
    BY <1>1, <2>1, <2>2 DEF IInv, TypeOK
  <2>4. Launching' /\ SpawnedIsRow' /\ RowPlaced'
    BY <1>1, <2>1, <2>2 DEF IInv, TypeOK, Launching, SpawnedIsRow, RowPlaced
  <2> QED
    BY <1>1, <2>3, <2>4, StillPlaced DEF IInv
<1> QED
  BY <1>2, <1>3, <1>4

LEMMA SendReadyKeeps ==
  ASSUME IInv, NEW s \in Session, send_ready(s)
  PROVE  IInv'
<1>1. /\ shim[s] = "ready" /\ shim' = [shim EXCEPT ![s] = "wait"]
      /\ UNCHANGED <<runtime, screen, call, closes, settled, drove, away, astray>>
  BY DEF send_ready, history
<1>2. CASE spawn[s].pc = "wait" /\ SpawnGo(s, "record") /\ UNCHANGED rows
  <2>1. /\ \A t \in Session : /\ spawn'[t].pane = spawn[t].pane
                              /\ spawn'[t].pc = IF t = s THEN "record" ELSE spawn[t].pc
        /\ Unforced' /\ Placed' /\ CallPlaced' /\ ReachesSession'
    BY <1>1, <1>2, RequestPlaced
  <2>2. TypeOK'
    BY <1>1, <1>2, SpawnGoType DEF IInv, TypeOK
  <2>3. Launching'
    BY <1>1, <1>2, <2>1 DEF IInv, TypeOK, Launching
  <2>4. SpawnedIsRow' /\ RowPlaced'
    BY <1>1, <1>2, <2>1 DEF IInv, SpawnedIsRow, RowPlaced
  <2> QED
    BY <2>1, <2>2, <2>3, <2>4 DEF IInv
<1>3. CASE spawn[s].pc = "late" /\ record_reconnected_ready(s) /\ UNCHANGED spawn
  <2>1. /\ rows' \in [Session -> Row]
        /\ \A t \in Session : rows'[t].pane = rows[t].pane /\ (t # s => rows'[t] = rows[t])
    BY <1>3 DEF record_reconnected_ready, IInv, TypeOK, Row
  <2>2. TypeOK'
    BY <1>1, <1>3, <2>1 DEF IInv, TypeOK
  <2>3. Launching' /\ SpawnedIsRow' /\ RowPlaced'
    BY <1>1, <1>3, <2>1 DEF IInv, TypeOK, Launching, SpawnedIsRow, RowPlaced
  <2> QED
    BY <1>1, <1>3, <2>2, <2>3, StillPlaced DEF IInv
<1> QED
  BY <1>2, <1>3 DEF send_ready

LEMMA ShellKeeps ==
  ASSUME IInv, NEW s \in Session, exec_shell_resume(s)
  PROVE  IInv'
<1>1. PICK p \in Pane : screen' = [screen EXCEPT ![p].what = "shell"]
  BY DEF exec_shell_resume
<1>2. /\ shim' = [shim EXCEPT ![s] = "gone"]
      /\ UNCHANGED <<rows, spawn, runtime, call, closes, settled, drove, away, astray>>
  BY DEF exec_shell_resume, store, history
<1>3. screen' \in [Pane -> Cell] /\ \A q \in Pane : screen'[q].who = screen[q].who
  BY <1>1 DEF IInv, TypeOK, Cell
<1>4. TypeOK'
  BY <1>2, <1>3 DEF IInv, TypeOK
<1>5. Launching' /\ SpawnedIsRow' /\ RowPlaced'
  BY <1>2 DEF IInv, TypeOK, Launching, SpawnedIsRow, RowPlaced
<1>6. Placed'
  BY <1>2, <1>3 DEF IInv, Placed
<1>7. Unforced' /\ CallPlaced' /\ ReachesSession'
  BY <1>2 DEF IInv, Unforced, CallPlaced, ReachesSession
<1> QED
  BY <1>4, <1>5, <1>6, <1>7 DEF IInv

LEMMA PaneGoes ==
  ASSUME IInv, NEW p \in Pane, HangUp(p), Remove(p), closes' \in 0..MaxCloses,
         UNCHANGED <<rows, spawn, call, settled, drove, astray>>
  PROVE  IInv'
<1>1. TypeOK'
  BY HangUpEnds, RemoveMoves DEF IInv, TypeOK
<1>2. Launching' /\ SpawnedIsRow' /\ RowPlaced'
  BY HangUpEnds DEF IInv, Launching, SpawnedIsRow, RowPlaced
<1> QED
  BY <1>1, <1>2, RemoveMoves DEF IInv

LEMMA ClosesKeep ==
  ASSUME IInv, (\E p \in Pane : close_pane(p)) \/ (\E s \in Session : shim_ends(s))
  PROVE  IInv'
<1>1. ASSUME NEW p \in Pane, close_pane(p) PROVE IInv'
  <2>1. closes' \in 0..MaxCloses
    BY <1>1, Bounded DEF close_pane, IInv, TypeOK
  <2> QED
    BY <1>1, <2>1, PaneGoes DEF close_pane, store
<1>2. ASSUME NEW s \in Session, shim_ends(s) PROVE IInv'
  <2>1. PICK p \in Pane : HangUp(p) /\ Remove(p)
    BY <1>2 DEF shim_ends
  <2>2. closes' \in 0..MaxCloses
    BY <1>2 DEF shim_ends, IInv, TypeOK
  <2> QED
    BY <1>2, <2>1, <2>2, PaneGoes DEF shim_ends, store
<1> QED
  BY <1>1, <1>2

-----------------------------------------------------------------------------
(* Nudges and captures.                                                    *)

LEMMA CallsKeep ==
  ASSUME IInv, NEW c \in Client, NEW x \in CallState, call' = [call EXCEPT ![c] = x],
         x.pc # "idle" => /\ x.session \in Session
                          /\ spawn[x.session].pc = "spawned"
                          /\ x.pane = spawn[x.session].pane
                          /\ x.left # 0,
         UNCHANGED <<rows, spawn, shim, runtime, screen, closes, settled, drove, away, astray>>
  PROVE  IInv'
<1>1. call' \in [Client -> CallState] /\ call'[c] = x /\ \A b \in Client : b # c => call'[b] = call[b]
  BY DEF IInv, TypeOK
<1>2. TypeOK'
  BY <1>1 DEF IInv, TypeOK
<1>3. CallPlaced'
  BY <1>1 DEF IInv, CallPlaced
<1>4. Launching' /\ SpawnedIsRow' /\ RowPlaced' /\ Unforced' /\ Placed' /\ ReachesSession'
  BY DEF IInv, Launching, SpawnedIsRow, RowPlaced, Unforced, Placed, ReachesSession
<1> QED
  BY <1>2, <1>3, <1>4 DEF IInv

LEMMA ReplyKeeps ==
  ASSUME IInv, NEW c \in Client, Reply(c),
         UNCHANGED <<rows, spawn, shim, runtime, screen, closes, settled, drove, away, astray>>
  PROVE  IInv'
<1>1. NoCall \in CallState /\ NoCall.pc = "idle"
  BY DEF NoCall, CallState
<1> QED
  BY <1>1, CallsKeep DEF Reply

LEMMA ReadRowKeeps ==
  ASSUME IInv, NEW c \in Client, NEW s \in Session, NEW op \in {"nudge", "capture"},
         read_row(c, op, s)
  PROVE  IInv'
<1> DEFINE x == [pc |-> IF op = "nudge" THEN "terminal" ELSE "alive", session |-> s,
                 pane |-> rows[s].pane, left |-> IF op = "nudge" THEN 3 ELSE 2]
<1>1. /\ rows[s].pane # NoPane /\ call' = [call EXCEPT ![c] = x]
      /\ UNCHANGED <<rows, spawn, shim, runtime, screen, closes, settled, drove, away, astray>>
  BY DEF read_row, store, processes, history
<1>2. x \in CallState
  BY DEF IInv, TypeOK, Row, CallState
<1>3. /\ x.session = s /\ x.pane = rows[s].pane /\ x.left # 0
      /\ spawn[s].pc = "spawned" /\ rows[s].pane = spawn[s].pane
  BY <1>1 DEF IInv, RowPlaced
<1> HIDE DEF x
<1> QED
  BY <1>1, <1>2, <1>3, CallsKeep

LEMMA CallGoesOn ==
  ASSUME IInv, NEW c \in Client, is_terminal(c) \/ pane_alive(c)
  PROVE  IInv'
<1> DEFINE alive == [call[c] EXCEPT !.pc = "alive"]
           act == [call[c] EXCEPT !.pc = "act"]
<1>1. /\ call[c].pc # "idle"
      /\ UNCHANGED <<rows, spawn, shim, runtime, screen, closes, settled, drove, away, astray>>
      /\ \/ Reply(c)
         \/ call' = [call EXCEPT ![c] = alive]
         \/ call' = [call EXCEPT ![c] = act]
  BY DEF is_terminal, pane_alive, store, processes, history
<1>2. call[c] \in CallState
  BY DEF IInv, TypeOK
<1>3. /\ alive \in CallState /\ alive.session = call[c].session
      /\ alive.pane = call[c].pane /\ alive.left = call[c].left
  BY <1>2 DEF CallState
<1>4. /\ act \in CallState /\ act.session = call[c].session
      /\ act.pane = call[c].pane /\ act.left = call[c].left
  BY <1>2 DEF CallState
<1>5. /\ call[c].session \in Session /\ spawn[call[c].session].pc = "spawned"
      /\ call[c].pane = spawn[call[c].session].pane /\ call[c].left # 0
  BY <1>1 DEF IInv, CallPlaced
<1> HIDE DEF alive, act
<1>6. CASE Reply(c)
  BY <1>1, <1>6, ReplyKeeps
<1>7. CASE call' = [call EXCEPT ![c] = alive]
  BY <1>1, <1>3, <1>5, <1>7, CallsKeep
<1>8. CASE call' = [call EXCEPT ![c] = act]
  BY <1>1, <1>4, <1>5, <1>8, CallsKeep
<1> QED
  BY <1>1, <1>6, <1>7, <1>8

\* A command finds its session in the pane, unless the session is away.
LEMMA CommandKeeps ==
  ASSUME IInv, NEW c \in Client, tmux_command(c)
  PROVE  IInv'
<1> DEFINE next == [call[c] EXCEPT !.left = call[c].left - 1]
<1>0. call[c] \in CallState
  BY DEF IInv, TypeOK
<1>1. /\ call[c].pc = "act"
      /\ UNCHANGED <<rows, spawn, shim, runtime, screen, closes, settled, drove, away>>
      /\ Reply(c) \/ (call[c].left > 1 /\ call' = [call EXCEPT ![c] = next])
  <2>1. /\ call[c].pc = "act"
        /\ UNCHANGED <<rows, spawn, shim, runtime, screen, closes, settled, drove, away>>
    BY DEF tmux_command, store, processes
  <2>2. CASE is_alive(call[c].pane) /\ call[c].left > 1
    <3>1. call' = [call EXCEPT ![c].left = call[c].left - 1]
      BY <1>0, <2>2 DEF tmux_command, CallState
    <3> QED
      BY <1>0, <2>1, <2>2, <3>1 DEF IInv, TypeOK
  <2>3. CASE ~(is_alive(call[c].pane) /\ call[c].left > 1)
    BY <2>1, <2>3 DEF tmux_command, Reply
  <2> QED
    BY <2>1, <2>2, <2>3
<1>2. /\ call[c].session \in Session /\ spawn[call[c].session].pc = "spawned"
      /\ call[c].pane = spawn[call[c].session].pane /\ call[c].left # 0
  BY <1>1 DEF IInv, CallPlaced
<1>3. astray' = astray
  <2>1. call[c].session \notin away => screen[call[c].pane].who = call[c].session
    BY <1>2 DEF IInv, Placed
  <2> QED
    BY <2>1 DEF tmux_command
<1>4. CASE Reply(c)
  BY <1>1, <1>3, <1>4, ReplyKeeps
<1>5. CASE call[c].left > 1 /\ call' = [call EXCEPT ![c] = next]
  <2>2. /\ next \in CallState /\ next.session = call[c].session
        /\ next.pane = call[c].pane /\ next.left # 0
    BY <1>0, <1>5 DEF CallState
  <2> HIDE DEF next
  <2> QED
    BY <1>1, <1>2, <1>3, <1>5, <2>2, CallsKeep
<1> QED
  BY <1>1, <1>4, <1>5

-----------------------------------------------------------------------------
LEMMA NextHolds == IInv /\ [Next]_vars => IInv'
<1> SUFFICES ASSUME IInv, [Next]_vars PROVE IInv'
  OBVIOUS
<1>1. CASE UNCHANGED vars
  BY <1>1 DEF vars, IInv, TypeOK, Launching, SpawnedIsRow, Unforced, Placed, RowPlaced,
              CallPlaced, ReachesSession
<1>2. ASSUME NEW s \in Session, NEW p \in Pane, NEW force \in BOOLEAN, check(s, p, force)
      PROVE  IInv'
  BY <1>2, CheckKeeps
<1>3. ASSUME NEW s \in Session, SpawnStep(s) \/ kill_fails(s) \/ cancel_spawn(s) \/ ready_timeout(s)
      PROVE  IInv'
  BY <1>3, KillKeeps, RequestKeeps, LaunchKeeps, RecordRunningKeeps DEF SpawnStep
<1>4. ASSUME NEW s \in Session,
             \/ start_runtime(s) \/ send_ready(s) \/ runtime_exits(s) \/ send_exit(s)
             \/ exec_shell_resume(s) \/ shim_ends(s)
             \/ record_end(s) \/ container_not_shown(s)
      PROVE  IInv'
  BY <1>4, ProcessKeeps, SendReadyKeeps, ShellKeeps, ClosesKeep
<1>5. ASSUME NEW c \in Client,
             \/ \E s \in Session, op \in {"nudge", "capture"} : read_row(c, op, s)
             \/ is_terminal(c) \/ pane_alive(c) \/ tmux_command(c)
      PROVE  IInv'
  BY <1>5, ReadRowKeeps, CallGoesOn, CommandKeeps
<1>6. ASSUME NEW p \in Pane, close_pane(p) PROVE IInv'
  BY <1>6, ClosesKeep
<1> QED
  BY <1>1, <1>2, <1>3, <1>4, <1>5, <1>6 DEF Next

LEMMA InvariantHolds == Spec => []IInv
  BY InitHolds, NextHolds, PTL DEF Spec

\* The rows, the panes and every spawn, nudge and capture on its way keep their
\* types, for any number of sessions, panes and calls.
THEOREM PanesTypeCorrect == Spec => []TypeOK
<1>1. IInv => TypeOK
  BY DEF IInv
<1> QED
  BY InvariantHolds, <1>1, PTL

\* An unforced spawn (spawn_preflight::check, then respawn-pane) never drives out a
\* host session that was answered and lived in the pane when the spawn looked, however
\* late ready reports, ends and closed panes fall.
THEOREM SettledStay == Spec => []SettledIsKept
<1>1. IInv => SettledIsKept
  <2> SUFFICES ASSUME IInv, NEW s \in Session, drove[s] \in settled[s] \ Docker
      PROVE  spawn[s].force
    BY DEF SettledIsKept
  <2>1. settled[s] \subseteq Session
    BY DEF IInv, TypeOK
  <2> QED
    BY <2>1, NobodyIsNoSession DEF IInv, Unforced
<1> QED
  BY InvariantHolds, <1>1, PTL

\* What nudge types and capture reads is in the pane of the session that was named,
\* for every interleaving of its commands with spawns, ends and closed panes that
\* leave that session where it is.
THEOREM CallsReachSession == Spec => []ReachesSession
<1>1. IInv => ReachesSession
  BY DEF IInv
<1> QED
  BY InvariantHolds, <1>1, PTL

==============================================================================
