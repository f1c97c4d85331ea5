------------------------------- MODULE Client -------------------------------
(***************************************************************************)
(* rtmd as its clients meet it: the start and the end of daemon processes  *)
(* around one socket path (runner.rs, socket.rs), one request per          *)
(* connection (handler.rs) and the client that sends it and waits          *)
(* (rtm-client, rtm daemon stop).  A daemon is one run of rtmd.  Nothing   *)
(* keeps a second daemon from starting while the first one runs: overlap   *)
(* says that it has happened.                                              *)
(***************************************************************************)
EXTENDS Protocol

CONSTANTS
  Daemon,    \* runs of rtmd, each started once
  Caller,    \* clients, each with one call at a time
  Nobody,    \* no daemon
  Env,       \* RuntimePathEnv of each daemon and caller
  Rpc,       \* the requests
  Asks,      \* those that each caller makes
  Worlds,    \* what a request may meet in the store and in tmux
  NoRpc, NoWorld, NoResponse

ASSUME NobodyIsNoDaemon == Nobody \notin Daemon

ASSUME AsksRpcs == \A c \in Caller : Asks[c] \subseteq Rpc

\* A line is a variant of RuntimeRpc or does not parse.
ASSUME RpcKinds == \A rpc \in Rpc : rpc.kind \in DOMAIN Responses \cup {"Malformed"}

\* A world has a row for each session, updated at some time, live panes and the
\* time from which the doctor counts losses.
ASSUME WorldsAreStores ==
  \A world \in Worlds :
    /\ world.rows \subseteq [lifecycle : StoredLifecycle, at : Time]
    /\ IsFiniteSet(world.rows)
    /\ \A r, q \in world.rows : r.lifecycle.session = q.lifecycle.session => r = q
    /\ world.alive \subseteq Address /\ world.window \in Time

\* Filters name times, targets are texts, and only a call of a tool names one.
ASSUME RequestsAreTyped ==
  \A rpc \in Rpc :
    /\ rpc.kind = "Status" => rpc.filter.updated_since \subseteq Time
    /\ rpc.kind = "ValidateTarget" => rpc.target \in Seq(STRING)
    /\ rpc.kind = "McpBridge" /\ rpc.line.valid /\ rpc.line.tool # NoTool =>
         rpc.line.method = <<"tools", "call">>

VARIABLES
  daemon,     \* where each daemon is
  socket,     \* whose socket file is at a path
  stopping,   \* the Stop that each daemon has answered
  overlap,    \* a daemon was started while another served its path
  conn        \* each caller's call

vars == <<daemon, socket, stopping, overlap, conn>>

-----------------------------------------------------------------------------
(* Paths: rtm-paths.                                                       *)

home_runtime_dir(env) == env.home \o <<".rtm">>

platform_default_socket_path(env) ==
  IF env.xdg_runtime_dir # <<>> THEN env.xdg_runtime_dir \o <<"rtm", "sock">>
  ELSE home_runtime_dir(env) \o <<"sock">>

\* RTM_SOCKET_PATH, when it is set, is the path.
unix_socket_path(env) ==
  IF env.socket_path # {} THEN CHOOSE path \in env.socket_path : TRUE
  ELSE platform_default_socket_path(env)

path_of(x) == unix_socket_path(Env[x])

Path == {path_of(x) : x \in Daemon \cup Caller}

-----------------------------------------------------------------------------
DaemonState == {"new", "opened", "prepared", "bound", "up", "leaving", "removed", "off"}

\* The states between the opening of the store and the removal of the socket.
Started == {"opened", "prepared", "bound", "up", "leaving"}

Listening == {"bound", "up", "leaving", "removed"}

\* At "stopped", rtm daemon stop has said so.
CallState == {"idle", "queued", "accepted", "answered", "waiting", "stopped", "done"}

Outcome == {"none", "ok", "still_exists", "UnexpectedResponse"} \cup
           {"RuntimeUnavailable", "SessionNotFound", "TmuxPaneDead", "LaunchFailed",
            "InvalidTarget", "DockerImageNotConfigured", "UnsupportedIsolationPolicy",
            "SpawnConflict", "ProtocolMismatch"}

Idle == [pc |-> "idle", rpc |-> NoRpc, daemon |-> Nobody, world |-> NoWorld,
         response |-> NoResponse, outcome |-> "none"]

TypeOK ==
  /\ daemon \in [Daemon -> DaemonState]
  /\ socket \in [Path -> Daemon \cup {Nobody}]
  /\ stopping \in [Daemon -> {"no", "answered", "sent"}]
  /\ overlap \in BOOLEAN
  /\ DOMAIN conn = Caller
  /\ \A c \in Caller :
       /\ conn[c].pc \in CallState
       /\ conn[c].daemon \in Daemon \cup {Nobody}
       /\ conn[c].outcome \in Outcome
       /\ conn[c].pc \in {"queued", "accepted", "answered"} =>
            conn[c].daemon \in Daemon /\ daemon[conn[c].daemon] \in Listening

Init ==
  /\ daemon = [d \in Daemon |-> "new"]
  /\ socket = [path \in Path |-> Nobody]
  /\ stopping = [d \in Daemon |-> "no"]
  /\ overlap = FALSE
  /\ conn = [c \in Caller |-> Idle]

-----------------------------------------------------------------------------
(* The daemon process.                                                     *)

DaemonGo(d, state) == daemon' = [daemon EXCEPT ![d] = state]

\* A call that ends without an answer.
Ended(outcome) == [Idle EXCEPT !.pc = "done", !.outcome = outcome]

open_to(c, d) == conn[c].pc \in {"queued", "accepted", "answered"} /\ conn[c].daemon = d

\* The end of a process closes its connections.
disconnect(d) ==
  conn' = [c \in Caller |-> IF open_to(c, d) THEN Ended(Eof) ELSE conn[c]]

\* LifecycleStore::open; nothing looks for another daemon.
open_store(d) ==
  /\ daemon[d] = "new"
  /\ DaemonGo(d, "opened")
  /\ overlap' = (overlap \/ \E e \in Daemon : /\ path_of(e) = path_of(d)
                                              /\ daemon[e] \in Started)
  /\ UNCHANGED <<socket, stopping, conn>>

\* Mutant: a file that is there is taken for the daemon's own and left.
prepare_nothing(d) ==
  /\ daemon[d] = "opened"
  /\ DaemonGo(d, "bound")
  /\ UNCHANGED <<socket, stopping, overlap, conn>>

\* The file at the path is removed, whoever listens on it.
prepare_socket(d) ==
  /\ daemon[d] = "opened"
  /\ socket' = [socket EXCEPT ![path_of(d)] = Nobody]
  /\ DaemonGo(d, "prepared")
  /\ UNCHANGED <<stopping, overlap, conn>>

\* bind fails when there is a file.
bind(d) ==
  /\ daemon[d] = "prepared"
  /\ IF socket[path_of(d)] = Nobody
     THEN /\ socket' = [socket EXCEPT ![path_of(d)] = d]
          /\ DaemonGo(d, "bound")
     ELSE DaemonGo(d, "off") /\ UNCHANGED socket
  /\ UNCHANGED <<stopping, overlap, conn>>

\* reconcile_startup returns, and connections are accepted.
serve(d) ==
  /\ daemon[d] = "bound"
  /\ DaemonGo(d, "up")
  /\ UNCHANGED <<socket, stopping, overlap, conn>>

\* A startup that fails, or a crash: the socket file stays.
fail(d) ==
  /\ daemon[d] \notin {"new", "off"}
  /\ DaemonGo(d, "off")
  /\ disconnect(d)
  /\ UNCHANGED <<socket, stopping, overlap>>

\* The accept loop ends, because a Stop was answered or on a signal.
leave_on_stop(d) ==
  /\ daemon[d] = "up" /\ stopping[d] = "sent"
  /\ DaemonGo(d, "leaving")
  /\ UNCHANGED <<socket, stopping, overlap, conn>>

leave_on_signal(d) ==
  /\ daemon[d] = "up"
  /\ DaemonGo(d, "leaving")
  /\ UNCHANGED <<socket, stopping, overlap, conn>>

\* The file at the path is removed, whose it may be.
remove_socket_file(d) ==
  /\ daemon[d] = "leaving"
  /\ socket' = [socket EXCEPT ![path_of(d)] = Nobody]
  /\ DaemonGo(d, "removed")
  /\ UNCHANGED <<stopping, overlap, conn>>

\* Mutant: connections that were not accepted yet are left open.
exit_silently(d) ==
  /\ daemon[d] = "removed"
  /\ DaemonGo(d, "off")
  /\ conn' = [c \in Caller |->
                IF conn[c].pc \in {"accepted", "answered"} /\ conn[c].daemon = d
                THEN Ended(Eof) ELSE conn[c]]
  /\ UNCHANGED <<socket, stopping, overlap>>

\* The reconciliation task has ended, and so does the process.
exit(d) ==
  /\ daemon[d] = "removed"
  /\ DaemonGo(d, "off")
  /\ disconnect(d)
  /\ UNCHANGED <<socket, stopping, overlap>>

-----------------------------------------------------------------------------
(* A request.                                                              *)

\* The client connects and writes its line; a file whose daemon is gone refuses.
request(c, rpc) ==
  LET d == socket[path_of(c)] IN
  /\ conn[c].pc = "idle"
  /\ conn' = [conn EXCEPT ![c] =
                IF d # Nobody /\ daemon[d] \in Listening
                THEN [Idle EXCEPT !.pc = "queued", !.rpc = rpc, !.daemon = d]
                ELSE Ended(Unavailable)]
  /\ UNCHANGED <<daemon, socket, stopping, overlap>>

accept(c) ==
  /\ conn[c].pc = "queued" /\ daemon[conn[c].daemon] = "up"
  /\ conn' = [conn EXCEPT ![c].pc = "accepted"]
  /\ UNCHANGED <<daemon, socket, stopping, overlap>>

\* The requests whose handlers run docker or tmux, or commands that ask about
\* binaries, and wait for them without a limit.
waits_outside(rpc) ==
  \/ rpc.kind \in {"Spawn", "ValidateTarget", "Kill", "Nudge", "Capture", "Status", "Doctor"}
  \/ rpc.kind = "McpBridge" /\ rpc.line.valid /\ rpc.line.tool = "rtm_status"

\* The world is remembered where the answer depends on it.
Handled(c, world, response) ==
  conn' = [conn EXCEPT ![c].pc = "answered", ![c].response = response,
                       ![c].world = IF response.type \in {"Status", "Doctor", "ValidateTarget"}
                                    THEN world ELSE NoWorld]

\* handle_rpc.  A request for events that waits is handled when there is one, and
\* at the latest when its time is up.
handle_rpc(c) ==
  /\ conn[c].pc = "accepted"
  /\ \E world \in Worlds :
       \/ \E response \in handle_rpc_result(conn[c].rpc, world) : Handled(c, world, response)
       \/ \E failure \in failures_of(conn[c].rpc, world) :
            Handled(c, world, error_response(conn[c].rpc, failure))
  /\ UNCHANGED <<daemon, socket, stopping, overlap>>

handle_alone(c) ==
  conn[c].pc = "accepted" /\ ~waits_outside(conn[c].rpc) /\ handle_rpc(c)


\* The response is written and read; rtm daemon stop goes on to wait.
respond(c) ==
  LET stop == conn[c].response.type = "Stopping" IN
  /\ conn[c].pc = "answered"
  /\ conn' = [conn EXCEPT ![c] =
                IF stop THEN [Idle EXCEPT !.pc = "waiting", !.daemon = conn[c].daemon]
                ELSE [conn[c] EXCEPT !.pc = "done", !.daemon = Nobody,
                                     !.outcome = outcome_of(conn[c].rpc, conn[c].response)]]
  /\ stopping' = IF stop /\ stopping[conn[c].daemon] = "no"
                 THEN [stopping EXCEPT ![conn[c].daemon] = "answered"] ELSE stopping
  /\ UNCHANGED <<daemon, socket, overlap>>

send_shutdown(d) ==
  /\ stopping[d] = "answered" /\ daemon[d] \notin {"off"}
  /\ stopping' = [stopping EXCEPT ![d] = "sent"]
  /\ UNCHANGED <<daemon, socket, overlap, conn>>

\* Mutant: an answered Stop is taken for a daemon that is gone.
see_answered(c) ==
  /\ conn[c].pc = "waiting"
  /\ conn' = [conn EXCEPT ![c] = [conn[c] EXCEPT !.pc = "stopped"]]
  /\ UNCHANGED <<daemon, socket, stopping, overlap>>

\* wait_for_socket_removed.
see_removed(c) ==
  /\ conn[c].pc = "waiting" /\ socket[path_of(c)] = Nobody
  /\ conn' = [conn EXCEPT ![c] = [conn[c] EXCEPT !.pc = "stopped"]]
  /\ UNCHANGED <<daemon, socket, stopping, overlap>>

wait_timeout(c) ==
  /\ conn[c].pc = "waiting"
  /\ conn' = [conn EXCEPT ![c] = Ended("still_exists")]
  /\ UNCHANGED <<daemon, socket, stopping, overlap>>

\* A caller goes away: what is written to it is lost, and a Stop with it.
give_up(c) ==
  /\ conn[c].pc # "idle"
  /\ conn' = [conn EXCEPT ![c] = Idle]
  /\ UNCHANGED <<daemon, socket, stopping, overlap>>

-----------------------------------------------------------------------------
\* What a daemon does by itself.  The first reconciliation, which serve waits for,
\* and the last one, which exit waits for, run docker without a limit.
DaemonStep(d) ==
  \/ prepare_socket(d) \/ bind(d)
  \/ leave_on_stop(d) \/ remove_socket_file(d)
  \/ send_shutdown(d)

CallStep(c) ==
  \/ accept(c) \/ respond(c)
  \/ see_removed(c) \/ wait_timeout(c)

Next ==
  \/ \E d \in Daemon :
       \/ open_store(d) \/ DaemonStep(d) \/ serve(d) \/ exit(d)
       \/ leave_on_signal(d) \/ fail(d)
  \/ \E c \in Caller :
       \/ \E rpc \in Asks[c] : request(c, rpc)
       \/ CallStep(c) \/ handle_rpc(c) \/ give_up(c)

\* A process goes on with what it does by itself, and so do the handlers that wait
\* for nothing outside; waits that have a limit end.
Fairness ==
  /\ \A d \in Daemon : WF_vars(DaemonStep(d))
  /\ \A c \in Caller : WF_vars(CallStep(c) \/ handle_alone(c))

Spec == Init /\ [][Next]_vars /\ Fairness

-----------------------------------------------------------------------------
(* Properties.                                                             *)

\* While no daemon was started beside another, a daemon that listens is the one
\* that clients reach at its path, whatever earlier daemons left there.
SocketIsServed ==
  ~overlap => \A d \in Daemon : daemon[d] \in {"bound", "up", "leaving"} =>
                socket[path_of(d)] = d

\* While no daemon was started beside another, "rtmd stopped" is said of a daemon
\* that has left its accept loop for good.
StopIsTrue ==
  ~overlap => \A c \in Caller : conn[c].pc = "stopped" =>
                daemon[conn[c].daemon] \in {"removed", "off"}

\* The rows that a filter names, by the times of their updates and by states in
\* any case, as they were written.
Named(world, filter) ==
  {row.lifecycle : row \in
     {r \in world.rows :
        /\ \/ filter.session_ids = {} /\ filter.session_id = {}
           \/ r.lifecycle.session \in filter.session_ids \cup filter.session_id
        /\ filter.runtime \subseteq {r.lifecycle.runtime}
        /\ filter.state \subseteq AnyCase[r.lifecycle.state]
        /\ \A t \in filter.updated_since : ~Earlier(r.at, t)}}

StatusMatches(world, filter, response) ==
  LET lifecycles == {x.lifecycle : x \in response.lifecycles} IN
  /\ lifecycles = IF world.readable THEN Named(world, filter) ELSE {}
  /\ \A x \in response.lifecycles :
       x.log_availability = "TmuxPaneSnapshot" <=>
         x.lifecycle.tmux_pane # {} /\ x.lifecycle.tmux_pane \subseteq world.alive

DoctorMatches(world, response) ==
  /\ \A state \in DOMAIN response.lifecycles :
       response.lifecycles[state] =
         Cardinality(Named(world, [NoFilter EXCEPT !.state = {state}]))
  /\ response.recent_lost =
       {l.session : l \in Named(world, [NoFilter EXCEPT !.state = {"Lost"},
                                                        !.updated_since = {world.window}])}

\* A target is valid when it says headless, or tmux and one of the ways to write
\* a live pane.
TargetMatches(target, world, response) ==
  response.outcome = "Valid" <=>
    \/ target = <<"headless">>
    \/ \E a \in world.alive, window, pane \in Numeral :
         /\ value_of[window] = a.window /\ value_of[pane] = a.pane
         /\ target = <<"tmux", ":">> \o pane_text(a.session, window, pane)

\* JSON-RPC: a request is answered with its id, a notification is not.
LineMatches(line, response) ==
  IF ~line.valid THEN \E r \in response.line : r.id = {}
  ELSE IF is_notification(line.method) THEN response.line = {}
  ELSE \E r \in response.line : r.id = line.id /\ (r.result = "-32601" => line.tool = NoTool)

\* Every answer is one that the client takes for its request.  The rows of a
\* status, the counts and the recent losses of a doctor report are those of the
\* store as written, by time and not by text; targets and MCP lines are answered
\* for what they say.
AnswersMatch ==
  \A c \in Caller :
    LET call == conn[c] IN
    /\ call.outcome # "UnexpectedResponse"
    /\ call.pc = "done" /\ call.outcome = "ok" =>
         /\ call.rpc.kind = "Status" =>
              StatusMatches(call.world, call.rpc.filter, call.response)
         /\ call.rpc.kind = "Doctor" => DoctorMatches(call.world, call.response)
         /\ call.rpc.kind = "ValidateTarget" =>
              TargetMatches(call.rpc.target, call.world, call.response)
         /\ call.rpc.kind = "McpBridge" => LineMatches(call.rpc.line, call.response)

=============================================================================
