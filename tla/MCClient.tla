------------------------------ MODULE MCClient ------------------------------
(* An instance of Client: two daemons at one path, one of which names it with *)
(* RTM_SOCKET_PATH, and a caller that makes every request.                    *)
EXTENDS Client

CONSTANTS d1, d2, c1

MCNumeral == {"0", "00", "+0", "1", "01", "+1"}

MCvalue_of == [numeral \in MCNumeral |-> IF numeral \in {"0", "00", "+0"} THEN 0 ELSE 1]

MCnumber_text == [n \in 0..1 |-> IF n = 0 THEN "0" ELSE "1"]

MCAnyCase ==
  [Forking |-> {"Forking", "forking", "FORKING"}, Running |-> {"Running", "running", "RUNNING"},
   Exited |-> {"Exited", "exited", "EXITED"}, Lost |-> {"Lost", "lost", "LOST"}]

MCEnv ==
  LET run == <<"run">>
      default == [socket_path |-> {}, xdg_runtime_dir |-> run, home |-> <<"home">>]
      named == [default EXCEPT !.socket_path = {run \o <<"rtm", "sock">>},
                               !.xdg_runtime_dir = <<>>]
  IN [x \in {d1, d2, c1} |-> IF x = d2 THEN named ELSE default]

At(sec, milli, micro) == [sec |-> sec, milli |-> milli, micro |-> micro, nano |-> 0]

Pane0 == [session |-> <<"a">>, window |-> 0, pane |-> 1]

\* A name with the separator in it.
Pane1 == [session |-> <<"a", ":", "1", ".", "0">>, window |-> 1, pane |-> 0]

Lifecycle(session, state, pane) ==
  [session |-> session, runtime |-> IF session = "s1" THEN "claude" ELSE "codex",
   state |-> state, exit |-> IF state = "Exited" THEN {0} ELSE {},
   evidence |-> IF state = "Lost" THEN {"PidNotAlive"} ELSE {}, tmux_pane |-> pane]

World(rows, alive, readable) ==
  [rows |-> rows, alive |-> alive, readable |-> readable, window |-> At(1, 5, 0)]

MCWorlds ==
  LET row(session, state, pane, at) ==
        [lifecycle |-> Lifecycle(session, state, pane), at |-> at]
  IN {World({row("s1", "Running", {Pane0}, At(1, 0, 0)),
             row("s2", "Lost", {Pane1}, At(1, 5, 5))}, {Pane0}, TRUE),
      World({row("s1", "Lost", {}, At(1, 5, 0)),
             row("s2", "Exited", {}, At(1, 0, 5))}, {Pane1}, TRUE),
      World({row("s1", "Forking", {}, At(2, 0, 0))}, {}, FALSE)}

Filters ==
  {NoFilter, [NoFilter EXCEPT !.session_id = {"s1"}, !.session_ids = {"s2"}],
   [NoFilter EXCEPT !.state = {"LOST"}, !.runtime = {"claude"}],
   [NoFilter EXCEPT !.state = {"gone"}],
   [NoFilter EXCEPT !.updated_since = {At(1, 5, 0)}]}

Targets ==
  {<<"headless">>, <<"tmux", ":">> \o address_text(Pane1),
   <<"tmux", ":">> \o pane_text(<<"a">>, "00", "+1"),
   <<"tmux", ":">> \o pane_text(<<"a">>, "0", "x"),
   <<"tmux", ":">> \o pane_text(<<>>, "0", "1"), <<"tmux", ":", "a">>, <<"ssh", ":", "a">>}

Request(method, tool, arguments, id) ==
  [valid |-> TRUE, method |-> method, tool |-> tool, arguments |-> arguments, id |-> id]

Lines ==
  {[valid |-> FALSE], Request(<<"notifications", "cancelled">>, NoTool, "empty", {1}),
   Request(<<"notifications">>, NoTool, "empty", {}),
   Request(<<"tools", "call">>, NoTool, "empty", {2}),
   Request(<<"tools", "call">>, "rtm_kill_by_pid", "fit", {3}),
   Request(<<"tools", "call">>, "rtm_status", "fit", {4})}

MCRpc ==
  {[kind |-> kind] : kind \in DOMAIN Responses \
                                {"Status", "ValidateTarget", "McpBridge"}} \cup
  {[kind |-> "Malformed", why |-> why] : why \in {"json", "target"}} \cup
  {[kind |-> "Status", filter |-> filter] : filter \in Filters} \cup
  {[kind |-> "ValidateTarget", target |-> target] : target \in Targets} \cup
  {[kind |-> "McpBridge", line |-> line] : line \in Lines}

MCAsks == [c \in {c1} |-> MCRpc]
=============================================================================
