------------------------------ MODULE Protocol ------------------------------
(***************************************************************************)
(* The protocol between rtmd and its clients, as operators: the response   *)
(* of the daemon to each request (handler.rs, error.rs, mcp_bridge.rs) and *)
(* what the client library makes of a response (rtm-client).  What the     *)
(* operations behind the requests do is in the other modules.              *)
(***************************************************************************)
EXTENDS Store

\* The variants of RuntimeRpc and the responses that the handler has for each.
Responses ==
  [Spawn |-> {"Spawned", "SpawnConflict"}, ValidateTarget |-> {"ValidateTarget"},
   Kill |-> {"Killed"}, KillByPid |-> {"KillByPid"}, Nudge |-> {"Nudge"},
   Capture |-> {"Capture"}, Status |-> {"Status"}, Version |-> {"Version"},
   Watchers |-> {"Watchers"}, Doctor |-> {"Doctor"},
   Events |-> {"Events", "CursorExpired"}, Stop |-> {"Stopping"},
   McpBridge |-> {"McpBridge"}, ShimLaunch |-> {"ShimLaunch"},
   ShimReady |-> {"Ack"}, ShimExit |-> {"Ack"}]

-----------------------------------------------------------------------------
(* Failures.  An error is the typed failure in its chain of causes, which  *)
(* find_source finds under any context, or "anyhow" when there is none.    *)

RuntimeFailureCode ==
  [ProtocolMismatch |-> "ProtocolMismatch", SessionAlreadyExists |-> "InvalidTarget",
   SessionNotFound |-> "SessionNotFound", TmuxPaneDead |-> "TmuxPaneDead",
   DockerUnavailable |-> "RuntimeUnavailable",
   DockerImageUnavailable |-> "RuntimeUnavailable",
   DockerImageMetadataUnavailable |-> "RuntimeUnavailable",
   DockerImageNotConfigured |-> "DockerImageNotConfigured",
   UnsupportedIsolationPolicy |-> "UnsupportedIsolationPolicy"]

launcher_error_code ==
  [NoLauncher |-> "RuntimeUnavailable", BinaryLookupFailed |-> "RuntimeUnavailable",
   EmptyArgv |-> "LaunchFailed", EmptyEnv |-> "LaunchFailed",
   EmptyShellArgv |-> "LaunchFailed"]

rpc_error_code(kind, failure) ==
  CASE failure \in DOMAIN RuntimeFailureCode -> RuntimeFailureCode[failure]
    [] failure \in DOMAIN launcher_error_code -> launcher_error_code[failure]
    [] OTHER -> IF kind = "Spawn" THEN "LaunchFailed" ELSE "RuntimeUnavailable"

\* The failures of the operation behind each request.
Failures ==
  [Spawn |-> {"anyhow", "NoLauncher", "BinaryLookupFailed", "EmptyEnv"} \cup
             DOMAIN RuntimeFailureCode,
   Kill |-> {"SessionNotFound", "DockerUnavailable", "anyhow"}, KillByPid |-> {"anyhow"},
   Nudge |-> {"SessionNotFound", "anyhow"}, Capture |-> {"anyhow"},
   ValidateTarget |-> {"anyhow"}, ShimLaunch |-> {"ProtocolMismatch"},
   ShimReady |-> {"SessionNotFound", "ProtocolMismatch", "anyhow"},
   ShimExit |-> {"SessionNotFound", "anyhow"}]

failures_of(rpc, world) ==
  CASE rpc.kind = "Malformed" -> {rpc.why}
    [] rpc.kind = "Doctor" -> IF world.readable THEN {} ELSE {"anyhow"}
    [] OTHER -> IF rpc.kind \in DOMAIN Failures THEN Failures[rpc.kind] ELSE {}

\* The code for a line that is not a request.
protocol_error_code(why) == IF why = "target" THEN "InvalidTarget" ELSE "ProtocolMismatch"

-----------------------------------------------------------------------------
(* The MCP bridge.  A line is a JSON-RPC request or is not valid; its      *)
(* method is split at the slashes; the arguments of a tool are none, fit   *)
(* its type or do not.                                                     *)

NoTool == "missing"

\* call_tool: an error of a tool is a result.
call_tool(tool, arguments) ==
  CASE tool = "rtm_status" /\ arguments # "unfit" -> {"done"}
    [] tool \in {"rtm_version", "rtm_watchers"} /\ arguments = "empty" -> {"done"}
    [] tool = "rtm_kill_by_pid" /\ arguments = "fit" -> {"done", "ERROR"}
    [] OTHER -> {"ERROR"}

handle_request(line) ==
  CASE line.method \in {<<"initialize">>, <<"ping">>, <<"tools", "list">>} -> {"done"}
    [] line.method = <<"tools", "call">> ->
         IF line.tool = NoTool THEN {"-32602"} ELSE call_tool(line.tool, line.arguments)
    [] OTHER -> {"-32601"}

\* A method that starts with notifications/.
is_notification(method) == Len(method) > 1 /\ method[1] = "notifications"

\* Mutant: a notification is answered like a request.
handle_any_line(line) ==
  IF ~line.valid THEN {{[id |-> {}, result |-> "-32700"]}}
  ELSE {{[id |-> line.id, result |-> result]} : result \in handle_request(line)}

\* handle_line: the response, if there is one; a missing id is answered as null.
handle_line(line) ==
  IF ~line.valid THEN {{[id |-> {}, result |-> "-32700"]}}
  ELSE IF is_notification(line.method) THEN {{}}
  ELSE {{[id |-> line.id, result |-> result]} : result \in handle_request(line)}

-----------------------------------------------------------------------------
(* The response to a request, given the world it is handled in: the rows   *)
(* of the store with the times of their last update, whether the store can *)
(* be read, and the live panes.                                            *)

table_of(world) == {encode(row.lifecycle, row.at) : row \in world.rows}

\* StatusReader::status: a store that cannot be read is an empty answer.
status(world, filter) ==
  IF ~world.readable THEN {}
  ELSE {[lifecycle |-> l, log_availability |-> log_availability(l, world.alive)] :
          l \in list(table_of(world), filter)}

\* StatusFilter::empty.
NoFilter == [session_id |-> {}, session_ids |-> {}, runtime |-> {}, state |-> {},
             updated_since |-> {}]

\* doctor::collect, when the store can be read.
collect(world) ==
  [type |-> "Doctor", lifecycles |-> lifecycle_counts(table_of(world)),
   log_availability |-> status(world, NoFilter),
   recent_lost |-> recent_lost_since(table_of(world), world.window)]

\* handle_rpc_result.
handle_rpc_result(rpc, world) ==
  CASE rpc.kind = "Status" ->
         {[type |-> "Status", lifecycles |-> status(world, rpc.filter)]}
    [] rpc.kind = "ValidateTarget" ->
         {[type |-> "ValidateTarget", outcome |-> validate_target(rpc.target, world.alive)]}
    [] rpc.kind = "Doctor" -> IF world.readable THEN {collect(world)} ELSE {}
    [] rpc.kind = "McpBridge" ->
         {[type |-> "McpBridge", line |-> line] : line \in handle_line(rpc.line)}
    [] rpc.kind = "Malformed" -> {}
    [] OTHER -> {[type |-> type] : type \in Responses[rpc.kind]}

\* rpc_error_response and protocol_error_response.
error_response(rpc, failure) ==
  [type |-> "Error",
   code |-> IF rpc.kind = "Malformed" THEN protocol_error_code(failure)
            ELSE rpc_error_code(rpc.kind, failure)]

-----------------------------------------------------------------------------
(* The client library.                                                     *)

\* What each typed helper, and the CLI and the shim for the rest, takes as an
\* answer.
Expected ==
  [Spawn |-> {"Spawned"}, Kill |-> {"Killed"}, KillByPid |-> {"KillByPid"},
   Status |-> {"Status"}, Nudge |-> {"Nudge"}, Capture |-> {"Capture"},
   ValidateTarget |-> {"ValidateTarget"}, Doctor |-> {"Doctor"},
   Version |-> {"Version"}, Events |-> {"Events", "CursorExpired"},
   Watchers |-> {"Watchers"}, Stop |-> {"Stopping"}, McpBridge |-> {"McpBridge"},
   ShimLaunch |-> {"ShimLaunch"}, ShimReady |-> {"Ack"}, ShimExit |-> {"Ack"}]

\* The outcome of a call: "ok", or ClientError::code.
outcome_of(rpc, response) ==
  CASE response.type = "Error" -> response.code
    [] rpc.kind = "Spawn" /\ response.type = "SpawnConflict" -> "SpawnConflict"
    [] OTHER -> IF response.type \in Expected[rpc.kind] THEN "ok" ELSE "UnexpectedResponse"

\* ClientError::code when nobody listens at the socket, and when the
\* connection ends without an answer.
Unavailable == "RuntimeUnavailable"
Eof == "ProtocolMismatch"
=============================================================================
