------------------------------ MODULE LaunchEnv ------------------------------
(***************************************************************************)
(* The environment a runtime is started with: what the CLI captures from   *)
(* its caller (spawn_context.rs), the --env overrides (cli/spawn.rs), the  *)
(* launcher's own entries (rtm-launchers), and the variables that Claude   *)
(* Code reads as paths (path_shaped_envs.rs).  An environment is a         *)
(* sequence of [key, value]; a value is [text, path, paths]: path is the   *)
(* value read as one path, as DockerMounts writes it, colons and all, and  *)
(* paths are the paths between its colons.                                 *)
(***************************************************************************)
EXTENDS Naturals, Sequences

\* A value without a slash or a colon.
Text(t) == LET name == [absolute |-> FALSE, parts |-> <<t>>]
           IN [text |-> t, path |-> name, paths |-> <<name>>]

Entry(key, value) == [key |-> key, value |-> value]

Keys(env) == {env[i].key : i \in DOMAIN env}

ColonList == {"CLAUDE_CODE_PLUGIN_SEED_DIR"}

Single ==
  {"CLAUDE_BG_AUTH_SNAPSHOT_PATH", "CLAUDE_CODE_CLIENT_CERT", "CLAUDE_CODE_CLIENT_KEY",
   "CLAUDE_CODE_DEBUG_LOGS_DIR", "CLAUDE_CODE_GIT_BASH_PATH", "CLAUDE_CODE_PLUGIN_CACHE_DIR",
   "CLAUDE_CODE_SHELL_PREFIX", "CLAUDE_CODE_TMPDIR", "CLAUDE_CONFIG_DIR", "CLAUDE_ENV_FILE",
   "CLAUDE_PLUGIN_ROOT", "CLAUDE_PROJECT_DIR", "CLAUDE_SECURESTORAGE_CONFIG_DIR",
   "CLAUDE_SKILL_DIR", "CLAUDE_TMPDIR"}

path_shaped_env(key) == key \in Single \cup ColonList

path_values(key, value) == IF key \in ColonList THEN value.paths ELSE <<value.path>>

CALLER_ENV_DENYLIST ==
  {"CLAUDECODE", "TMUX", "TMUX_PANE", "RTM_SOCKET_PATH", "RTM_DB_PATH",
   "HELIOY_SESSION_ID", "HELIOY_RUNTIME", "RTM_SESSION_ID", "RTM_RUNTIME_KIND"}

\* Of the keys a model uses, those that start with CLAUDE_CODE_ or
\* CLAUDE_PLUGIN_.
CALLER_ENV_DENYLIST_PREFIXES ==
  {key \in Single \cup ColonList :
     key \notin {"CLAUDE_BG_AUTH_SNAPSHOT_PATH", "CLAUDE_CONFIG_DIR", "CLAUDE_ENV_FILE",
                 "CLAUDE_PROJECT_DIR", "CLAUDE_SECURESTORAGE_CONFIG_DIR",
                 "CLAUDE_SKILL_DIR", "CLAUDE_TMPDIR"}}

is_denied(key) == key \in CALLER_ENV_DENYLIST \cup CALLER_ENV_DENYLIST_PREFIXES

capture_env_from(env) ==
  LET kept[i \in 0..Len(env)] ==
        IF i = 0 THEN <<>>
        ELSE IF is_denied(env[i].key) THEN kept[i - 1]
        ELSE Append(kept[i - 1], env[i])
  IN kept[Len(env)]

\* Mutant: an entry that is there is kept.
insert_launch_env(env, next) ==
  IF next.key \notin Keys(env) THEN Append(env, next) ELSE env

\* The first entry of the key is replaced; there may be others.
upsert_launch_env(env, next) ==
  IF next.key \notin Keys(env) THEN Append(env, next)
  ELSE [i \in DOMAIN env |->
          IF env[i].key = next.key /\ \A j \in 1..(i - 1) : env[j].key # next.key
          THEN next ELSE env[i]]

upsert_all(env, entries) ==
  LET done[i \in 0..Len(entries)] ==
        IF i = 0 THEN env ELSE upsert_launch_env(done[i - 1], entries[i])
  IN done[Len(entries)]

\* Command::env and docker run --env: the last entry of a key counts.
Applied(env) ==
  [key \in Keys(env) |->
     LET last == CHOOSE i \in DOMAIN env :
                   env[i].key = key /\ \A j \in (i + 1)..Len(env) : env[j].key # key
     IN env[last].value]

\* An --env argument: KEY=VALUE, or KEY alone to pass the caller's value on.
parse_fails(arg, caller) ==
  arg.key = "" \/ (~arg.explicit /\ arg.key \notin Keys(caller))

parse_spawn_env(arg, caller) ==
  Entry(arg.key, IF arg.explicit THEN arg.value ELSE Applied(caller)[arg.key])

\* The CLI: a host runtime gets the caller's environment, a container nothing
\* but what is asked for.
spawn_env(isolation, caller, args) ==
  upsert_all(IF isolation = "host" THEN capture_env_from(caller) ELSE <<>>,
             [i \in DOMAIN args |-> parse_spawn_env(args[i], caller)])

\* The launcher names the session and the runtime, in this order.
runtime_env(request) ==
  upsert_all(request.env,
    <<Entry("HELIOY_SESSION_ID", Text(request.session_id)),
      Entry("HELIOY_RUNTIME", Text(request.runtime)),
      Entry("RTM_SESSION_ID", Text(request.session_id)),
      Entry("RTM_RUNTIME_KIND", Text(request.runtime))>>)

SHELL_RESUME_ENV_ALLOWLIST ==
  {"COLORTERM", "HOME", "LANG", "LC_ALL", "LOGNAME", "PATH", "SHELL", "TERM", "USER"}

\* The shell that takes the pane over after the runtime.
capture_shell_resume(caller, cwd) ==
  LET kept == SelectSeq(caller, LAMBDA entry : entry.key \in SHELL_RESUME_ENV_ALLOWLIST)
      shell == IF "SHELL" \in Keys(caller) THEN Applied(caller)["SHELL"] ELSE Text("/bin/sh")
  IN [shell |-> shell, cwd |-> cwd,
      env |-> IF "SHELL" \in Keys(kept) THEN kept ELSE Append(kept, Entry("SHELL", shell))]
=============================================================================
