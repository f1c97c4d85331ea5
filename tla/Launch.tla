------------------------------- MODULE Launch -------------------------------
(***************************************************************************)
(* From a spawn call to the process it starts: the arguments of rtm spawn  *)
(* (cli/spawn.rs) or a request of another client, the docker preflight     *)
(* (spawn_preflight.rs), whose docker commands are steps between which the *)
(* image may change, the launch specification (rtm-launchers, backend.rs,  *)
(* docker_argv.rs), and the command the shim runs (shim.rs).  One call at  *)
(* a time: calls meet only in the store, which Rtmd and Panes model.       *)
(***************************************************************************)
EXTENDS DockerMounts, LaunchEnv

CONSTANTS
  Calls,         \* the spawn calls: see Call in MCLaunch
  Files, Dirs,   \* the canonical host paths that exist; the directories of them
  Links,         \* symbolic links: from host path to canonical host path
  Home,          \* the caller's HOME
  DaemonCwd,     \* the daemon's own directory, and of the headless shims it starts
  PaneCwd,       \* the directory of the tmux pane a shim starts in
  Arm64,         \* std::env::consts::ARCH = "aarch64"
  Config,        \* DockerPreflightConfig: image ("": none), root, escape
  LocalImages,   \* for each image name, the states the local image may be in
  RemoteImages,  \* for each image name, the manifests the registry may have
  MaxChanges     \* bound on changes of the image during a call

ASSUME DirsExist == Dirs \subseteq Files

ASSUME FilesArePaths == Files \subseteq Seq(STRING) /\ Home \in Seq(STRING)

ASSUME DaemonIsSomewhere == DaemonCwd \in Dirs /\ PaneCwd \in Dirs

\* A canonical path does not lead through a link.
ASSUME FilesAreCanonical ==
  \A path \in Files, link \in DOMAIN Links : ~Covers(link, path)

\* A path as a caller writes it, a variable and a --mount argument.
WrittenPath == [absolute : BOOLEAN, parts : Seq(STRING)]

Value == [text : STRING, path : WrittenPath, paths : Seq(WrittenPath)]

Variable == [key : STRING, value : Value]

\* source is the argument as a path; below is what follows a leading "~/".
MountArg == [fields : Nat, mode : STRING, target : WrittenPath,
             source : [tilde : BOOLEAN, absolute : BOOLEAN, parts : Seq(STRING),
                       below : Seq(STRING)]]

ASSUME CallsAreTyped ==
  \A c \in Calls :
    /\ c.env \in Seq(Variable) /\ c.mounts \in Seq(MountArg)
    /\ c.args \in Seq([key : STRING, explicit : BOOLEAN, value : Value])

\* The cwd of a request is not optional (SpawnRequest).
ASSUME RpcGivesCwd == \A c \in Calls : c.via = "rpc" => c.cwd_given

ASSUME Bounded == MaxChanges \in Nat /\ Arm64 \in BOOLEAN

VARIABLES
  call,       \* the caller's arguments
  pc,         \* the next step of the call
  request,    \* SpawnRequest, as the preflight rewrites it
  launch,     \* LaunchSpec, and the docker run arguments in it
  local,      \* the local image of the name that the call uses
  remote,     \* the registry's manifest of that name
  changes,    \* changes of the image during the call
  moved,      \* the image has changed since its user was read
  started,    \* what the shim's command started
  outcome     \* the answer to the call

image == <<local, remote, changes>>

vars == <<call, pc, request, launch, image, moved, started, outcome>>

NoRequest == [session_id |-> "", runtime |-> "", isolation |-> "host", profile |-> "",
              image |-> "", env |-> <<>>, mounts |-> <<>>, cwd |-> <<>>, tmux |-> FALSE,
              shell_resume |-> [shell |-> Text(""), cwd |-> <<>>, env |-> <<>>]]

NoLaunch == [env |-> <<>>, cwd |-> <<>>, image |-> "", init |-> FALSE, tty |-> FALSE,
             auto_mount_cwd |-> FALSE, binds |-> {}, workdir |-> <<>>,
             shell_resume |-> NoRequest.shell_resume]

Nothing == [kind |-> "nothing", env |-> <<>>, binds |-> {}, workdir |-> <<>>, root |-> FALSE]

image_for(r) == IF r.image # "" THEN r.image ELSE Config.image

Init ==
  /\ call \in Calls
  /\ pc = "idle"
  /\ request = NoRequest /\ launch = NoLaunch
  /\ local \in LocalImages[image_for(call)] /\ remote \in RemoteImages[image_for(call)]
  /\ changes = 0 /\ moved = FALSE
  /\ started = Nothing /\ outcome = "none"

Go(step) == pc' = step /\ UNCHANGED outcome

Answer(code) == pc' = "done" /\ outcome' = code

-----------------------------------------------------------------------------
(* The host's file system.                                                 *)

realpath(path) ==
  IF \E link \in DOMAIN Links : Covers(link, path)
  THEN LET link == CHOOSE l \in DOMAIN Links : Covers(l, path)
       IN Links[link] \o Below(link, path)
  ELSE path

join(cwd, path) == IF path.absolute THEN path.parts ELSE cwd \o path.parts

can_canonicalize(path) == realpath(path) \in Files

-----------------------------------------------------------------------------
(* rtm spawn.  A --mount argument is split at its colons.                  *)

mount_fails(arg) ==
  \/ arg.fields \notin {2, 3}
  \/ ~arg.source.tilde /\ ~arg.source.absolute /\ arg.source.parts = <<>>
  \/ ~arg.target.absolute /\ arg.target.parts = <<>>
  \/ arg.fields = 3 /\ arg.mode \notin {"ro", "rw"}

expand_mount_source(source) ==
  IF source.tilde THEN [absolute |-> TRUE, parts |-> Home \o source.below]
  ELSE [absolute |-> source.absolute, parts |-> source.parts]

MountSpec(arg) ==
  [source |-> expand_mount_source(arg.source), target |-> arg.target,
   read_only |-> ~(arg.fields = 3 /\ arg.mode = "rw")]

reject_host_mounts(isolation, mounts) == isolation = "host" /\ mounts # <<>>

\* --cwd, or the caller's own directory.
spawn_cwd_fails == call.cwd_given /\ realpath(join(call.caller_cwd, call.cwd)) \notin Dirs

spawn_cwd ==
  IF call.cwd_given THEN realpath(join(call.caller_cwd, call.cwd)) ELSE call.caller_cwd

cli_spawn ==
  /\ pc = "idle" /\ call.via = "cli"
  /\ IF \/ \E i \in DOMAIN call.mounts : mount_fails(call.mounts[i])
        \/ reject_host_mounts(call.isolation, call.mounts)
        \/ spawn_cwd_fails
        \/ \E i \in DOMAIN call.args : parse_fails(call.args[i], call.env)
     THEN Answer("BadArguments") /\ UNCHANGED request
     ELSE /\ Go("check")
          /\ request' =
               [session_id |-> "own", runtime |-> call.runtime,
                isolation |-> call.isolation, profile |-> call.profile,
                image |-> call.image, env |-> spawn_env(call.isolation, call.env, call.args),
                mounts |-> [i \in DOMAIN call.mounts |-> MountSpec(call.mounts[i])],
                cwd |-> spawn_cwd, tmux |-> call.tmux,
                shell_resume |-> IF call.tmux THEN capture_shell_resume(call.env, spawn_cwd)
                                 ELSE NoRequest.shell_resume]
  /\ UNCHANGED <<call, launch, image, moved, started>>

\* A mount on the wire: the source is the path it is.
WireMount(arg) ==
  [source |-> [absolute |-> arg.source.absolute, parts |-> arg.source.parts],
   target |-> arg.target, read_only |-> arg.mode # "rw"]

\* Any other client sends the request as it likes.  A relative cwd is resolved
\* by the process that uses it: the daemon, which canonicalizes docker's, or the
\* shim, which the daemon or the pane's shell starts.
rpc_spawn ==
  /\ pc = "idle" /\ call.via = "rpc"
  /\ Go("check")
  /\ request' = [NoRequest EXCEPT !.session_id = "own", !.runtime = call.runtime,
                   !.isolation = call.isolation, !.profile = call.profile,
                   !.image = call.image, !.env = call.env, !.tmux = call.tmux,
                   !.mounts = [i \in DOMAIN call.mounts |-> WireMount(call.mounts[i])],
                   !.cwd = join(IF call.isolation = "host" /\ call.tmux
                                THEN PaneCwd ELSE DaemonCwd, call.cwd)]
  /\ UNCHANGED <<call, launch, image, moved, started>>

-----------------------------------------------------------------------------
(* The preflight.                                                          *)

canonicalize_mount_source(cwd, source) == realpath(join(cwd, source))

canonicalize_request_mounts(cwd, mounts) ==
  [i \in DOMAIN mounts |->
     [mounts[i] EXCEPT !.source = [absolute |-> TRUE,
                                   parts |-> canonicalize_mount_source(cwd, mounts[i].source)]]]

\* The mounts the plan is made from: canonical sources.
docker_mounts(mounts) ==
  [i \in DOMAIN mounts |-> [source |-> mounts[i].source.parts, target |-> mounts[i].target]]

reject_duplicate_mount_targets(mounts) ==
  \E i, j \in DOMAIN mounts : i # j /\ mounts[i].target = mounts[j].target

\* Mutant: one covered path of a list is enough.
reject_all_uncovered(env, mounts) ==
  \E i \in DOMAIN env :
    /\ path_shaped_env(env[i].key)
    /\ LET values == path_values(env[i].key, env[i].value) IN
       \A v \in DOMAIN values :
         \A m \in DOMAIN mounts :
           ~container_path_covers(mounts[m].target, normalize_container_path(values[v]))

\* The automatic mount of the cwd does not count.
reject_uncovered_path_envs(env, mounts) ==
  \E i \in DOMAIN env :
    /\ path_shaped_env(env[i].key)
    /\ LET values == path_values(env[i].key, env[i].value) IN
       \E v \in DOMAIN values :
         \/ ~values[v].absolute
         \/ \A m \in DOMAIN mounts :
              ~container_path_covers(mounts[m].target, normalize_container_path(values[v]))

\* The whole of the mount preflight, on a request whose paths are canonical.
validate_docker_mounts(canonical) ==
  LET declared == docker_mounts(canonical.mounts)
      mounts == [i \in DOMAIN declared |-> DockerMount(declared[i])]
  IN /\ \A i \in DOMAIN declared : declared[i].target.absolute
     /\ ~reject_duplicate_mount_targets(mounts)
     /\ validate_cwd_mount_plan(canonical.cwd, mounts).ok
     /\ ~reject_uncovered_path_envs(canonical.env, mounts)

can_canonicalize_request ==
  /\ can_canonicalize(request.cwd)
  /\ \A i \in DOMAIN request.mounts :
       can_canonicalize(join(realpath(request.cwd), request.mounts[i].source))

\* The request the handler goes on with.
canonical_request ==
  LET cwd == realpath(request.cwd) IN
  [request EXCEPT !.cwd = cwd, !.mounts = canonicalize_request_mounts(cwd, @)]

AcceptedProfiles == {"", "default", "own-init", "allow-root", "arm64-manifest-escape"}

\* Host isolation ignores mounts; docker's are checked before docker is asked.
check_isolation_policy ==
  /\ pc = "check"
  /\ IF request.isolation = "host" THEN Go("launch") /\ UNCHANGED request
     ELSE IF request.profile \notin AcceptedProfiles
     THEN Answer("UnsupportedIsolationPolicy") /\ UNCHANGED request
     ELSE IF ~can_canonicalize_request
     THEN Answer("ProtocolMismatch") /\ UNCHANGED request
     ELSE /\ request' = canonical_request
          /\ IF validate_docker_mounts(canonical_request) THEN Go("available")
             ELSE Answer("ProtocolMismatch")
  /\ UNCHANGED <<call, launch, image, moved, started>>

docker_root_allowed(r) == Config.root \/ r.profile = "allow-root"

docker_manifest_escape_allowed(r) == Config.escape \/ r.profile = "arm64-manifest-escape"

\* Mutant: an image without a user is taken for a non-root one.
only_root_is_root(user) == user = "root"

\* No user, the user root and the uid 0 ("root") are taken for root.
image_user_is_root(user) == user \in {"none", "root"}

ensure_available ==
  /\ pc = "available"
  /\ \/ Answer("DockerUnavailable")
     \/ IF image_for(request) = "" THEN Answer("DockerImageNotConfigured") ELSE Go("user")
  /\ UNCHANGED <<call, request, launch, image, moved, started>>

\* docker image inspect; the command may fail for a present image too.
image_user ==
  /\ pc = "user"
  /\ \/ Answer("DockerImageUnavailable")
     \/ /\ local.here
        /\ IF \/ local.user = "invalid"
              \/ image_user_is_root(local.user) /\ ~docker_root_allowed(request)
           THEN Answer("DockerImageMetadataUnavailable")
           ELSE Go(IF Arm64 /\ ~docker_manifest_escape_allowed(request)
                   THEN "arch" ELSE "launch")
  /\ moved' = FALSE
  /\ UNCHANGED <<call, request, launch, image, started>>

image_architecture ==
  /\ pc = "arch"
  /\ \/ Go("manifest")
     \/ /\ local.here
        /\ IF local.arch = "arm64" THEN Go("launch")
           ELSE Answer("DockerImageMetadataUnavailable")
  /\ UNCHANGED <<call, request, launch, image, moved, started>>

manifest_has_arm64(manifest) == manifest \in {"arm64", "single"}

\* Asked only when the local image could not be inspected a second time, whose
\* error is the one reported.
arm64_manifest_available ==
  /\ pc = "manifest"
  /\ \/ Answer("DockerImageUnavailable")
     \/ /\ remote # "missing"
        /\ IF manifest_has_arm64(remote) THEN Go("launch")
           ELSE Answer("DockerImageMetadataUnavailable")
  /\ UNCHANGED <<call, request, launch, image, moved, started>>

\* Someone pulls, builds, tags or removes an image.
image_changes ==
  /\ pc \in {"user", "arch", "manifest", "launch", "run"}
  /\ request.isolation = "docker"
  /\ changes < MaxChanges
  /\ changes' = changes + 1
  /\ local' \in LocalImages[image_for(call)] /\ remote' \in RemoteImages[image_for(call)]
  /\ <<local, remote>>' # <<local, remote>>
  /\ moved' = TRUE
  /\ UNCHANGED <<call, pc, request, launch, started, outcome>>

-----------------------------------------------------------------------------
(* The launch specification and the command of the shim.                   *)

bind_mount_arg(mount) ==
  [source |-> mount.source.parts, target |-> normalize_container_path(mount.target)]

docker_run_launch(r, env) ==
  LET plan == plan_cwd_mount(r.cwd, docker_mounts(r.mounts)) IN
  [env |-> env, cwd |-> r.cwd, image |-> image_for(r),
   init |-> r.profile # "own-init", tty |-> r.tmux,
   auto_mount_cwd |-> plan.auto_mount_cwd, workdir |-> plan.workdir,
   binds |-> {bind_mount_arg(r.mounts[i]) : i \in DOMAIN r.mounts}
             \cup (IF plan.auto_mount_cwd
                   THEN {[source |-> r.cwd, target |-> r.cwd]} ELSE {}),
   shell_resume |-> r.shell_resume]

prepare_launch ==
  /\ pc = "launch"
  /\ IF request.runtime \notin {"claude", "codex"}
     THEN Answer("NoLauncher") /\ UNCHANGED launch
     ELSE IF request.isolation = "docker"
             /\ ~plan_cwd_mount(request.cwd, docker_mounts(request.mounts)).ok
     THEN Answer("ProtocolMismatch") /\ UNCHANGED launch
     ELSE /\ Go("run")
          /\ launch' =
               IF request.isolation = "docker"
               THEN docker_run_launch(request, runtime_env(request))
               ELSE [NoLaunch EXCEPT !.env = runtime_env(request), !.cwd = request.cwd,
                                     !.shell_resume = request.shell_resume]
  /\ UNCHANGED <<call, request, image, moved, started>>

\* The shim runs the command with the environment of the specification alone.
\* docker run refuses a bind at the root and pulls an image that is not there,
\* whoever that runs as.  The uid 0 has other spellings and names ("alias").
runtime_command ==
  /\ pc = "run"
  /\ \/ Answer("ShimFailed") /\ UNCHANGED started
     \/ /\ Answer("Spawned")
        /\ \/ /\ request.isolation = "host"
              /\ started' = [Nothing EXCEPT !.kind = "process", !.env = launch.env,
                                            !.workdir = launch.cwd]
           \/ /\ request.isolation = "docker"
              /\ \A bind \in launch.binds : bind.target # <<>>
              /\ local.here \/ remote # "missing"
              /\ \E root \in BOOLEAN :
                   /\ local.here => root = (local.user \in {"none", "root", "alias"})
                   /\ started' = [kind |-> "container", env |-> launch.env,
                                  binds |-> launch.binds, workdir |-> launch.workdir,
                                  root |-> root]
  /\ UNCHANGED <<call, request, launch, image, moved>>

\* The call is over; calls do not affect each other here.
answered == pc = "done" /\ UNCHANGED vars

Next ==
  \/ cli_spawn \/ rpc_spawn
  \/ check_isolation_policy
  \/ ensure_available \/ image_user \/ image_architecture \/ arm64_manifest_available
  \/ image_changes
  \/ prepare_launch \/ runtime_command
  \/ answered

Spec == Init /\ [][Next]_vars

-----------------------------------------------------------------------------
(* Properties.                                                             *)

InContainer == started.kind = "container"

\* The cwd that a docker call asks for, wherever its path leads: the CLI reads a
\* relative one in the caller's directory, the daemon in its own.
Cwd ==
  realpath(IF ~call.cwd_given THEN call.caller_cwd
           ELSE join(IF call.via = "rpc" THEN DaemonCwd ELSE call.caller_cwd, call.cwd))

\* The mounts of the request as the plan sees them.
Planned ==
  [i \in DOMAIN request.mounts |-> DockerMount(docker_mounts(request.mounts)[i])]

\* The scan of select_cwd_cover: it selects the one mount with the longest
\* source over the cwd, and gives up exactly when it meets a mount as long as
\* the longest one before it.
CoverIsLongest ==
  pc = "available" \/ outcome = "ProtocolMismatch" =>
    LET covers == {i \in DOMAIN Planned : host_path_covers(Planned[i].source, request.cwd)}
        longest == {i \in covers : \A j \in covers :
                      Len(Planned[j].source) <= Len(Planned[i].source)}
        found == select_cwd_cover(request.cwd, Planned)
    IN /\ ~found.tie => longest = {found.at} \ {0}
       /\ found.tie <=>
            \E i, j \in covers :
              /\ i < j /\ Len(Planned[i].source) = Len(Planned[j].source)
              /\ \A k \in covers : k < j => Len(Planned[k].source) <= Len(Planned[i].source)

\* "When multiple explicit mounts cover the cwd, the longest unique source
\* prefix wins; equal longest matches are rejected" (PROJECT.md): the scan does
\* not give up when one mount has the longest source.
UniqueCoverWins ==
  pc = "available" \/ outcome = "ProtocolMismatch" =>
    LET covers == {i \in DOMAIN Planned : host_path_covers(Planned[i].source, request.cwd)}
    IN (\E i \in covers : \A j \in covers \ {i} :
          Len(Planned[j].source) < Len(Planned[i].source))
       => ~select_cwd_cover(request.cwd, Planned).tie

\* When the cwd is mounted at its own path, no mount of the caller's hides any
\* part of it, however its target is written.
AutoMountIsWhole ==
  InContainer /\ launch.auto_mount_cwd =>
    \A path \in Files : Covers(request.cwd, path) => Shown(started.binds, path) = {path}

\* A container starts in the caller's cwd: at its own path, or where the mount
\* with the longest source over it has it, unless the caller hides that by a
\* deeper mount.
WorkdirIsCwd ==
  InContainer =>
    IF launch.auto_mount_cwd THEN started.workdir = Cwd
    ELSE \E b \in started.binds :
           /\ Shown({b}, started.workdir) = {Cwd}
           /\ \A c \in started.binds :
                Covers(c.source, Cwd) => Len(c.source) <= Len(b.source)
           /\ \/ Shown(started.binds, started.workdir) = {Cwd}
              \/ \E c \in started.binds : /\ Covers(c.target, started.workdir)
                                           /\ Len(c.target) > Len(b.target)

\* "Docker spawns keep the requested cwd as the container workdir" (PROJECT.md):
\* what the container sees at its workdir is the cwd.
WorkdirShowsCwd ==
  InContainer => Shown(started.binds, started.workdir) = {Cwd}

\* Every path that the runtime in a container reads from its environment is in
\* a directory the caller mounted, after the launcher has changed the
\* environment and docker has resolved the path.
PathEnvsReadable ==
  InContainer =>
    \A key \in Keys(started.env) :
      path_shaped_env(key) =>
        LET values == path_values(key, Applied(started.env)[key]) IN
        \A v \in DOMAIN values :
          /\ values[v].absolute
          /\ Shown(started.binds, normalize_container_path(values[v])) # {}

\* A container runs as root only with the operator's or the caller's consent,
\* unless the image changed under the preflight or names root otherwise than
\* image_user_is_root knows it.
RootIsAllowed ==
  InContainer /\ started.root =>
    docker_root_allowed(request) \/ moved \/ local.user = "alias"

\* "Root requires an explicit operator opt in" (PROJECT.md).
RootNeedsConsent ==
  InContainer /\ started.root => docker_root_allowed(request)

\* The runtime is told its own session and kind, whatever the caller's
\* environment says, as long as a client does not repeat a key.
RuntimeKnowsItself ==
  /\ started.kind # "nothing"
  /\ \A i, j \in DOMAIN call.env : call.env[i].key = call.env[j].key => i = j
  => /\ \A key \in {"HELIOY_SESSION_ID", "RTM_SESSION_ID"} :
          Applied(started.env)[key] = Text("own")
     /\ \A key \in {"HELIOY_RUNTIME", "RTM_RUNTIME_KIND"} :
          Applied(started.env)[key] = Text(call.runtime)
=============================================================================
