------------------------------ MODULE MCLaunch ------------------------------
(* Launch on a small file system with the calls that tell its checks apart. *)
EXTENDS Launch, TLC

Root == <<>>
A == <<"a">>
AB == <<"a", "b">>
W == <<"w">>
L == <<"l">>

MCFiles == {Root, A, AB, <<"a", "b", "c">>, W, <<"w", "b">>, <<"a", "file">>}
MCDirs == MCFiles \ {<<"a", "file">>}
MCLinks == L :> AB
MCHome == A
MCDaemonCwd == W
MCPaneCwd == AB

MCConfig == [image |-> "", root |-> FALSE, escape |-> FALSE]

Image(here, user, arch) == [here |-> here, user |-> user, arch |-> arch]

MCLocalImages ==
  ("" :> {Image(FALSE, "none", "arm64")})
  @@ ("fixed" :> {Image(TRUE, "agent", "arm64")})
  @@ ("img" :> {Image(FALSE, "none", "arm64"), Image(TRUE, "none", "arm64"),
                Image(TRUE, "agent", "arm64"), Image(TRUE, "agent", "amd64"),
                Image(TRUE, "invalid", "arm64"), Image(TRUE, "alias", "arm64")})

MCRemoteImages ==
  ("" :> {"missing"}) @@ ("fixed" :> {"missing"})
  @@ ("img" :> {"missing", "arm64", "amd64", "single"})

Abs(parts) == [absolute |-> TRUE, parts |-> parts]
Rel(parts) == [absolute |-> FALSE, parts |-> parts]

Source(path) ==
  [tilde |-> FALSE, absolute |-> path.absolute, parts |-> path.parts, below |-> <<>>]
InHome(parts) ==
  [tilde |-> TRUE, absolute |-> FALSE, parts |-> <<"~">> \o parts, below |-> parts]

Mount(source, target) ==
  [fields |-> 2, source |-> source, target |-> target, mode |-> ""]

\* A spawn call: its client, and what it asks for.
Call == [via |-> "rpc", runtime |-> "claude", isolation |-> "docker", profile |-> "",
         image |-> "fixed", env |-> <<>>, args |-> <<>>, mounts |-> <<>>,
         caller_cwd |-> A, cwd_given |-> TRUE, cwd |-> Abs(AB), tmux |-> FALSE]

\* Up to two mounts of any source at any target, and three over one cwd.
MountPairs ==
  {Mount(Source(s), t) : s \in {Abs(Root), Abs(A), Abs(AB), Abs(L), Rel(<<"b">>), Abs(W)},
                         t \in {Abs(<<"">>), Abs(A), Abs(AB), Abs(W), Abs(<<"w", ".", "b">>),
                                Abs(<<"w", "..", "a">>), Rel(W)}}

MountTriples ==
  {Mount(Source(s), t) : s \in {Abs(Root), Abs(A), Abs(AB)},
                         t \in {Abs(W), Abs(<<"x">>), Abs(<<"y">>)}}

MountCalls ==
  {[Call EXCEPT !.mounts = ms, !.cwd = c] :
     ms \in {<<m>> : m \in MountPairs} \cup {<<m, n>> : m, n \in MountPairs},
     c \in {Abs(A), Abs(AB), Abs(L), Rel(<<"b">>)}}
  \cup {[Call EXCEPT !.mounts = <<l, m, n>>] : l, m, n \in MountTriples}

\* The arguments of the CLI that may be wrong.
ArgumentCalls ==
  {[Call EXCEPT !.via = "cli", !.isolation = iso, !.mounts = ms, !.cwd = c,
                !.cwd_given = given, !.tmux = tmux, !.runtime = runtime] :
     iso \in {"host", "docker"}, tmux \in BOOLEAN, given \in BOOLEAN,
     runtime \in {"claude", "codex", "other"},
     c \in {Abs(AB), Abs(L), Rel(<<"b">>), Rel(<<"file">>), Abs(<<"z">>)},
     ms \in {<<>>} \cup
            {<<[fields |-> f, source |-> s, target |-> t, mode |-> m]>> :
               f \in 1..4, m \in {"ro", "rw", "xx"},
               s \in {InHome(<<"b">>), Source(Rel(<<>>)), Source(Abs(A))},
               t \in {Abs(W), Rel(<<>>)}}}

\* The image and the profile, while the image may change.
ImageCalls ==
  {[Call EXCEPT !.image = i, !.profile = p] :
     i \in {"", "img"},
     p \in {"", "default", "own-init", "allow-root", "arm64-manifest-escape",
            "privileged", "tmux-primary"}}

\* A value that is a path, or paths between colons.
List(path, paths) == [text |-> "", path |-> path, paths |-> paths]
Path(path) == List(path, <<path>>)
Arg(key, explicit, value) == [key |-> key, explicit |-> explicit, value |-> value]

CallerEnv ==
  <<Entry("PATH", Text("p")), Entry("RTM_SESSION_ID", Text("parent")),
    Entry("TMUX_PANE", Text("0")), Entry("CLAUDE_CODE_TMPDIR", Path(Abs(W))),
    Entry("CLAUDE_CONFIG_DIR", Path(Abs(AB)))>>

\* /w, //w, /w:/w/b, /w:/w/../a, /w: and /w/a:b.
PathEnvs ==
  {Path(Abs(W)), Path(Abs(<<"", "w">>)),
   List(Abs(<<"w:", "w", "b">>), <<Abs(W), Abs(<<"w", "b">>)>>),
   List(Abs(<<"w:", "w", "..", "a">>), <<Abs(W), Abs(<<"w", "..", "a">>)>>),
   List(Abs(<<"w:">>), <<Abs(W), Rel(<<>>)>>),
   List(Abs(<<"w", "a:b">>), <<Abs(<<"w", "a">>), Rel(<<"b">>)>>)}

\* Environments of the caller and of the arguments.
EnvCalls ==
  {[Call EXCEPT !.via = "cli", !.isolation = iso, !.env = caller, !.args = args,
                !.tmux = tmux, !.mounts = IF iso = "host" THEN <<>>
                                          ELSE <<Mount(Source(Abs(A)), Abs(W))>>] :
     iso \in {"host", "docker"}, tmux \in BOOLEAN,
     caller \in {CallerEnv, Append(CallerEnv, Entry("SHELL", Text("zsh")))},
     args \in {<<>>, <<Arg("", TRUE, Text("v"))>>,
               <<Arg("TMUX_PANE", FALSE, Text(""))>>, <<Arg("HOME", FALSE, Text(""))>>,
               <<Arg("RTM_SESSION_ID", TRUE, Text("mine"))>>,
               <<Arg("PATH", TRUE, Text("q")), Arg("PATH", TRUE, Text("r"))>>,
               <<Arg("CLAUDE_CODE_TMPDIR", FALSE, Text(""))>>,
               <<Arg("CLAUDE_CONFIG_DIR", FALSE, Text(""))>>}}
  \cup
  {[Call EXCEPT !.env = <<Entry(key, value)>>,
                !.mounts = <<Mount(Source(Abs(A)), Abs(W))>>] :
     key \in {"CLAUDE_CODE_PLUGIN_SEED_DIR", "CLAUDE_CODE_TMPDIR", "FOO"}, value \in PathEnvs}
  \cup
  {[Call EXCEPT !.env = env, !.isolation = iso] :
     iso \in {"host", "docker"},
     env \in {<<Entry("RTM_SESSION_ID", Text("x"))>>,
              <<Entry("RTM_SESSION_ID", Text("x")), Entry("RTM_SESSION_ID", Text("y"))>>}}

\* The same arguments from another client.
WireCalls ==
  {[Call EXCEPT !.isolation = iso, !.tmux = tmux, !.cwd = Rel(<<"b">>),
                !.mounts = <<Mount(s, Abs(W))>>] :
     iso \in {"host", "docker"}, tmux \in BOOLEAN,
     s \in {InHome(<<"b">>), Source(Rel(<<>>)), Source(Abs(W))}}

MCCalls == WireCalls \cup MountCalls \cup ArgumentCalls \cup ImageCalls \cup EnvCalls
=============================================================================
