------------------------------- MODULE MCRtmd -------------------------------
(* Instances of Rtmd for TLC.                                              *)
EXTENDS Rtmd, TLC

LOCAL INSTANCE SequencesExt

\* Spawn requests and watcher slots are interchangeable, and so are sessions.
Symmetric == Permutations(Session) \cup Permutations(Spawner) \cup Permutations(Watcher)

\* All sessions were spawned by a daemon that has ended: their rows are Running,
\* their runtimes live, but their shims were killed, so that the next daemon finds
\* out about their ends by itself.
Adopted ==
  /\ daemon = "down"
  /\ crashes = 1
  /\ row = [s \in Session |-> mark_running(forking)]
  /\ log = [i \in 1 .. Len(SetToSeq(Session)) |->
       [session |-> SetToSeq(Session)[i], kind |-> "Running", incarnation |-> 0]]
  /\ launches = {} /\ reported = {} /\ todo = {}
  /\ sender = [s \in Session |-> Nobody]
  /\ watcher = [s \in Session |-> Nobody]
  /\ task = [t \in Task |-> Idle]
  /\ shim = [s \in Session |-> [pc |-> "dead", attempts |-> 0]]
  /\ proc = [s \in Session |-> "alive"]

\* One session from its spawn on, or all of them adopted.
LiveSpec == (Init \/ Adopted) /\ [][Next]_vars /\ Fairness
=============================================================================
