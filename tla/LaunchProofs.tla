---------------------------- MODULE LaunchProofs ----------------------------
(***************************************************************************)
(* Proofs about Launch, for every set of calls, file system, configuration *)
(* and image.                                                              *)
(***************************************************************************)
EXTENDS Launch, SequenceTheorems, WellFoundedInduction, TLAPS

-----------------------------------------------------------------------------
(* Loops.  An induction is stated for a set of indices: NatInduction takes *)
(* an operator, which the provers cannot instantiate.                      *)

\* A set of naturals has a least member.
LEMMA LeastIndex ==
  ASSUME NEW T, T \subseteq Nat, T # {}
  PROVE  \E x \in T : \A y \in T : x <= y
<1> DEFINE R == {ss \in Nat \X Nat : ss[1] < ss[2]}
<1>1. IsWellFoundedOn(R, Nat)
  BY NatLessThanWellFounded DEF OpToRel
<1> HIDE DEF R
<1>2. PICK x \in T : \A y \in T : ~ (<<y, x>> \in R)
  BY <1>1, WFMin
<1>3. \A y \in T : ~(y < x)
  BY <1>2 DEF R
<1> QED BY <1>3

\* What holds before a loop and is kept by its steps holds all along.
LEMMA LoopInduction ==
  ASSUME NEW n \in Nat, NEW T, 0 \in T, \A i \in 1..n : i - 1 \in T => i \in T
  PROVE  \A i \in 0..n : i \in T
<1> DEFINE Wrong == {i \in 0..n : i \notin T}
<1> SUFFICES ASSUME Wrong # {} PROVE FALSE
  OBVIOUS
<1>1. PICK i \in Wrong : \A j \in Wrong : i <= j
  <2>1. Wrong \subseteq Nat
    OBVIOUS
  <2> HIDE DEF Wrong
  <2> QED BY <2>1, LeastIndex
<1>2. i \in 1..n
  BY <1>1
<1>3. i - 1 \in 0..n /\ i - 1 \notin Wrong
  BY <1>1, <1>2
<1> QED BY <1>1, <1>2, <1>3

\* f is the loop over 1..n from start, with its state in S.
Run(f, n, S, start, step) ==
  /\ f \in [0..n -> S]
  /\ f[0] = start
  /\ \A i \in 1..n : f[i] = step[i][f[i - 1]]

LEMMA LoopRuns ==
  ASSUME NEW S, NEW n \in Nat, NEW start \in S, NEW step \in [1..n -> [S -> S]]
  PROVE  \E f : Run(f, n, S, start, step)
<1> DEFINE T == {k \in 0..n : \E f : Run(f, k, S, start, step)}
<1>1. 0 \in T
  <2> DEFINE f == [i \in 0..0 |-> start]
  <2>1. Run(f, 0, S, start, step) /\ 0 \in 0..n
    BY DEF Run
  <2> QED BY <2>1, Zenon
<1>2. ASSUME NEW k \in 1..n, k - 1 \in T PROVE k \in T
  <2>1. PICK f : Run(f, k - 1, S, start, step)
    BY <1>2
  <2> DEFINE g == [i \in 0..k |-> IF i = k THEN step[k][f[k - 1]] ELSE f[i]]
  <2>2. f \in [0..(k - 1) -> S] /\ step[k][f[k - 1]] \in S
    BY <2>1 DEF Run
  <2>3. g \in [0..k -> S]
    BY <2>2
  <2>4. g[0] = start
    BY <2>1 DEF Run
  <2>5. ASSUME NEW i \in 1..k PROVE g[i] = step[i][g[i - 1]]
    <3>1. CASE i = k
      <4>1. k - 1 \in 0..k /\ k - 1 # k /\ k \in 0..k
        OBVIOUS
      <4> QED BY <3>1, <4>1
    <3>2. CASE i # k
      <4>1. i \in 1..(k - 1) /\ g[i] = f[i] /\ g[i - 1] = f[i - 1]
        BY <3>2
      <4> QED BY <4>1, <2>1 DEF Run
    <3> QED BY <3>1, <3>2
  <2> HIDE DEF g
  <2>6. Run(g, k, S, start, step)
    BY <2>3, <2>4, <2>5 DEF Run
  <2>7. k \in 0..n
    OBVIOUS
  <2> QED BY <2>6, <2>7, Zenon
<1> HIDE DEF T
<1>3. n \in T
  <2>1. n \in 0..n
    OBVIOUS
  <2> QED BY <1>1, <1>2, <2>1, LoopInduction
<1> QED BY <1>3 DEF T

-----------------------------------------------------------------------------
(* Paths.                                                                  *)

\* However a container path is written, what it is normalized to is a path.
LEMMA NormalizeIsPath ==
  ASSUME NEW S, NEW path, path.parts \in Seq(S)
  PROVE  normalize_container_path(path) \in Seq(S)
<1> DEFINE n == Len(path.parts)
           Step(i, parts) == IF path.parts[i] \in {"", "."} THEN parts
                             ELSE IF path.parts[i] = ".."
                             THEN SubSeq(parts, 1, Len(parts) - 1)
                             ELSE Append(parts, path.parts[i])
           Loop(f) == f = [i \in 0..n |-> IF i = 0 THEN <<>> ELSE Step(i, f[i - 1])]
           step == [i \in 1..n |-> [parts \in Seq(S) |-> Step(i, parts)]]
<1>1. n \in Nat /\ \A i \in 1..n : path.parts[i] \in S
  OBVIOUS
<1>2. \A i \in 1..n, parts \in Seq(S) : Step(i, parts) \in Seq(S)
  <2> SUFFICES ASSUME NEW i \in 1..n, NEW parts \in Seq(S)
               PROVE  Step(i, parts) \in Seq(S)
    OBVIOUS
  <2>1. SubSeq(parts, 1, Len(parts) - 1) \in Seq(S)
    <3>1. Len(parts) \in Nat
      OBVIOUS
    <3> QED BY <3>1
  <2>2. Append(parts, path.parts[i]) \in Seq(S)
    BY <1>1
  <2> QED BY <2>1, <2>2
<1>3. normalize_container_path(path) = (CHOOSE f : Loop(f))[n]
  BY DEF normalize_container_path
<1> HIDE DEF n, Step
<1>4. \E f : Loop(f)
  <2>1. step \in [1..n -> [Seq(S) -> Seq(S)]]
    BY <1>2
  <2>2. PICK f : Run(f, n, Seq(S), <<>>, step)
    <3>1. <<>> \in Seq(S)
      OBVIOUS
    <3> HIDE DEF step
    <3> QED BY <1>1, <2>1, <3>1, LoopRuns
  <2>3. ASSUME NEW i \in 1..n PROVE f[i] = Step(i, f[i - 1])
    <3>1. f[i - 1] \in Seq(S)
      BY <1>1, <2>2 DEF Run
    <3> QED BY <2>2, <3>1 DEF Run
  <2>4. Loop(f)
    BY <1>1, <2>2, <2>3 DEF Run
  <2> QED BY <2>4
<1>5. PICK f : Loop(f) /\ normalize_container_path(path) = f[n]
  <2> HIDE DEF Loop
  <2> QED BY <1>3, <1>4
<1> DEFINE T == {i \in 0..n : f[i] \in Seq(S)}
<1>6. 0 \in T
  BY <1>1, <1>5
<1>7. ASSUME NEW i \in 1..n, i - 1 \in T PROVE i \in T
  <2>1. f[i - 1] \in Seq(S) /\ i \in 0..n /\ i # 0
    BY <1>1, <1>7
  <2>2. f[i] = Step(i, f[i - 1])
    BY <1>5, <2>1
  <2> QED BY <1>2, <2>1, <2>2
<1> HIDE DEF T
<1>8. n \in T
  <2>1. n \in 0..n
    BY <1>1
  <2> QED BY <1>1, <1>6, <1>7, <2>1, LoopInduction
<1> QED BY <1>5, <1>8 DEF T

\* Two paths that do not overlap have no path below both.
LEMMA NoCommonPath ==
  ASSUME NEW S, NEW cwd \in Seq(S), NEW target \in Seq(S), NEW path \in Seq(S),
         Covers(cwd, path), ~container_paths_overlap(cwd, target)
  PROVE  ~container_path_covers(target, path)
<1> SUFFICES ASSUME Covers(target, path) PROVE FALSE
  BY DEF container_path_covers
<1>1. CASE Len(target) <= Len(cwd)
  <2>1. \A i \in 1..Len(target) : target[i] = cwd[i]
    BY <1>1 DEF Covers
  <2> QED BY <1>1, <2>1 DEF Covers, container_paths_overlap, container_path_covers
<1>2. CASE Len(cwd) <= Len(target)
  <2>1. \A i \in 1..Len(cwd) : cwd[i] = target[i]
    BY <1>2 DEF Covers
  <2> QED BY <1>2, <2>1 DEF Covers, container_paths_overlap, container_path_covers
<1> QED BY <1>1, <1>2

\* A path is its root followed by what is below the root.
LEMMA RootAndBelow ==
  ASSUME NEW S, NEW root \in Seq(S), NEW path \in Seq(S), Covers(root, path)
  PROVE  root \o Below(root, path) = path
<1> DEFINE rest == Below(root, path)
<1>1. Len(root) \in Nat /\ Len(path) \in Nat /\ Len(root) <= Len(path)
  BY DEF Covers
<1>2. rest \in Seq(S) /\ Len(rest) = Len(path) - Len(root)
  BY <1>1 DEF Below
<1>3. \A i \in 1..Len(rest) : rest[i] = path[i + Len(root)]
  BY <1>1, <1>2 DEF Below
<1>4. root \o rest \in Seq(S) /\ Len(root \o rest) = Len(path)
  BY <1>1, <1>2
<1> HIDE DEF rest
<1>5. ASSUME NEW i \in 1..Len(path)
      PROVE  (root \o rest)[i] = path[i]
  <2>1. CASE i <= Len(root)
    BY <2>1, <1>1, <1>2 DEF Covers
  <2>2. CASE i > Len(root)
    <3>1. (root \o rest)[i] = rest[i - Len(root)]
      BY <2>2, <1>1, <1>2
    <3>2. i - Len(root) \in 1..Len(rest)
      BY <2>2, <1>1, <1>2
    <3> QED BY <3>1, <3>2, <1>1, <1>3
  <2>3. i \in Nat
    BY <1>1
  <2>4. i <= Len(root) \/ i > Len(root)
    BY <2>3, <1>1
  <2> QED BY <2>1, <2>2, <2>4, Zenon
<1>6. root \o rest = path
  BY <1>4, <1>5, SeqEqual
<1> QED BY <1>6 DEF rest

-----------------------------------------------------------------------------
(* Environments.                                                           *)

Unique(env) == \A i, j \in DOMAIN env : env[i].key = env[j].key => i = j

Has(env, entry) == \E i \in DOMAIN env : env[i] = entry

\* An upsert writes the entry; every other entry was there before, and an entry
\* of another key stays.
Upserted(V, env, next, new) ==
  /\ \A i \in DOMAIN new : new[i] = next \/ Has(env, new[i])
  /\ Unique(env) => /\ Unique(new) /\ Has(new, next)
                    /\ \A e \in V : Has(env, e) /\ e.key # next.key => Has(new, e)

LEMMA Upsert ==
  ASSUME NEW V, NEW env \in Seq(V), NEW next \in V
  PROVE  /\ upsert_launch_env(env, next) \in Seq(V)
         /\ Upserted(V, env, next, upsert_launch_env(env, next))
<1> USE DEF Upserted
<1> DEFINE new == upsert_launch_env(env, next)
           n == Len(env)
<1>1. n \in Nat /\ DOMAIN env = 1..n /\ \A i \in 1..n : env[i] \in V
  BY ElementOfSeq
<1>2. CASE next.key \notin Keys(env)
  <2>1. new = Append(env, next)
    BY <1>2 DEF upsert_launch_env
  <2>2. /\ new \in Seq(V) /\ Len(new) = n + 1 /\ new[n + 1] = next
        /\ \A i \in 1..n : new[i] = env[i]
    BY <1>1, <2>1
  <2>3. DOMAIN new = 1..(n + 1)
    BY <2>2
  <2>4. \A i \in 1..n : env[i].key # next.key
    BY <1>1, <1>2 DEF Keys
  <2> HIDE DEF new
  <2>5. \A i \in DOMAIN new : new[i] = next \/ Has(env, new[i])
    BY <1>1, <2>2, <2>3 DEF Has
  <2>6. Has(new, next)
    BY <1>1, <2>2, <2>3 DEF Has
  <2>7. \A e \in V : Has(env, e) => Has(new, e)
    BY <1>1, <2>2, <2>3 DEF Has
  <2>8. ASSUME Unique(env) PROVE Unique(new)
    <3> SUFFICES ASSUME NEW i \in DOMAIN new, NEW j \in DOMAIN new, new[i].key = new[j].key
                 PROVE  i = j
      BY DEF Unique
    <3>1. (i \in 1..n \/ i = n + 1) /\ (j \in 1..n \/ j = n + 1)
      BY <1>1, <2>3
    <3> QED BY <1>1, <2>2, <2>4, <2>8, <3>1 DEF Unique
  <2> QED BY <2>2, <2>5, <2>6, <2>7, <2>8 DEF new
<1>3. CASE next.key \in Keys(env)
  <2> DEFINE First(i) == env[i].key = next.key /\ \A j \in 1..(i - 1) : env[j].key # next.key
  <2>1. new = [i \in DOMAIN env |-> IF First(i) THEN next ELSE env[i]]
    BY <1>3 DEF upsert_launch_env
  <2>2. DOMAIN new = 1..n /\ \A i \in 1..n : new[i] = IF First(i) THEN next ELSE env[i]
    BY <1>1, <2>1
  <2> HIDE DEF new
  <2>3. new \in Seq(V)
    <3>1. new \in [1..n -> V]
      <4>1. \A i \in 1..n : (IF First(i) THEN next ELSE env[i]) \in V
        BY <1>1
      <4> HIDE DEF First
      <4> QED BY <1>1, <2>1, <4>1
    <3> QED BY <1>1, <3>1, SeqDef
  <2>4. \A i \in 1..n : new[i] = next \/ new[i] = env[i]
    BY <2>2
  <2>5. \A i \in DOMAIN new : new[i] = next \/ Has(env, new[i])
    BY <1>1, <2>2, <2>4 DEF Has
  <2>6. \A i \in 1..n : new[i].key = env[i].key
    BY <2>2
  <2>7. ASSUME Unique(env) PROVE Unique(new)
    BY <1>1, <2>2, <2>6, <2>7 DEF Unique
  <2>8. ASSUME Unique(env) PROVE Has(new, next)
    <3>1. PICK i \in 1..n : env[i].key = next.key
      BY <1>1, <1>3 DEF Keys
    <3>2. First(i)
      BY <1>1, <2>8, <3>1 DEF Unique
    <3> QED BY <2>2, <3>1, <3>2 DEF Has
  <2>9. \A e \in V : Has(env, e) /\ e.key # next.key => Has(new, e)
    BY <1>1, <2>2 DEF Has
  <2> QED BY <2>3, <2>5, <2>7, <2>8, <2>9 DEF new
<1> QED BY <1>2, <1>3

\* The loop of upsert_all, one entry after the other.
UpsertsRun(done, V, env, entries) ==
  /\ done \in [0..Len(entries) -> Seq(V)] /\ done[0] = env
  /\ \A i \in 1..Len(entries) : done[i] = upsert_launch_env(done[i - 1], entries[i])
  /\ upsert_all(env, entries) = done[Len(entries)]

LEMMA UpsertAll ==
  ASSUME NEW V, NEW env \in Seq(V), NEW entries \in Seq(V)
  PROVE  \E done : UpsertsRun(done, V, env, entries)
<1> DEFINE n == Len(entries)
           Step(i, e) == upsert_launch_env(e, entries[i])
           Loop(f) == f = [i \in 0..n |-> IF i = 0 THEN env ELSE Step(i, f[i - 1])]
           step == [i \in 1..n |-> [e \in Seq(V) |-> Step(i, e)]]
<1>1. n \in Nat /\ \A i \in 1..n : entries[i] \in V
  OBVIOUS
<1>2. \A i \in 1..n, e \in Seq(V) : Step(i, e) \in Seq(V)
  BY <1>1, Upsert
<1>3. upsert_all(env, entries) = (CHOOSE f : Loop(f))[n]
  BY DEF upsert_all
<1> HIDE DEF n, Step
<1>4. \E f : Loop(f)
  <2>1. step \in [1..n -> [Seq(V) -> Seq(V)]]
    BY <1>2
  <2>2. PICK f : Run(f, n, Seq(V), env, step)
    <3> HIDE DEF step
    <3> QED BY <1>1, <2>1, LoopRuns
  <2>3. ASSUME NEW i \in 1..n PROVE f[i] = Step(i, f[i - 1])
    <3>1. f[i - 1] \in Seq(V)
      BY <1>1, <2>2 DEF Run
    <3> QED BY <2>2, <3>1 DEF Run
  <2>4. Loop(f)
    BY <1>1, <2>2, <2>3 DEF Run
  <2> QED BY <2>4
<1>5. PICK f : Loop(f) /\ upsert_all(env, entries) = f[n]
  <2> HIDE DEF Loop
  <2> QED BY <1>3, <1>4
<1>6. f[0] = env /\ \A i \in 1..n : f[i] = Step(i, f[i - 1])
  BY <1>1, <1>5
<1> DEFINE T == {i \in 0..n : f[i] \in Seq(V)}
<1>7. \A i \in 0..n : i \in T
  <2>1. 0 \in T
    BY <1>1, <1>6
  <2>2. \A i \in 1..n : i - 1 \in T => i \in T
    BY <1>1, <1>2, <1>6
  <2> HIDE DEF T
  <2> QED BY <1>1, <2>1, <2>2, LoopInduction
<1>8. f \in [0..n -> Seq(V)]
  BY <1>5, <1>7
<1> HIDE DEF Loop
<1> QED BY <1>5, <1>6, <1>8 DEF n, Step, UpsertsRun

\* Upserts keep the keys unique.
LEMMA UpsertAllUnique ==
  ASSUME NEW V, NEW env \in Seq(V), NEW entries \in Seq(V)
  PROVE  /\ upsert_all(env, entries) \in Seq(V)
         /\ Unique(env) => Unique(upsert_all(env, entries))
<1> DEFINE n == Len(entries)
<1>1. n \in Nat /\ \A i \in 1..n : entries[i] \in V
  OBVIOUS
<1>2. PICK done : /\ done \in [0..n -> Seq(V)] /\ done[0] = env
                  /\ \A i \in 1..n : done[i] = upsert_launch_env(done[i - 1], entries[i])
                  /\ upsert_all(env, entries) = done[n]
  BY UpsertAll DEF UpsertsRun
<1> HIDE DEF n
<1>3. upsert_all(env, entries) \in Seq(V)
  BY <1>1, <1>2
<1>4. ASSUME Unique(env) PROVE Unique(upsert_all(env, entries))
  <2> DEFINE T == {i \in 0..n : Unique(done[i])}
  <2>1. 0 \in T
    BY <1>1, <1>2, <1>4
  <2>2. ASSUME NEW i \in 1..n, i - 1 \in T PROVE i \in T
    <3>1. Unique(upsert_launch_env(done[i - 1], entries[i]))
      BY <1>1, <1>2, <2>2, Upsert DEF Upserted
    <3> QED BY <1>2, <3>1
  <2> HIDE DEF T
  <2>3. n \in T
    <3>1. n \in 0..n
      BY <1>1
    <3> QED BY <1>1, <2>1, <2>2, <3>1, LoopInduction
  <2> QED BY <1>2, <2>3 DEF T
<1> QED BY <1>3, <1>4

\* The captured environment has its entries from the caller, each once.
LEMMA Captured ==
  ASSUME NEW V, NEW env \in Seq(V)
  PROVE  /\ capture_env_from(env) \in Seq(V)
         /\ Unique(env) => Unique(capture_env_from(env))
<1> DEFINE n == Len(env)
           Step(i, e) == IF is_denied(env[i].key) THEN e ELSE Append(e, env[i])
           Loop(f) == f = [i \in 0..n |-> IF i = 0 THEN <<>> ELSE Step(i, f[i - 1])]
           step == [i \in 1..n |-> [e \in Seq(V) |-> Step(i, e)]]
<1>1. n \in Nat /\ DOMAIN env = 1..n /\ \A i \in 1..n : env[i] \in V
  BY ElementOfSeq
<1>2. \A i \in 1..n, e \in Seq(V) : Step(i, e) \in Seq(V)
  BY <1>1
<1>3. capture_env_from(env) = (CHOOSE f : Loop(f))[n]
  BY DEF capture_env_from
<1> HIDE DEF n, Step
<1>4. \E f : Loop(f)
  <2>1. step \in [1..n -> [Seq(V) -> Seq(V)]]
    BY <1>2
  <2>2. PICK f : Run(f, n, Seq(V), <<>>, step)
    <3>1. <<>> \in Seq(V)
      OBVIOUS
    <3> HIDE DEF step
    <3> QED BY <1>1, <2>1, <3>1, LoopRuns
  <2>3. ASSUME NEW i \in 1..n PROVE f[i] = Step(i, f[i - 1])
    <3>1. f[i - 1] \in Seq(V)
      BY <1>1, <2>2 DEF Run
    <3> QED BY <2>2, <3>1 DEF Run
  <2>4. Loop(f)
    BY <1>1, <2>2, <2>3 DEF Run
  <2> QED BY <2>4
<1>5. PICK f : Loop(f) /\ capture_env_from(env) = f[n]
  <2> HIDE DEF Loop
  <2> QED BY <1>3, <1>4
<1>6. f[0] = <<>> /\ \A i \in 1..n : f[i] = Step(i, f[i - 1])
  BY <1>1, <1>5
<1> DEFINE Kept(i) == /\ f[i] \in Seq(V)
                      /\ \A a \in DOMAIN f[i] : \E k \in 1..i : f[i][a] = env[k]
                      /\ Unique(env) => Unique(f[i])
           T == {i \in 0..n : Kept(i)}
<1>7. 0 \in T
  <2>1. Kept(0)
    BY <1>6 DEF Unique
  <2> QED BY <1>1, <2>1
<1>8. ASSUME NEW i \in 1..n, i - 1 \in T PROVE i \in T
  <2>1. Kept(i - 1) /\ i \in 0..n /\ i - 1 \in 0..n
    BY <1>1, <1>8
  <2>2. CASE f[i] = f[i - 1]
    <3>1. \A k \in 1..(i - 1) : k \in 1..i
      BY <1>1
    <3>2. Kept(i)
      BY <2>1, <2>2, <3>1
    <3> QED BY <2>1, <3>2
  <2>3. CASE f[i] = Append(f[i - 1], env[i])
    <3> DEFINE m == Len(f[i - 1])
    <3>1. /\ f[i] \in Seq(V) /\ m \in Nat /\ DOMAIN f[i] = 1..(m + 1) /\ f[i][m + 1] = env[i]
          /\ DOMAIN f[i - 1] = 1..m /\ \A a \in 1..m : f[i][a] = f[i - 1][a]
      BY <1>1, <2>1, <2>3
    <3> HIDE DEF m
    <3>2. ASSUME NEW a \in DOMAIN f[i]
          PROVE  \/ a = m + 1 /\ f[i][a] = env[i]
                 \/ a \in 1..m /\ \E k \in 1..(i - 1) : f[i][a] = env[k]
      BY <2>1, <3>1
    <3>3. \A a \in DOMAIN f[i] : \E k \in 1..i : f[i][a] = env[k]
      BY <1>1, <3>2
    <3>4. ASSUME Unique(env) PROVE Unique(f[i])
      <4> SUFFICES ASSUME NEW a \in DOMAIN f[i], NEW b \in DOMAIN f[i],
                          f[i][a].key = f[i][b].key
                   PROVE  a = b
        BY DEF Unique
      <4>1. \A k \in 1..(i - 1) : env[k].key # env[i].key
        BY <1>1, <3>4 DEF Unique
      <4>2. CASE a = m + 1 /\ b # m + 1
        <5>1. f[i][a] = env[i]
          BY <3>1, <4>2
        <5>2. PICK k \in 1..(i - 1) : f[i][b] = env[k]
          BY <3>2, <4>2
        <5> QED BY <4>1, <5>1, <5>2
      <4>3. CASE b = m + 1 /\ a # m + 1
        <5>1. f[i][b] = env[i]
          BY <3>1, <4>3
        <5>2. PICK k \in 1..(i - 1) : f[i][a] = env[k]
          BY <3>2, <4>3
        <5> QED BY <4>1, <5>1, <5>2
      <4>4. CASE a \in 1..m /\ b \in 1..m
        <5>1. /\ f[i][a] = f[i - 1][a] /\ f[i][b] = f[i - 1][b]
              /\ a \in DOMAIN f[i - 1] /\ b \in DOMAIN f[i - 1]
          BY <3>1, <4>4
        <5>2. Unique(f[i - 1])
          BY <2>1, <3>4
        <5> QED BY <5>1, <5>2, Zenon DEF Unique
      <4> QED BY <3>2, <4>2, <4>3, <4>4
    <3>5. Kept(i)
      BY <3>1, <3>3, <3>4
    <3> HIDE DEF Kept
    <3> QED BY <2>1, <3>5
  <2> QED BY <1>6, <2>2, <2>3 DEF Step
<1> HIDE DEF T
<1>9. n \in T
  <2>1. n \in 0..n
    BY <1>1
  <2> QED BY <1>1, <1>7, <1>8, <2>1, LoopInduction
<1> HIDE DEF Loop
<1> QED BY <1>5, <1>9 DEF T

\* What a process finds under a key is the value of one of its entries.
LEMMA AppliedIsEntry ==
  ASSUME NEW V, NEW env \in Seq(V), NEW key \in Keys(env)
  PROVE  \E i \in DOMAIN env : env[i].key = key /\ Applied(env)[key] = env[i].value
<1> DEFINE n == Len(env)
           T == {k \in Nat : \E i \in 1..n : env[i].key = key /\ k = n - i}
           Last(i) == env[i].key = key /\ \A j \in (i + 1)..n : env[j].key # key
<1>1. n \in Nat /\ DOMAIN env = 1..n
  OBVIOUS
<1>2. T # {}
  <2>1. PICK i \in 1..n : env[i].key = key
    BY <1>1 DEF Keys
  <2>2. n - i \in Nat
    BY <1>1
  <2>3. n - i \in T
    BY <2>1, <2>2
  <2> QED BY <2>3
<1>3. PICK k \in T : \A l \in T : k <= l
  <2>1. T \subseteq Nat
    OBVIOUS
  <2> HIDE DEF T
  <2> QED BY <1>2, <2>1, LeastIndex
<1>4. PICK i \in 1..n : env[i].key = key /\ k = n - i
  OBVIOUS
<1>5. ASSUME NEW j \in (i + 1)..n PROVE env[j].key # key
  <2>1. j \in 1..n /\ n - j \in Nat /\ ~(n - i <= n - j)
    <3> HIDE DEF n, T
    <3>1. n \in Nat
      BY <1>1
    <3>2. i \in Nat
      BY <3>1
    <3>3. j \in Nat /\ i < j /\ j <= n
      BY <3>1, <3>2
    <3> QED BY <3>1, <3>2, <3>3
  <2>2. n - j \notin T
    BY <1>3, <1>4, <2>1
  <2> QED BY <2>1, <2>2
<1>6. \E x \in DOMAIN env : Last(x)
  BY <1>1, <1>4, <1>5
<1>7. Applied(env)[key] = env[CHOOSE x \in DOMAIN env : Last(x)].value
  BY DEF Applied
<1> HIDE DEF Last
<1>8. PICK x \in DOMAIN env : Last(x) /\ Applied(env)[key] = env[x].value
  BY <1>6, <1>7
<1> QED BY <1>8 DEF Last

LEMMA AppliedUnique ==
  ASSUME NEW V, NEW env \in Seq(V), NEW entry, Unique(env), Has(env, entry)
  PROVE  Applied(env)[entry.key] = entry.value
<1>1. entry.key \in Keys(env)
  BY DEF Has, Keys
<1>2. PICK i \in DOMAIN env :
        env[i].key = entry.key /\ Applied(env)[entry.key] = env[i].value
  BY <1>1, AppliedIsEntry
<1>3. env[i] = entry
  BY <1>2 DEF Has, Unique
<1> QED BY <1>2, <1>3

OwnKeys == {"HELIOY_SESSION_ID", "HELIOY_RUNTIME", "RTM_SESSION_ID", "RTM_RUNTIME_KIND"}

\* The launcher's four upserts: where the request repeats no key they win, and
\* under every other key there is what the request has.
LEMMA RuntimeEnv ==
  ASSUME NEW V, NEW r, r.env \in Seq(V)
  PROVE  LET env == runtime_env(r) IN
         /\ \A key \in Keys(env) \ OwnKeys :
              \E i \in DOMAIN r.env : /\ r.env[i].key = key
                                      /\ Applied(env)[key] = r.env[i].value
         /\ Unique(r.env) =>
              /\ \A key \in {"HELIOY_SESSION_ID", "RTM_SESSION_ID"} :
                   Applied(env)[key] = Text(r.session_id)
              /\ \A key \in {"HELIOY_RUNTIME", "RTM_RUNTIME_KIND"} :
                   Applied(env)[key] = Text(r.runtime)
<1> DEFINE e1 == Entry("HELIOY_SESSION_ID", Text(r.session_id))
           e2 == Entry("HELIOY_RUNTIME", Text(r.runtime))
           e3 == Entry("RTM_SESSION_ID", Text(r.session_id))
           e4 == Entry("RTM_RUNTIME_KIND", Text(r.runtime))
           W == V \cup {e1, e2, e3, e4}
           entries == <<e1, e2, e3, e4>>
<1>1. /\ e1.key = "HELIOY_SESSION_ID" /\ e1.value = Text(r.session_id)
      /\ e2.key = "HELIOY_RUNTIME" /\ e2.value = Text(r.runtime)
      /\ e3.key = "RTM_SESSION_ID" /\ e3.value = Text(r.session_id)
      /\ e4.key = "RTM_RUNTIME_KIND" /\ e4.value = Text(r.runtime)
  BY DEF Entry
<1>2. runtime_env(r) = upsert_all(r.env, entries)
  BY DEF runtime_env
<1> HIDE DEF e1, e2, e3, e4
<1>3. /\ r.env \in Seq(W) /\ entries \in Seq(W) /\ Len(entries) = 4
      /\ e1 \in W /\ e2 \in W /\ e3 \in W /\ e4 \in W
  OBVIOUS
<1>4. entries[1] = e1 /\ entries[2] = e2 /\ entries[3] = e3 /\ entries[4] = e4
  OBVIOUS
<1> HIDE DEF W, entries
<1>5. PICK d : /\ d \in [0..4 -> Seq(W)] /\ d[0] = r.env
               /\ \A i \in 1..4 : d[i] = upsert_launch_env(d[i - 1], entries[i])
               /\ upsert_all(r.env, entries) = d[4]
  <2>1. \E d : UpsertsRun(d, W, r.env, entries)
    BY <1>3, UpsertAll
  <2> QED BY <1>3, <2>1 DEF UpsertsRun
<1>6. /\ d[0] \in Seq(W) /\ d[1] \in Seq(W) /\ d[2] \in Seq(W) /\ d[3] \in Seq(W)
      /\ d[4] \in Seq(W)
  BY <1>5
<1>7. /\ d[1] = upsert_launch_env(d[0], e1) /\ d[2] = upsert_launch_env(d[1], e2)
      /\ d[3] = upsert_launch_env(d[2], e3) /\ d[4] = upsert_launch_env(d[3], e4)
  <2>1. 1 \in 1..4 /\ 2 \in 1..4 /\ 3 \in 1..4 /\ 4 \in 1..4
    OBVIOUS
  <2>2. 1 - 1 = 0 /\ 2 - 1 = 1 /\ 3 - 1 = 2 /\ 4 - 1 = 3
    OBVIOUS
  <2> QED BY <1>4, <1>5, <2>1, <2>2
<1>8. /\ Upserted(W, d[0], e1, d[1]) /\ Upserted(W, d[1], e2, d[2])
      /\ Upserted(W, d[2], e3, d[3]) /\ Upserted(W, d[3], e4, d[4])
  BY <1>3, <1>6, <1>7, Upsert
<1>9. ASSUME NEW key \in Keys(d[4]) \ OwnKeys
      PROVE  \E i \in DOMAIN r.env : /\ r.env[i].key = key
                                     /\ Applied(d[4])[key] = r.env[i].value
  <2>1. PICK x \in DOMAIN d[4] : d[4][x].key = key /\ Applied(d[4])[key] = d[4][x].value
    BY <1>6, AppliedIsEntry
  <2> DEFINE e == d[4][x]
  <2>2. e # e1 /\ e # e2 /\ e # e3 /\ e # e4
    BY <1>1, <2>1 DEF OwnKeys
  <2>3. Has(d[3], e)
    BY <1>8, <2>2 DEF Upserted
  <2> HIDE DEF e
  <2>4. Has(d[2], e)
    BY <1>8, <2>2, <2>3 DEF Has, Upserted
  <2>5. Has(d[1], e)
    BY <1>8, <2>2, <2>4 DEF Has, Upserted
  <2>6. Has(d[0], e)
    BY <1>8, <2>2, <2>5 DEF Has, Upserted
  <2> QED BY <1>5, <2>1, <2>6 DEF Has, e
<1>10. ASSUME Unique(r.env)
       PROVE  /\ Unique(d[4]) /\ Has(d[4], e1) /\ Has(d[4], e2)
              /\ Has(d[4], e3) /\ Has(d[4], e4)
  <2>1. Unique(d[1]) /\ Has(d[1], e1)
    BY <1>5, <1>8, <1>10 DEF Upserted
  <2>2. Unique(d[2]) /\ Has(d[2], e2) /\ Has(d[2], e1)
    BY <1>1, <1>3, <1>8, <2>1 DEF Upserted
  <2>3. Unique(d[3]) /\ Has(d[3], e3) /\ Has(d[3], e2) /\ Has(d[3], e1)
    BY <1>1, <1>3, <1>8, <2>2 DEF Upserted
  <2> QED BY <1>1, <1>3, <1>8, <2>3 DEF Upserted
<1>11. ASSUME Unique(r.env)
       PROVE  /\ Applied(d[4])[e1.key] = e1.value /\ Applied(d[4])[e2.key] = e2.value
              /\ Applied(d[4])[e3.key] = e3.value /\ Applied(d[4])[e4.key] = e4.value
  BY <1>6, <1>10, <1>11, AppliedUnique
<1> QED BY <1>1, <1>2, <1>5, <1>9, <1>11

-----------------------------------------------------------------------------
(* The mount plan.                                                         *)

\* What the scan has found among the first n mounts.
Found(cwd, mounts, n, selected) ==
  LET covers == {i \in 1..n : host_path_covers(mounts[i].source, cwd)} IN
  /\ ~selected.tie =>
       \/ selected.at = 0 /\ covers = {}
       \/ /\ selected.at \in covers
          /\ \A j \in covers :
               j # selected.at => Len(mounts[j].source) < Len(mounts[selected.at].source)
  /\ selected.tie <=>
       \E i, j \in covers :
         /\ i < j /\ Len(mounts[i].source) = Len(mounts[j].source)
         /\ \A k \in covers : k < j => Len(mounts[k].source) <= Len(mounts[i].source)

\* The scan selects the longest of the mounts over the cwd, or finds two alike.
LEMMA CoverScan ==
  ASSUME NEW cwd, NEW mounts, NEW n \in Nat, DOMAIN mounts = 1..n, Len(mounts) = n,
         \A i \in 1..n : Len(mounts[i].source) \in Nat
  PROVE  /\ select_cwd_cover(cwd, mounts) \in [at : 0..n, tie : BOOLEAN]
         /\ Found(cwd, mounts, n, select_cwd_cover(cwd, mounts))
<1> DEFINE S == [at : 0..n, tie : BOOLEAN]
           length(i) == IF i = 0 THEN 0 ELSE Len(mounts[i].source) + 1
           Step(i, selected) ==
             IF selected.tie \/ ~host_path_covers(mounts[i].source, cwd)
                \/ length(i) < length(selected.at)
             THEN selected
             ELSE IF length(i) = length(selected.at) THEN [selected EXCEPT !.tie = TRUE]
             ELSE [selected EXCEPT !.at = i]
           start == [at |-> 0, tie |-> FALSE]
           Loop(f) == f = [i \in 0..n |-> IF i = 0 THEN start ELSE Step(i, f[i - 1])]
           step == [i \in 1..n |-> [s \in S |-> Step(i, s)]]
<1>1. ASSUME NEW i \in 1..n, NEW s \in S PROVE Step(i, s) \in S
  <2>1. [s EXCEPT !.tie = TRUE] \in S
    OBVIOUS
  <2>2. [s EXCEPT !.at = i] \in S
    OBVIOUS
  <2> HIDE DEF S, length
  <2> QED BY <2>1, <2>2
<1>2. select_cwd_cover(cwd, mounts) = (CHOOSE f : Loop(f))[n]
  BY DEF select_cwd_cover
<1>3. start \in S
  OBVIOUS
<1>4. ASSUME NEW i \in 1..n, NEW s \in S, Found(cwd, mounts, i - 1, s)
      PROVE  Found(cwd, mounts, i, Step(i, s))
  <2> DEFINE Over(k) == host_path_covers(mounts[k].source, cwd)
             size(k) == Len(mounts[k].source)
  <2>1. \A k \in 1..i : k \in 1..(i - 1) \/ k = i
    OBVIOUS
  <2>2. \A k \in 1..(i - 1) : k \in 1..i /\ k # i
    OBVIOUS
  <2>3. \A k \in 1..i : size(k) \in Nat
    OBVIOUS
  <2>4. s.at \in 0..n /\ s.tie \in BOOLEAN
    OBVIOUS
  <2> DEFINE Tie(l, j) == /\ Over(l) /\ Over(j) /\ l < j /\ size(l) = size(j)
                          /\ \A k \in 1..(j - 1) : Over(k) => size(k) <= size(l)
  <2>5. ASSUME NEW m \in Nat, m <= i, NEW r,
               \/ r.tie /\ (\E l, j \in 1..m : Tie(l, j))
               \/ /\ ~r.tie /\ ~\E l, j \in 1..m : Tie(l, j)
                  /\ \/ r.at = 0 /\ \A k \in 1..m : ~Over(k)
                     \/ /\ r.at \in 1..m /\ Over(r.at)
                        /\ \A j \in 1..m : Over(j) /\ j # r.at => size(j) < size(r.at)
        PROVE  Found(cwd, mounts, m, r)
    <3>1. \A l, j \in 1..m :
            (Tie(l, j) <=> /\ Over(l) /\ Over(j) /\ l < j /\ size(l) = size(j)
                           /\ \A k \in 1..m : Over(k) /\ k < j => size(k) <= size(l))
      OBVIOUS
    <3> HIDE DEF Tie, Over, size
    <3> QED BY <2>5, <3>1 DEF Found, Over, size
  <2>6. \/ s.tie /\ (\E l, j \in 1..(i - 1) : Tie(l, j))
        \/ /\ ~s.tie /\ ~\E l, j \in 1..(i - 1) : Tie(l, j)
           /\ \/ s.at = 0 /\ \A k \in 1..(i - 1) : ~Over(k)
              \/ /\ s.at \in 1..(i - 1) /\ Over(s.at)
                 /\ \A j \in 1..(i - 1) : Over(j) /\ j # s.at => size(j) < size(s.at)
    BY <1>4, <2>4 DEF Found
  <2>7. ASSUME NEW l \in 1..i, NEW j \in 1..i, Tie(l, j), ~Over(i) \/ j # i
        PROVE  l \in 1..(i - 1) /\ j \in 1..(i - 1)
    BY <2>1, <2>7
  <2>8. CASE s.tie
    <3>1. Step(i, s) = s
      BY <2>8
    <3>2. \E l, j \in 1..i : Tie(l, j)
      BY <2>2, <2>6, <2>8
    <3> HIDE DEF Tie, Over, size, Step
    <3> QED BY <2>5, <2>8, <3>1, <3>2
  <2>9. CASE ~s.tie /\ ~Over(i)
    <3>1. Step(i, s) = s
      BY <2>9
    <3>2. ~\E l, j \in 1..i : Tie(l, j)
      BY <2>6, <2>7, <2>9
    <3> HIDE DEF Tie, Over, size, Step
    <3> QED BY <2>1, <2>2, <2>5, <2>6, <2>9, <3>1, <3>2
  <2>10. CASE ~s.tie /\ Over(i) /\ s.at = 0
    <3>1. Step(i, s) = [s EXCEPT !.at = i]
      BY <2>3, <2>10
    <3>2. Step(i, s).at = i /\ ~Step(i, s).tie
      BY <2>10, <3>1
    <3>3. \A k \in 1..(i - 1) : ~Over(k)
      BY <2>6, <2>10
    <3>4. ~\E l, j \in 1..i : Tie(l, j)
      BY <2>1, <3>3
    <3> HIDE DEF Tie, Over, size, Step
    <3> QED BY <2>1, <2>5, <2>10, <3>2, <3>3, <3>4
  <2>11. CASE ~s.tie /\ Over(i) /\ s.at # 0
    <3>1. /\ s.at \in 1..(i - 1) /\ Over(s.at)
          /\ \A j \in 1..(i - 1) : Over(j) /\ j # s.at => size(j) < size(s.at)
          /\ ~\E l, j \in 1..(i - 1) : Tie(l, j)
      BY <2>6, <2>11
    <3>2. length(i) = size(i) + 1 /\ length(s.at) = size(s.at) + 1
      BY <2>11
    <3>3. CASE size(i) < size(s.at)
      <4>1. Step(i, s) = s
        BY <2>2, <2>3, <3>1, <3>2, <3>3
      <4>2. ASSUME NEW l \in 1..i, Tie(l, i) PROVE FALSE
        BY <2>2, <2>3, <3>1, <3>3, <4>2
      <4>3. ~\E l, j \in 1..i : Tie(l, j)
        BY <2>7, <3>1, <4>2
      <4> HIDE DEF Tie, Over, size, Step
      <4> QED BY <2>1, <2>2, <2>5, <2>11, <3>1, <3>3, <4>1, <4>3
    <3>4. CASE size(i) = size(s.at)
      <4>1. Step(i, s) = [s EXCEPT !.tie = TRUE]
        BY <2>2, <2>3, <2>11, <3>1, <3>2, <3>4
      <4>2. Step(i, s).tie
        BY <4>1
      <4>3. Tie(s.at, i)
        BY <2>2, <2>3, <2>11, <3>1, <3>4
      <4> HIDE DEF Tie, Over, size, Step
      <4> QED BY <2>2, <2>5, <3>1, <4>2, <4>3
    <3>5. CASE size(s.at) < size(i)
      <4>1. Step(i, s) = [s EXCEPT !.at = i]
        BY <2>2, <2>3, <2>11, <3>1, <3>2, <3>5
      <4>2. Step(i, s).at = i /\ ~Step(i, s).tie
        BY <2>11, <4>1
      <4>3. \A j \in 1..i : Over(j) /\ j # i => size(j) < size(i)
        <5>1. ASSUME NEW j \in 1..i, Over(j), j # i PROVE size(j) < size(i)
          <6>1. j \in 1..(i - 1) /\ size(j) \in Nat /\ size(i) \in Nat /\ size(s.at) \in Nat
            BY <2>1, <2>2, <2>3, <3>1, <5>1
          <6>2. size(j) <= size(s.at)
            BY <3>1, <5>1, <6>1
          <6> QED BY <3>5, <6>1, <6>2
        <5> QED BY <5>1
      <4>4. ASSUME NEW l \in 1..i, Tie(l, i) PROVE FALSE
        BY <2>2, <2>3, <4>3, <4>4
      <4>5. ~\E l, j \in 1..i : Tie(l, j)
        BY <2>7, <3>1, <4>4
      <4> HIDE DEF Tie, Over, size, Step
      <4> QED BY <2>5, <2>11, <4>2, <4>3, <4>5
    <3> QED BY <2>2, <2>3, <3>1, <3>3, <3>4, <3>5
  <2> QED BY <2>4, <2>8, <2>9, <2>10, <2>11
<1>5. Found(cwd, mounts, 0, start)
  BY DEF Found
<1> HIDE DEF S, Step, start
<1>6. \E f : Loop(f)
  <2>1. step \in [1..n -> [S -> S]]
    BY <1>1
  <2>2. PICK f : Run(f, n, S, start, step)
    <3> HIDE DEF step
    <3> QED BY <1>3, <2>1, LoopRuns
  <2>3. ASSUME NEW i \in 1..n PROVE f[i] = Step(i, f[i - 1])
    <3>1. f[i - 1] \in S
      BY <2>2 DEF Run
    <3> QED BY <2>2, <3>1 DEF Run
  <2>4. Loop(f)
    BY <2>2, <2>3 DEF Run
  <2> QED BY <2>4
<1>7. PICK f : Loop(f) /\ select_cwd_cover(cwd, mounts) = f[n]
  <2> HIDE DEF Loop
  <2> QED BY <1>2, <1>6
<1>8. f[0] = start /\ \A i \in 1..n : f[i] = Step(i, f[i - 1])
  BY <1>7
<1> HIDE DEF Loop
<1> DEFINE T == {i \in 0..n : f[i] \in S /\ Found(cwd, mounts, i, f[i])}
<1>9. 0 \in T
  BY <1>3, <1>5, <1>8
<1>10. \A i \in 1..n : i - 1 \in T => i \in T
  BY <1>1, <1>4, <1>8
<1> HIDE DEF T
<1>11. n \in T
  <2>1. n \in 0..n
    OBVIOUS
  <2> QED BY <1>9, <1>10, <2>1, LoopInduction
<1> QED BY <1>7, <1>11 DEF T, S

\* The plan mounts the cwd itself only if no mount's target overlaps it.
LEMMA AutoMountIsApart ==
  ASSUME NEW cwd, NEW mounts, plan_cwd_mount(cwd, mounts).auto_mount_cwd
  PROVE  \A i \in DOMAIN mounts :
           ~container_paths_overlap(cwd, normalize_container_path(mounts[i].target))
<1> DEFINE planned == [i \in DOMAIN mounts |-> DockerMount(mounts[i])]
<1>1. validate_cwd_mount_plan(cwd, planned).auto_mount_cwd
  BY DEF plan_cwd_mount, Rejected
<1>2. ~reject_cwd_target_overlaps(cwd, planned)
  BY <1>1 DEF validate_cwd_mount_plan, Rejected
<1> QED BY <1>2 DEF reject_cwd_target_overlaps, DockerMount

Whole(binds, cwd) ==
  \A path \in Files : Covers(cwd, path) => Shown(binds, path) = {path}

\* A bind of the cwd at its own path, among binds apart from it, is whole.
LEMMA ApartIsWhole ==
  ASSUME NEW cwd \in Files, NEW others,
         \A b \in others : /\ b.target \in Seq(STRING)
                           /\ ~container_paths_overlap(cwd, b.target)
  PROVE  Whole(others \cup {[source |-> cwd, target |-> cwd]}, cwd)
<1> DEFINE auto == [source |-> cwd, target |-> cwd]
           binds == others \cup {auto}
<1> SUFFICES ASSUME NEW path \in Files, Covers(cwd, path)
             PROVE  Shown(binds, path) = {path}
  BY DEF Whole
<1>1. cwd \in Seq(STRING) /\ path \in Seq(STRING)
  BY FilesArePaths
<1>2. \A b \in others : ~container_path_covers(b.target, path)
  BY <1>1, NoCommonPath
<1>3. container_path_covers(auto.target, path)
  BY DEF container_path_covers
<1>4. {b \in binds : /\ container_path_covers(b.target, path)
                     /\ \A c \in binds : container_path_covers(c.target, path)
                                         => Len(c.target) <= Len(b.target)} = {auto}
  <2>1. \A b \in binds : container_path_covers(b.target, path) <=> b = auto
    BY <1>2, <1>3
  <2>2. Len(auto.target) <= Len(auto.target)
    BY <1>1
  <2> QED BY <2>1, <2>2
<1>5. auto.source \o Below(auto.target, path) = path
  BY <1>1, RootAndBelow
<1> QED BY <1>4, <1>5 DEF Shown

-----------------------------------------------------------------------------

\* The mounts keep the targets the caller wrote; docker's cwd exists; a launch
\* that mounts the cwd shows all of it.
MountInv ==
  /\ call \in Calls
  /\ \A i \in DOMAIN request.mounts :
       i \in DOMAIN call.mounts /\ request.mounts[i].target = call.mounts[i].target
  /\ pc = "idle" => request.isolation = "host"
  /\ pc \notin {"idle", "check", "done"} /\ request.isolation = "docker" => request.cwd \in Files
  /\ launch.auto_mount_cwd => pc \in {"run", "done"} /\ Whole(launch.binds, request.cwd)
  /\ InContainer => pc = "done" /\ started.binds = launch.binds

\* What the shim's command may have started.
LEMMA StartedBy ==
  ASSUME runtime_command
  PROVE  \/ started' = started
         \/ started'.kind = "process" /\ started'.env = launch.env
         \/ /\ request.isolation = "docker" /\ started'.kind = "container"
            /\ started'.env = launch.env /\ started'.binds = launch.binds
            /\ started'.workdir = launch.workdir
            /\ local.here /\ started'.root =>
                 image_user_is_root(local.user) \/ local.user = "alias"
<1>1. CASE started' = started
  BY <1>1
<1>2. CASE started' = [Nothing EXCEPT !.kind = "process", !.env = launch.env,
                                      !.workdir = launch.cwd]
  BY <1>2 DEF Nothing
<1>3. ASSUME NEW root \in BOOLEAN, request.isolation = "docker",
             local.here => root = (local.user \in {"none", "root", "alias"}),
             started' = [kind |-> "container", env |-> launch.env, binds |-> launch.binds,
                         workdir |-> launch.workdir, root |-> root]
      PROVE  /\ started'.kind = "container" /\ started'.env = launch.env
             /\ started'.binds = launch.binds /\ started'.workdir = launch.workdir
             /\ local.here /\ started'.root =>
                  image_user_is_root(local.user) \/ local.user = "alias"
  BY <1>3 DEF image_user_is_root
<1> QED BY <1>1, <1>2, <1>3 DEF runtime_command

LEMMA MountInit == Init => MountInv
<1> SUFFICES ASSUME Init PROVE MountInv
  OBVIOUS
<1>1. DOMAIN request.mounts = {} /\ request.isolation = "host"
  <2>1. request.mounts = <<>> /\ request.isolation = "host"
    BY DEF Init, NoRequest
  <2> QED BY <2>1
<1>2. ~launch.auto_mount_cwd
  BY DEF Init, NoLaunch
<1>3. ~InContainer
  BY DEF Init, Nothing, InContainer
<1> QED BY <1>1, <1>2, <1>3 DEF Init, MountInv

LEMMA MountNext == MountInv /\ [Next]_vars => MountInv'
<1> SUFFICES ASSUME MountInv, [Next]_vars PROVE MountInv'
  OBVIOUS
<1> USE DEF MountInv, Go, Answer, image, InContainer
<1>1. CASE cli_spawn
  <2> USE <1>1 DEF cli_spawn
  <2>1. CASE request' = request
    BY <2>1
  <2>2. CASE request' # request
    <3>1. pc' = "check"
      BY <2>2
    <3>2. request'.mounts = [i \in DOMAIN call.mounts |-> MountSpec(call.mounts[i])]
      BY <2>2
    <3> QED BY <3>1, <3>2 DEF MountSpec
  <2> QED BY <2>1, <2>2
<1>2. CASE rpc_spawn
  <2>1. request'.mounts = [i \in DOMAIN call.mounts |-> WireMount(call.mounts[i])]
    BY <1>2 DEF rpc_spawn, NoRequest
  <2> QED BY <1>2, <2>1 DEF rpc_spawn, WireMount
<1>3. CASE check_isolation_policy
  <2> USE <1>3 DEF check_isolation_policy
  <2>1. CASE request' = request /\ (pc' = "done" \/ request.isolation = "host")
    BY <2>1
  <2>2. CASE /\ request' = canonical_request /\ can_canonicalize_request
             /\ pc' \in {"available", "done"}
    <3>1. request' = canonical_request /\ can_canonicalize_request
      BY <2>2
    <3>2. request'.cwd \in Files
      BY <3>1 DEF canonical_request, can_canonicalize_request, can_canonicalize
    <3>3. /\ DOMAIN request'.mounts = DOMAIN request.mounts
          /\ \A i \in DOMAIN request.mounts :
               request'.mounts[i].target = request.mounts[i].target
      BY <3>1 DEF canonical_request, canonicalize_request_mounts
    <3> QED BY <2>2, <3>2, <3>3
  <2> QED BY <2>1, <2>2
<1>4. CASE ensure_available
  BY <1>4 DEF ensure_available
<1>5. CASE image_user
  BY <1>5 DEF image_user
<1>6. CASE image_architecture
  BY <1>6 DEF image_architecture
<1>7. CASE arm64_manifest_available
  BY <1>7 DEF arm64_manifest_available
<1>8. CASE image_changes
  BY <1>8 DEF image_changes
<1>9. CASE prepare_launch
  <2> USE <1>9 DEF prepare_launch
  <2>1. CASE request.isolation # "docker" \/ launch' = launch
    BY <2>1 DEF NoLaunch
  <2>2. CASE request.isolation = "docker" /\ launch' # launch
    <3>1. launch' = docker_run_launch(request, runtime_env(request)) /\ pc' = "run"
      BY <2>2
    <3> DEFINE declared == docker_mounts(request.mounts)
               others == {bind_mount_arg(request.mounts[i]) : i \in DOMAIN request.mounts}
    <3>2. ASSUME launch'.auto_mount_cwd
          PROVE  Whole(launch'.binds, request.cwd)
      <4>1. plan_cwd_mount(request.cwd, declared).auto_mount_cwd
        BY <3>1, <3>2 DEF docker_run_launch
      <4>2. launch'.binds = others \cup {[source |-> request.cwd, target |-> request.cwd]}
        BY <3>1, <4>1 DEF docker_run_launch
      <4>3. \A i \in DOMAIN request.mounts :
              ~container_paths_overlap(request.cwd,
                                       normalize_container_path(request.mounts[i].target))
        BY <4>1, AutoMountIsApart DEF docker_mounts
      <4>4. \A i \in DOMAIN request.mounts :
              normalize_container_path(request.mounts[i].target) \in Seq(STRING)
        <5>1. \A i \in DOMAIN request.mounts :
                request.mounts[i].target.parts \in Seq(STRING)
          <6>1. \A i \in DOMAIN call.mounts : call.mounts[i] \in MountArg
            BY CallsAreTyped
          <6>2. \A a \in MountArg : a.target.parts \in Seq(STRING)
            BY DEF MountArg, WrittenPath
          <6> QED BY <6>1, <6>2
        <5> QED BY <5>1, NormalizeIsPath
      <4>5. \A b \in others : /\ b.target \in Seq(STRING)
                              /\ ~container_paths_overlap(request.cwd, b.target)
        BY <4>3, <4>4 DEF bind_mount_arg
      <4>6. request.cwd \in Files
        BY <2>2
      <4> HIDE DEF others
      <4>7. Whole(others \cup {[source |-> request.cwd, target |-> request.cwd]}, request.cwd)
        BY <4>5, <4>6, ApartIsWhole
      <4> QED BY <4>2, <4>7
    <3> QED BY <2>2, <3>1, <3>2
  <2> QED BY <2>1, <2>2
<1>10. CASE runtime_command
  BY <1>10, StartedBy DEF runtime_command
<1>11. CASE answered \/ UNCHANGED vars
  BY <1>11 DEF answered, vars, Whole
<1> QED BY <1>1, <1>2, <1>3, <1>4, <1>5, <1>6, <1>7, <1>8, <1>9, <1>10, <1>11 DEF Next

\* Whatever a caller mounts, and however it writes the targets, a cwd that the
\* daemon mounts at its own path is not hidden in any part.
THEOREM AutoMountIsWholeHolds == Spec => []AutoMountIsWhole
<1>1. MountInv => AutoMountIsWhole
  BY DEF MountInv, AutoMountIsWhole, Whole
<1> QED BY <1>1, MountInit, MountNext, PTL DEF Spec

-----------------------------------------------------------------------------

\* After the image's user was read, an image that has not changed is not root
\* unless root is allowed.
RootInv ==
  /\ pc \in {"arch", "manifest", "launch", "run"} /\ request.isolation = "docker" =>
       \/ docker_root_allowed(request) \/ moved
       \/ local.here /\ ~image_user_is_root(local.user)
  /\ RootIsAllowed
  /\ InContainer => pc = "done"

LEMMA RootNext == RootInv /\ [Next]_vars => RootInv'
<1> SUFFICES ASSUME RootInv, [Next]_vars PROVE RootInv'
  OBVIOUS
<1> USE DEF RootInv, Go, Answer, image, InContainer, RootIsAllowed
<1>1. CASE cli_spawn
  BY <1>1 DEF cli_spawn
<1>2. CASE rpc_spawn
  BY <1>2 DEF rpc_spawn
<1>3. CASE check_isolation_policy
  BY <1>3 DEF check_isolation_policy
<1>4. CASE ensure_available
  BY <1>4 DEF ensure_available
<1>5. CASE image_user
  BY <1>5 DEF image_user
<1>6. CASE image_architecture
  BY <1>6 DEF image_architecture
<1>7. CASE arm64_manifest_available
  BY <1>7 DEF arm64_manifest_available
<1>8. CASE image_changes
  BY <1>8 DEF image_changes
<1>9. CASE prepare_launch
  BY <1>9 DEF prepare_launch
<1>10. CASE runtime_command
  <2>1. /\ pc = "run" /\ pc' = "done"
        /\ UNCHANGED <<request, moved, local>>
    BY <1>10 DEF runtime_command
  <2>2. started' # started /\ started'.kind # "process" =>
          /\ request.isolation = "docker"
          /\ local.here /\ started'.root =>
               image_user_is_root(local.user) \/ local.user = "alias"
    BY <1>10, StartedBy
  <2>3. InContainer' /\ started'.root =>
          docker_root_allowed(request) \/ moved \/ local.user = "alias"
    BY <2>1, <2>2
  <2> QED BY <2>1, <2>3
<1>11. CASE answered \/ UNCHANGED vars
  BY <1>11 DEF answered, vars, docker_root_allowed
<1> QED BY <1>1, <1>2, <1>3, <1>4, <1>5, <1>6, <1>7, <1>8, <1>9, <1>10, <1>11 DEF Next

\* A container runs as root only with consent, unless its image changed after
\* the preflight read the image's user or hides that its user is root.
THEOREM RootIsAllowedHolds == Spec => []RootIsAllowed
<1>1. Init => RootInv
  BY DEF Init, RootInv, RootIsAllowed, InContainer, Nothing
<1>2. RootInv => RootIsAllowed
  BY DEF RootInv
<1> QED BY <1>1, <1>2, RootNext, PTL DEF Spec

-----------------------------------------------------------------------------
(* From the call to the runtime.                                           *)

SpawnMount == [source : WrittenPath, target : WrittenPath, read_only : BOOLEAN]

\* The request names its session and the runtime, and repeats no key unless the
\* caller does.
Named ==
  /\ request.session_id = "own" /\ request.runtime = call.runtime
  /\ Unique(call.env) => Unique(request.env)

\* What the preflight has found about a docker request.
Checked ==
  /\ request.cwd \in Files /\ request.cwd = Cwd
  /\ \A i \in DOMAIN request.mounts : request.mounts[i].source.parts \in Files
  /\ validate_docker_mounts(request)

\* The launch is made from the request as it stands, and the runtime from it.
LaunchInv ==
  /\ call \in Calls
  /\ request.mounts \in Seq(SpawnMount) /\ request.env \in Seq(Variable)
  /\ pc = "idle" => request = NoRequest
  /\ pc = "check" /\ request.isolation = "docker" => realpath(request.cwd) = Cwd
  /\ pc \notin {"idle", "done"} => Named
  /\ pc \notin {"idle", "check", "done"} /\ request.isolation = "docker" => Checked
  /\ pc = "run" =>
       /\ launch.env = runtime_env(request)
       /\ request.isolation = "docker" => launch = docker_run_launch(request, launch.env)
  /\ started.kind # "nothing" =>
       pc = "done" /\ Named /\ started.env = runtime_env(request)
  /\ InContainer =>
       /\ Checked /\ launch = docker_run_launch(request, started.env)
       /\ started.binds = launch.binds /\ started.workdir = launch.workdir

LEMMA SpawnMounts ==
  ASSUME NEW c \in Calls
  PROVE  /\ [i \in DOMAIN c.mounts |-> MountSpec(c.mounts[i])] \in Seq(SpawnMount)
         /\ [i \in DOMAIN c.mounts |-> WireMount(c.mounts[i])] \in Seq(SpawnMount)
<1>1. c.mounts \in Seq(MountArg)
  BY CallsAreTyped
<1>2. ASSUME NEW a \in MountArg PROVE MountSpec(a) \in SpawnMount /\ WireMount(a) \in SpawnMount
  <2>1. /\ a.source.parts \in Seq(STRING) /\ a.source.absolute \in BOOLEAN
        /\ a.source.below \in Seq(STRING)
    BY DEF MountArg
  <2>2. Home \o a.source.below \in Seq(STRING)
    BY <2>1, FilesArePaths
  <2>3. expand_mount_source(a.source) \in WrittenPath
    BY <2>1, <2>2 DEF expand_mount_source, WrittenPath
  <2>4. a.target \in WrittenPath
    BY DEF MountArg
  <2>5. [absolute |-> a.source.absolute, parts |-> a.source.parts] \in WrittenPath
    BY <2>1 DEF WrittenPath
  <2> QED BY <2>3, <2>4, <2>5 DEF MountSpec, WireMount, SpawnMount
<1>3. DOMAIN c.mounts = 1..Len(c.mounts) /\ Len(c.mounts) \in Nat
  BY <1>1
<1>4. /\ [i \in DOMAIN c.mounts |-> MountSpec(c.mounts[i])] \in [1..Len(c.mounts) -> SpawnMount]
      /\ [i \in DOMAIN c.mounts |-> WireMount(c.mounts[i])] \in [1..Len(c.mounts) -> SpawnMount]
  BY <1>1, <1>2, <1>3
<1> QED BY <1>3, <1>4, SeqDef

LEMMA SpawnEnv ==
  ASSUME NEW c \in Calls, \A i \in DOMAIN c.args : ~parse_fails(c.args[i], c.env)
  PROVE  /\ spawn_env(c.isolation, c.env, c.args) \in Seq(Variable)
         /\ Unique(c.env) => Unique(spawn_env(c.isolation, c.env, c.args))
<1> DEFINE base == IF c.isolation = "host" THEN capture_env_from(c.env) ELSE <<>>
           entries == [i \in DOMAIN c.args |-> parse_spawn_env(c.args[i], c.env)]
           Arg == [key : STRING, explicit : BOOLEAN, value : Value]
<1>1. c.env \in Seq(Variable) /\ c.args \in Seq(Arg)
  BY CallsAreTyped
<1>2. base \in Seq(Variable) /\ (Unique(c.env) => Unique(base))
  <2>1. <<>> \in Seq(Variable) /\ Unique(<<>>)
    BY DEF Unique
  <2> QED BY <1>1, <2>1, Captured
<1>3. DOMAIN c.args = 1..Len(c.args) /\ Len(c.args) \in Nat
  BY <1>1
<1>4. ASSUME NEW i \in DOMAIN c.args
      PROVE  parse_spawn_env(c.args[i], c.env) \in Variable
  <2>1. c.args[i].key \in STRING /\ c.args[i].value \in Value
    <3>1. c.args[i] \in Arg
      <4> HIDE DEF Arg
      <4> QED BY <1>1, <1>3, ElementOfSeq
    <3> QED BY <3>1
  <2>2. CASE c.args[i].explicit
    BY <2>1, <2>2 DEF parse_spawn_env, Entry, Variable
  <2>3. CASE ~c.args[i].explicit
    <3>1. c.args[i].key \in Keys(c.env)
      BY <2>3 DEF parse_fails
    <3>2. PICK k \in DOMAIN c.env : Applied(c.env)[c.args[i].key] = c.env[k].value
      BY <1>1, <3>1, AppliedIsEntry
    <3>3. c.env[k].value \in Value
      <4>1. c.env[k] \in Variable
        BY <1>1
      <4> QED BY <4>1 DEF Variable
    <3> QED BY <2>1, <2>3, <3>2, <3>3 DEF parse_spawn_env, Entry, Variable
  <2> QED BY <2>2, <2>3
<1>5. entries \in Seq(Variable)
  <2>1. entries \in [1..Len(c.args) -> Variable]
    BY <1>3, <1>4
  <2> HIDE DEF entries
  <2> QED BY <1>3, <2>1, SeqDef
<1>6. spawn_env(c.isolation, c.env, c.args) = upsert_all(base, entries)
  BY DEF spawn_env
<1> HIDE DEF base, entries
<1> QED BY <1>2, <1>5, <1>6, UpsertAllUnique

\* A canonical path is its own real path.
LEMMA CanonicalIsReal ==
  ASSUME NEW path \in Files
  PROVE  realpath(path) = path
BY FilesAreCanonical DEF realpath

\* Canonical requests keep the types.
LEMMA CanonicalMounts ==
  ASSUME request.mounts \in Seq(SpawnMount), can_canonicalize_request
  PROVE  /\ canonical_request.mounts \in Seq(SpawnMount)
         /\ \A i \in DOMAIN canonical_request.mounts :
              canonical_request.mounts[i].source.parts \in Files
         /\ canonical_request.cwd = realpath(request.cwd)
         /\ canonical_request.cwd \in Files
         /\ canonical_request.env = request.env
         /\ canonical_request.session_id = request.session_id
         /\ canonical_request.runtime = request.runtime
         /\ canonical_request.isolation = request.isolation
<1> DEFINE cwd == realpath(request.cwd)
           mounts == canonicalize_request_mounts(cwd, request.mounts)
           n == Len(request.mounts)
<1>1. n \in Nat /\ DOMAIN request.mounts = 1..n
  OBVIOUS
<1>2. ASSUME NEW i \in 1..n
      PROVE  mounts[i] \in SpawnMount /\ mounts[i].source.parts \in Files
  <2>1. request.mounts[i] \in SpawnMount
    OBVIOUS
  <2>2. canonicalize_mount_source(cwd, request.mounts[i].source) \in Files
    BY <1>1 DEF can_canonicalize_request, can_canonicalize, canonicalize_mount_source
  <2>3. [absolute |-> TRUE,
         parts |-> canonicalize_mount_source(cwd, request.mounts[i].source)] \in WrittenPath
    BY <2>2, FilesArePaths DEF WrittenPath
  <2>4. mounts[i] = [request.mounts[i] EXCEPT !.source =
                       [absolute |-> TRUE,
                        parts |-> canonicalize_mount_source(cwd, request.mounts[i].source)]]
    BY <1>1 DEF canonicalize_request_mounts
  <2> DEFINE source == [absolute |-> TRUE,
                        parts |-> canonicalize_mount_source(cwd, request.mounts[i].source)]
  <2>5. source.parts \in Files
    BY <2>2
  <2> HIDE DEF source, mounts
  <2>6. mounts[i].source = source /\ mounts[i] \in SpawnMount
    BY <2>1, <2>3, <2>4 DEF SpawnMount, source
  <2> QED BY <2>5, <2>6
<1>3. mounts \in Seq(SpawnMount) /\ DOMAIN mounts = 1..n
  <2>1. DOMAIN mounts = 1..n /\ mounts = [i \in 1..n |-> mounts[i]]
    BY <1>1 DEF canonicalize_request_mounts
  <2> HIDE DEF mounts
  <2>2. mounts \in [1..n -> SpawnMount]
    BY <1>2, <2>1
  <2> QED BY <1>1, <2>1, <2>2, SeqDef
<1>4. /\ canonical_request = [request EXCEPT !.cwd = cwd, !.mounts = mounts]
  BY DEF canonical_request
<1>5. cwd \in Files
  BY DEF can_canonicalize_request, can_canonicalize
<1> QED BY <1>2, <1>3, <1>4, <1>5

LEMMA LaunchInit == Init => LaunchInv
<1> SUFFICES ASSUME Init PROVE LaunchInv
  OBVIOUS
<1>1. request = NoRequest /\ pc = "idle" /\ call \in Calls
  BY DEF Init
<1>2. request.mounts = <<>> /\ request.env = <<>>
  BY <1>1 DEF NoRequest
<1>3. request.mounts \in Seq(SpawnMount) /\ request.env \in Seq(Variable)
  BY <1>2
<1>4. started.kind = "nothing"
  BY DEF Init, Nothing
<1> QED BY <1>1, <1>3, <1>4 DEF LaunchInv, InContainer

\* Steps that leave the request, the launch and the runtime alone.
LEMMA LaunchKept ==
  ASSUME LaunchInv, UNCHANGED <<call, request, launch, started>>,
         \/ pc' = pc
         \/ pc \notin {"idle", "check", "run", "done"} /\ pc' \notin {"idle", "check", "run"}
         \/ pc' = "done" /\ started.kind = "nothing"
         \/ pc = "check" /\ pc' = "launch" /\ request.isolation # "docker"
  PROVE  LaunchInv'
<1>1. /\ Cwd' = Cwd /\ Named' = Named /\ Checked' = Checked /\ InContainer' = InContainer
      /\ realpath(request.cwd)' = realpath(request.cwd)
      /\ runtime_env(request)' = runtime_env(request)
  BY DEF Cwd, Named, Checked, InContainer, Unique
<1>2. /\ docker_run_launch(request, launch.env)' = docker_run_launch(request, launch.env)
      /\ docker_run_launch(request, started.env)' = docker_run_launch(request, started.env)
  OBVIOUS
<1> QED BY <1>1, <1>2 DEF LaunchInv, InContainer

LEMMA LaunchNext == LaunchInv /\ [Next]_vars => LaunchInv'
<1> SUFFICES ASSUME LaunchInv, [Next]_vars PROVE LaunchInv'
  OBVIOUS
<1> USE DEF Go, Answer, image
<1>1. pc # "done" => started.kind = "nothing"
  BY DEF LaunchInv
<1>2. CASE cli_spawn
  <2>1. UNCHANGED <<call, launch, started>> /\ pc = "idle" /\ call \in Calls
    BY <1>2 DEF cli_spawn, LaunchInv
  <2>2. CASE pc' = "done" /\ request' = request
    BY <1>1, <2>1, <2>2, LaunchKept
  <2>3. CASE ~(pc' = "done" /\ request' = request)
    <3>1. /\ pc' = "check"
          /\ \A i \in DOMAIN call.args : ~parse_fails(call.args[i], call.env)
          /\ ~spawn_cwd_fails
      BY <1>2, <2>3 DEF cli_spawn
    <3>2. /\ request'.session_id = "own" /\ request'.runtime = call.runtime
          /\ request'.env = spawn_env(call.isolation, call.env, call.args)
          /\ request'.mounts = [i \in DOMAIN call.mounts |-> MountSpec(call.mounts[i])]
          /\ request'.cwd = spawn_cwd
      BY <1>2, <2>3 DEF cli_spawn
    <3>3. request'.mounts \in Seq(SpawnMount)
      BY <2>1, <3>2, SpawnMounts
    <3>4. request'.env \in Seq(Variable) /\ (Unique(call.env) => Unique(request'.env))
      BY <2>1, <3>1, <3>2, SpawnEnv
    <3>5. realpath(request'.cwd) = Cwd
      <4>1. CASE call.cwd_given
        <5>1. spawn_cwd \in Files /\ spawn_cwd = Cwd
          BY <1>2, <3>1, <4>1, DirsExist DEF spawn_cwd, spawn_cwd_fails, Cwd, cli_spawn
        <5> QED BY <3>2, <5>1, CanonicalIsReal
      <4>2. CASE ~call.cwd_given
        BY <3>2, <4>2 DEF spawn_cwd, Cwd
      <4> QED BY <4>1, <4>2
    <3>6. Named' /\ Cwd' = Cwd /\ ~InContainer' /\ started'.kind = "nothing"
      BY <1>1, <2>1, <3>2, <3>4 DEF Named, Cwd, InContainer, Unique
    <3> QED BY <2>1, <3>1, <3>3, <3>4, <3>5, <3>6 DEF LaunchInv
  <2> QED BY <2>2, <2>3
<1>3. CASE rpc_spawn
  <2>1. /\ UNCHANGED <<call, launch, started>> /\ pc = "idle" /\ pc' = "check"
        /\ call \in Calls /\ call.via = "rpc"
    BY <1>3 DEF rpc_spawn, LaunchInv
  <2>2. /\ request'.session_id = "own" /\ request'.runtime = call.runtime
        /\ request'.env = call.env
        /\ request'.mounts = [i \in DOMAIN call.mounts |-> WireMount(call.mounts[i])]
        /\ request'.isolation = "docker" => request'.cwd = join(DaemonCwd, call.cwd)
    BY <1>3 DEF rpc_spawn, NoRequest
  <2>3. request'.mounts \in Seq(SpawnMount) /\ request'.env \in Seq(Variable)
    BY <2>1, <2>2, SpawnMounts, CallsAreTyped
  <2>4. request'.isolation = "docker" => realpath(request'.cwd) = Cwd
    BY <2>1, <2>2, RpcGivesCwd DEF Cwd
  <2>5. Named' /\ Cwd' = Cwd /\ ~InContainer' /\ started'.kind = "nothing"
    BY <1>1, <2>1, <2>2 DEF Named, Cwd, InContainer, Unique
  <2> QED BY <2>1, <2>3, <2>4, <2>5 DEF LaunchInv
<1>4. CASE check_isolation_policy
  <2>1. UNCHANGED <<call, launch, started>> /\ pc = "check" /\ started.kind = "nothing"
    BY <1>1, <1>4 DEF check_isolation_policy
  <2>2. CASE request' = request /\ (pc' = "done" \/ (pc' = "launch" /\ request.isolation = "host"))
    BY <2>1, <2>2, LaunchKept
  <2>3. CASE /\ request' = canonical_request /\ can_canonicalize_request
             /\ \/ pc' = "available" /\ validate_docker_mounts(canonical_request)
                \/ pc' = "done"
    <3>1. /\ request'.mounts \in Seq(SpawnMount)
          /\ \A i \in DOMAIN request'.mounts : request'.mounts[i].source.parts \in Files
          /\ request'.cwd = realpath(request.cwd) /\ request'.cwd \in Files
          /\ request'.env = request.env
          /\ request'.session_id = request.session_id /\ request'.runtime = request.runtime
      <4>1. request.mounts \in Seq(SpawnMount)
        BY DEF LaunchInv
      <4> QED BY <2>3, <4>1, CanonicalMounts
    <3>2. Named /\ request.env \in Seq(Variable)
      BY <2>1 DEF LaunchInv
    <3>3. Named' /\ Cwd' = Cwd /\ ~InContainer' /\ started'.kind = "nothing"
      BY <2>1, <3>1, <3>2 DEF Named, Cwd, InContainer, Unique
    <3>4. pc' = "available" /\ request'.isolation = "docker" => Checked'
      <4>1. request'.isolation = request.isolation
        BY <2>3 DEF canonical_request
      <4>2. request.isolation = "docker" => realpath(request.cwd) = Cwd
        BY <2>1 DEF LaunchInv
      <4> QED BY <2>3, <3>1, <3>2, <3>3, <4>1, <4>2 DEF Checked
    <3> QED BY <2>1, <2>3, <3>1, <3>2, <3>3, <3>4 DEF LaunchInv
  <2> QED BY <1>4, <2>2, <2>3 DEF check_isolation_policy
<1>5. CASE ensure_available
  BY <1>5, LaunchKept DEF ensure_available
<1>6. CASE image_user
  BY <1>6, LaunchKept DEF image_user
<1>7. CASE image_architecture
  BY <1>7, LaunchKept DEF image_architecture
<1>8. CASE arm64_manifest_available
  BY <1>8, LaunchKept DEF arm64_manifest_available
<1>9. CASE image_changes
  BY <1>9, LaunchKept DEF image_changes
<1>10. CASE prepare_launch
  <2>1. UNCHANGED <<call, request, started>> /\ pc = "launch" /\ started.kind = "nothing"
    BY <1>1, <1>10 DEF prepare_launch
  <2>2. CASE pc' = "done" /\ launch' = launch
    BY <2>1, <2>2, LaunchKept
  <2>3. CASE ~(pc' = "done" /\ launch' = launch)
    <3>1. /\ pc' = "run"
          /\ launch' = IF request.isolation = "docker"
                       THEN docker_run_launch(request, runtime_env(request))
                       ELSE [NoLaunch EXCEPT !.env = runtime_env(request),
                               !.cwd = request.cwd, !.shell_resume = request.shell_resume]
      BY <1>10, <2>3 DEF prepare_launch
    <3>2. /\ launch'.env = runtime_env(request)
          /\ request.isolation = "docker" => launch' = docker_run_launch(request, launch'.env)
      BY <3>1 DEF docker_run_launch, NoLaunch
    <3>3. /\ Cwd' = Cwd /\ Named' = Named /\ Checked' = Checked /\ ~InContainer'
          /\ started'.kind = "nothing"
      BY <2>1 DEF Cwd, Named, Checked, InContainer, Unique
    <3> QED BY <2>1, <3>1, <3>2, <3>3 DEF LaunchInv
  <2> QED BY <2>2, <2>3
<1>11. CASE runtime_command
  <2>1. UNCHANGED <<call, request, launch>> /\ pc = "run" /\ pc' = "done"
    BY <1>11 DEF runtime_command
  <2>2. /\ Named /\ launch.env = runtime_env(request)
        /\ request.isolation = "docker" =>
             Checked /\ launch = docker_run_launch(request, launch.env)
    BY <2>1 DEF LaunchInv
  <2>3. Cwd' = Cwd /\ Named' = Named /\ Checked' = Checked
    BY <2>1 DEF Cwd, Named, Checked, Unique
  <2>4. CASE started' = started
    BY <1>1, <2>1, <2>4, LaunchKept
  <2>5. CASE started'.kind = "process" /\ started'.env = launch.env
    <3>1. ~InContainer'
      BY <2>5 DEF InContainer
    <3> QED BY <2>1, <2>2, <2>3, <2>5, <3>1 DEF LaunchInv
  <2>6. CASE /\ request.isolation = "docker" /\ started'.kind = "container"
             /\ started'.env = launch.env /\ started'.binds = launch.binds
             /\ started'.workdir = launch.workdir
    BY <2>1, <2>2, <2>3, <2>6 DEF LaunchInv
  <2> QED BY <1>11, <2>4, <2>5, <2>6, StartedBy
<1>12. CASE answered \/ UNCHANGED vars
  BY <1>12, LaunchKept DEF answered, vars
<1> QED BY <1>2, <1>3, <1>4, <1>5, <1>6, <1>7, <1>8, <1>9, <1>10, <1>11, <1>12 DEF Next

\* The invariant of the call.
LEMMA LaunchAlways == Spec => []LaunchInv
BY LaunchInit, LaunchNext, PTL DEF Spec

-----------------------------------------------------------------------------

\* A runtime learns its own session and its own kind, whatever environment the
\* caller has or asks for, in every call that repeats no key.
THEOREM RuntimeIsTold == Spec => []RuntimeKnowsItself
<1>1. LaunchInv => RuntimeKnowsItself
  <2> SUFFICES ASSUME LaunchInv, started.kind # "nothing", Unique(call.env)
               PROVE  /\ \A key \in {"HELIOY_SESSION_ID", "RTM_SESSION_ID"} :
                           Applied(started.env)[key] = Text("own")
                      /\ \A key \in {"HELIOY_RUNTIME", "RTM_RUNTIME_KIND"} :
                           Applied(started.env)[key] = Text(call.runtime)
    BY DEF RuntimeKnowsItself, Unique
  <2>1. Named /\ started.env = runtime_env(request) /\ request.env \in Seq(Variable)
    BY DEF LaunchInv
  <2> QED BY <2>1, RuntimeEnv DEF Named
<1> QED BY <1>1, LaunchAlways, PTL

-----------------------------------------------------------------------------
(* The plan of a request.                                                  *)

\* The mounts of a request as the plan sees them are a sequence of paths.
LEMMA PlannedMounts ==
  ASSUME request.mounts \in Seq(SpawnMount)
  PROVE  /\ Len(request.mounts) \in Nat
         /\ DOMAIN request.mounts = 1..Len(request.mounts)
         /\ DOMAIN Planned = 1..Len(request.mounts) /\ Len(Planned) = Len(request.mounts)
         /\ \A i \in 1..Len(request.mounts) :
              /\ Planned[i].source = request.mounts[i].source.parts
              /\ Planned[i].source \in Seq(STRING)
              /\ Planned[i].target = normalize_container_path(request.mounts[i].target)
              /\ Planned[i].target \in Seq(STRING)
<1> DEFINE n == Len(request.mounts)
<1>1. n \in Nat /\ DOMAIN request.mounts = 1..n
  OBVIOUS
<1>2. DOMAIN Planned = 1..n /\ Len(Planned) = n
  <2>1. Planned = [i \in 1..n |-> DockerMount(docker_mounts(request.mounts)[i])]
    BY <1>1 DEF Planned
  <2> DEFINE R == {DockerMount(docker_mounts(request.mounts)[i]) : i \in 1..n}
  <2>2. Planned \in [1..n -> R]
    BY <2>1
  <2>3. Planned \in Seq(R)
    <3> HIDE DEF R, n
    <3> QED BY <1>1, <2>2, SeqDef
  <2> QED BY <1>1, <2>2, <2>3
<1>3. ASSUME NEW i \in 1..n
      PROVE  /\ Planned[i].source = request.mounts[i].source.parts
             /\ Planned[i].source \in Seq(STRING)
             /\ Planned[i].target = normalize_container_path(request.mounts[i].target)
             /\ Planned[i].target \in Seq(STRING)
  <2>1. request.mounts[i] \in SpawnMount
    OBVIOUS
  <2>2. /\ request.mounts[i].source.parts \in Seq(STRING)
        /\ request.mounts[i].target.parts \in Seq(STRING)
    BY <2>1 DEF SpawnMount, WrittenPath
  <2>3. /\ Planned[i].source = request.mounts[i].source.parts
        /\ Planned[i].target = normalize_container_path(request.mounts[i].target)
    BY <1>1 DEF Planned, docker_mounts, DockerMount
  <2>4. normalize_container_path(request.mounts[i].target) \in Seq(STRING)
    BY <2>2, NormalizeIsPath
  <2> QED BY <2>2, <2>3, <2>4
<1> QED BY <1>1, <1>2, <1>3

\* The scan for the cover of the cwd selects the one mount with the longest
\* source, and gives up exactly at a mount as long as the longest one before it,
\* for any number of mounts.
THEOREM CoverIsLongestHolds == Spec => []CoverIsLongest
<1>1. LaunchInv => CoverIsLongest
  <2> SUFFICES ASSUME LaunchInv PROVE CoverIsLongest
    OBVIOUS
  <2> DEFINE n == Len(request.mounts)
             covers == {i \in DOMAIN Planned :
                          host_path_covers(Planned[i].source, request.cwd)}
             size(i) == Len(Planned[i].source)
             longest == {i \in covers : \A j \in covers : size(j) <= size(i)}
             found == select_cwd_cover(request.cwd, Planned)
  <2>1. /\ n \in Nat /\ DOMAIN Planned = 1..n /\ Len(Planned) = n
        /\ \A i \in 1..n : size(i) \in Nat
    BY PlannedMounts DEF LaunchInv
  <2>2. found \in [at : 0..n, tie : BOOLEAN] /\ Found(request.cwd, Planned, n, found)
    BY <2>1, CoverScan
  <2> HIDE DEF found, n
  <2>3. covers = {i \in 1..n : host_path_covers(Planned[i].source, request.cwd)}
    BY <2>1
  <2>4. \A i \in covers : i \in 1..n /\ size(i) \in Nat
    BY <2>1
  <2>5. /\ ~found.tie => \/ found.at = 0 /\ covers = {}
                         \/ /\ found.at \in covers
                            /\ \A j \in covers : j # found.at => size(j) < size(found.at)
        /\ found.tie <=> \E i, j \in covers :
                           /\ i < j /\ size(i) = size(j)
                           /\ \A k \in covers : k < j => size(k) <= size(i)
    BY <2>2, <2>3 DEF Found
  <2> HIDE DEF covers, size
  <2>6. ~found.tie => longest = {found.at} \ {0}
    <3>1. CASE ~found.tie /\ covers = {} /\ found.at = 0
      BY <3>1
    <3>2. CASE /\ ~found.tie /\ found.at \in covers
               /\ \A j \in covers : j # found.at => size(j) < size(found.at)
      <4>1. found.at \in longest /\ found.at # 0
        BY <2>1, <2>4, <3>2, SMTT(20)
      <4>2. \A i \in longest : i = found.at
        BY <2>4, <3>2
      <4> QED BY <4>1, <4>2
    <3> QED BY <2>5, <3>1, <3>2
  <2> QED BY <2>5, <2>6 DEF CoverIsLongest, covers, size, found
<1> QED BY <1>1, LaunchAlways, PTL

\* What the preflight has validated, said of the planned mounts.
LEMMA CheckedPlan ==
  ASSUME request.mounts \in Seq(SpawnMount), validate_docker_mounts(request)
  PROVE  /\ \A i, j \in DOMAIN Planned : Planned[i].target = Planned[j].target => i = j
         /\ validate_cwd_mount_plan(request.cwd, Planned).ok
         /\ ~reject_uncovered_path_envs(request.env, Planned)
         /\ plan_cwd_mount(request.cwd, docker_mounts(request.mounts))
              = validate_cwd_mount_plan(request.cwd, Planned)
<1> DEFINE declared == docker_mounts(request.mounts)
           mounts == [i \in DOMAIN declared |-> DockerMount(declared[i])]
<1>1. DOMAIN declared = DOMAIN request.mounts
  BY DEF docker_mounts
<1>2. mounts = Planned
  BY <1>1 DEF Planned
<1>3. /\ \A i \in DOMAIN declared : declared[i].target.absolute
      /\ ~reject_duplicate_mount_targets(mounts)
      /\ validate_cwd_mount_plan(request.cwd, mounts).ok
      /\ ~reject_uncovered_path_envs(request.env, mounts)
  BY DEF validate_docker_mounts
<1>4. plan_cwd_mount(request.cwd, declared) = validate_cwd_mount_plan(request.cwd, mounts)
  BY <1>3 DEF plan_cwd_mount
<1> HIDE DEF mounts
<1> QED BY <1>2, <1>3, <1>4 DEF reject_duplicate_mount_targets

\* Of the binds over a path one is the deepest.
LEMMA CoveredIsShown ==
  ASSUME NEW S, NEW binds, \A b \in binds : b.target \in Seq(STRING), NEW path \in Seq(S),
         \E b \in binds : container_path_covers(b.target, path)
  PROVE  Shown(binds, path) # {}
<1> DEFINE over == {b \in binds : container_path_covers(b.target, path)}
           T == {k \in Nat : \E b \in over : k = Len(path) - Len(b.target)}
<1>1. \A b \in over : /\ Len(b.target) \in Nat /\ Len(path) \in Nat
                      /\ Len(path) - Len(b.target) \in Nat
  BY DEF container_path_covers, Covers
<1>2. T # {}
  <2>1. PICK b \in over : TRUE
    OBVIOUS
  <2>2. Len(path) - Len(b.target) \in T
    BY <1>1
  <2> QED BY <2>2
<1>3. PICK k \in T : \A l \in T : k <= l
  <2>1. T \subseteq Nat
    OBVIOUS
  <2> HIDE DEF T
  <2> QED BY <1>2, <2>1, LeastIndex
<1>4. PICK b \in over : k = Len(path) - Len(b.target)
  OBVIOUS
<1>5. ASSUME NEW c \in over PROVE Len(c.target) <= Len(b.target)
  <2>1. Len(path) - Len(c.target) \in T
    BY <1>1
  <2>2. Len(path) - Len(b.target) <= Len(path) - Len(c.target)
    BY <1>3, <1>4, <2>1
  <2>3. Len(path) \in Nat /\ Len(b.target) \in Nat /\ Len(c.target) \in Nat
    BY <1>1
  <2> HIDE DEF over, T
  <2> QED BY <2>2, <2>3
<1>6. b.source \o Below(b.target, path) \in Shown(binds, path)
  BY <1>4, <1>5 DEF Shown
<1> QED BY <1>6

\* The binds of a container: the planned mounts, and the cwd if it is mounted.
LEMMA ContainerBinds ==
  ASSUME NEW env, request.mounts \in Seq(SpawnMount), request.cwd \in Files
  PROVE  /\ \A b \in docker_run_launch(request, env).binds : b.target \in Seq(STRING)
         /\ \A i \in 1..Len(request.mounts) :
              [source |-> Planned[i].source, target |-> Planned[i].target]
                \in docker_run_launch(request, env).binds
         /\ ~docker_run_launch(request, env).auto_mount_cwd =>
              \A b \in docker_run_launch(request, env).binds :
                \E i \in 1..Len(request.mounts) :
                  b = [source |-> Planned[i].source, target |-> Planned[i].target]
<1> DEFINE n == Len(request.mounts)
           bind(i) == [source |-> Planned[i].source, target |-> Planned[i].target]
           launched == docker_run_launch(request, env)
<1>1. /\ n \in Nat /\ DOMAIN request.mounts = 1..n
      /\ \A i \in 1..n : /\ bind(i) = bind_mount_arg(request.mounts[i])
                         /\ Planned[i].target \in Seq(STRING)
  BY PlannedMounts DEF bind_mount_arg
<1>2. launched.binds = {bind(i) : i \in 1..n}
                       \cup (IF launched.auto_mount_cwd
                             THEN {[source |-> request.cwd, target |-> request.cwd]} ELSE {})
  BY <1>1 DEF docker_run_launch
<1>3. request.cwd \in Seq(STRING)
  BY FilesArePaths
<1> HIDE DEF launched, n
<1>4. ASSUME NEW b \in launched.binds PROVE b.target \in Seq(STRING)
  <2>1. CASE \E i \in 1..n : b = bind(i)
    BY <1>1, <2>1
  <2>2. CASE b = [source |-> request.cwd, target |-> request.cwd]
    BY <1>3, <2>2
  <2> QED BY <1>2, <2>1, <2>2
<1>5. \A i \in 1..n : bind(i) \in launched.binds
  BY <1>2
<1> QED BY <1>2, <1>4, <1>5 DEF launched, n

\* Whatever variables a caller asks for, a path that Claude Code reads from the
\* environment of its container lies below a mount.
THEOREM PathEnvsAreReadable == Spec => []PathEnvsReadable
<1>1. LaunchInv => PathEnvsReadable
  <2> SUFFICES ASSUME LaunchInv, InContainer, NEW key \in Keys(started.env),
                      path_shaped_env(key),
                      NEW v \in DOMAIN path_values(key, Applied(started.env)[key])
               PROVE  LET value == path_values(key, Applied(started.env)[key])[v] IN
                      /\ value.absolute
                      /\ Shown(started.binds, normalize_container_path(value)) # {}
    BY DEF PathEnvsReadable
  <2>1. /\ request.mounts \in Seq(SpawnMount) /\ request.env \in Seq(Variable)
        /\ started.env = runtime_env(request) /\ Checked
        /\ started.binds = docker_run_launch(request, started.env).binds
    BY DEF LaunchInv, InContainer
  <2>2. key \notin OwnKeys
    BY DEF path_shaped_env, OwnKeys, Single, ColonList
  <2>3. PICK i \in DOMAIN request.env :
          request.env[i].key = key /\ Applied(started.env)[key] = request.env[i].value
    <3>1. key \in Keys(runtime_env(request)) \ OwnKeys
      BY <2>1, <2>2
    <3>2. request.env \in Seq(Variable)
      BY <2>1
    <3>3. \E i \in DOMAIN request.env :
            /\ request.env[i].key = key
            /\ Applied(runtime_env(request))[key] = request.env[i].value
      BY <3>1, <3>2, RuntimeEnv
    <3> QED BY <2>1, <3>3
  <2> DEFINE values == path_values(request.env[i].key, request.env[i].value)
             path == normalize_container_path(values[v])
  <2>4. v \in DOMAIN values /\ values = path_values(key, Applied(started.env)[key])
    BY <2>3
  <2>5. values[v].absolute /\ \E m \in DOMAIN Planned :
                                container_path_covers(Planned[m].target, path)
    BY <2>1, <2>3, <2>4, CheckedPlan DEF reject_uncovered_path_envs, Checked
  <2>6. path \in Seq(STRING)
    <3>1. request.env[i] \in Variable
      BY <2>1
    <3>2. /\ request.env[i].value.paths \in Seq(WrittenPath)
          /\ request.env[i].value.path \in WrittenPath
      BY <3>1 DEF Variable, Value
    <3>3. values[v] \in WrittenPath
      <4>1. CASE values = request.env[i].value.paths
        BY <2>4, <3>2, <4>1
      <4>2. CASE values = <<request.env[i].value.path>>
        BY <2>4, <3>2, <4>2
      <4> QED BY <4>1, <4>2 DEF path_values
    <3>4. values[v].parts \in Seq(STRING)
      BY <3>3 DEF WrittenPath
    <3> QED BY <3>4, NormalizeIsPath
  <2> HIDE DEF values, path
  <2>7. /\ \A b \in started.binds : b.target \in Seq(STRING)
        /\ \A m \in DOMAIN Planned : \E b \in started.binds : b.target = Planned[m].target
    <3>1. request.cwd \in Files /\ DOMAIN Planned = 1..Len(request.mounts)
      BY <2>1, PlannedMounts DEF Checked
    <3>2. ASSUME NEW b \in started.binds PROVE b.target \in Seq(STRING)
      BY <2>1, <3>1, ContainerBinds
    <3>3. ASSUME NEW m \in DOMAIN Planned
          PROVE  \E b \in started.binds : b.target = Planned[m].target
      <4> DEFINE b == [source |-> Planned[m].source, target |-> Planned[m].target]
      <4>1. b \in started.binds
        BY <2>1, <3>1, ContainerBinds
      <4>2. b.target = Planned[m].target
        OBVIOUS
      <4> QED BY <4>1, <4>2
    <3> QED BY <3>2, <3>3
  <2>8. Shown(started.binds, path) # {}
    BY <2>5, <2>6, <2>7, CoveredIsShown
  <2> QED BY <2>4, <2>5, <2>8 DEF path
<1> QED BY <1>1, LaunchAlways, PTL

-----------------------------------------------------------------------------
(* The working directory.                                                  *)

\* The remapped cwd lies below the target, and the source has the cwd there.
LEMMA Remapped ==
  ASSUME NEW S, NEW mount, mount.source \in Seq(S), mount.target \in Seq(S),
         NEW cwd \in Seq(S), Covers(mount.source, cwd)
  PROVE  /\ remap_cwd_workdir(mount, cwd) \in Seq(S)
         /\ Covers(mount.target, remap_cwd_workdir(mount, cwd))
         /\ mount.source \o Below(mount.target, remap_cwd_workdir(mount, cwd)) = cwd
<1> DEFINE source == mount.source
           target == mount.target
           rest == Below(source, cwd)
           workdir == target \o rest
<1>1. /\ Len(source) \in Nat /\ Len(target) \in Nat /\ Len(cwd) \in Nat
      /\ Len(source) <= Len(cwd)
  BY DEF Covers
<1>2. rest \in Seq(S)
  BY <1>1 DEF Below
<1>3. remap_cwd_workdir(mount, cwd) = workdir
  BY DEF remap_cwd_workdir
<1>4. source \o rest = cwd
  BY RootAndBelow
<1> HIDE DEF rest
<1>5. workdir \in Seq(S) /\ Len(workdir) = Len(target) + Len(rest)
  BY <1>2
<1>6. Covers(target, workdir)
  <2>1. Len(rest) \in Nat /\ Len(target) <= Len(workdir)
    BY <1>1, <1>2, <1>5
  <2>2. \A i \in 1..Len(target) : workdir[i] = target[i]
    BY <1>1, <1>2
  <2> QED BY <2>1, <2>2 DEF Covers
<1>7. Below(target, workdir) = rest
  <2> DEFINE below == Below(target, workdir)
  <2>1. below \in Seq(S) /\ Len(below) = Len(rest)
    BY <1>1, <1>2, <1>5 DEF Below
  <2>2. ASSUME NEW i \in 1..Len(rest) PROVE below[i] = rest[i]
    <3>1. Len(rest) \in Nat
      BY <1>2
    <3>2. below[i] = workdir[i + Len(target)]
      <4> HIDE DEF workdir, target
      <4>1. \A k \in 1..Len(below) : below[k] = workdir[k + Len(target)]
        BY <1>1, <1>5, <3>1 DEF Below
      <4> HIDE DEF below
      <4> QED BY <2>1, <4>1
    <3>3. workdir[i + Len(target)] = rest[i]
      BY <1>1, <1>2, <3>1
    <3> QED BY <3>2, <3>3
  <2> HIDE DEF below
  <2>3. below = rest
    BY <1>2, <2>1, <2>2, SeqEqual
  <2> QED BY <2>3 DEF below
<1> QED BY <1>3, <1>4, <1>5, <1>6, <1>7

\* Two roots of equal length over one path are the same.
LEMMA SameRoot ==
  ASSUME NEW S, NEW a \in Seq(S), NEW b \in Seq(S), NEW path \in Seq(S),
         Covers(a, path), Covers(b, path), Len(a) = Len(b)
  PROVE  a = b
<1>1. \A i \in 1..Len(a) : a[i] = b[i]
  BY DEF Covers
<1> QED BY <1>1, SeqEqual

\* An accepted plan mounts the cwd, or uses the longest mount over it.
LEMMA PlanUsesCover ==
  ASSUME request.mounts \in Seq(SpawnMount),
         NEW plan, plan = validate_cwd_mount_plan(request.cwd, Planned), plan.ok
  PROVE  IF plan.auto_mount_cwd THEN plan.workdir = request.cwd
         ELSE \E at \in 1..Len(request.mounts) :
                /\ Covers(Planned[at].source, request.cwd)
                /\ \A j \in 1..Len(request.mounts) :
                     Covers(Planned[j].source, request.cwd)
                     => Len(Planned[j].source) <= Len(Planned[at].source)
                /\ plan.workdir = remap_cwd_workdir(Planned[at], request.cwd)
<1> DEFINE n == Len(request.mounts)
           cover == select_cwd_cover(request.cwd, Planned)
<1>1. /\ n \in Nat /\ DOMAIN Planned = 1..n /\ Len(Planned) = n
      /\ \A i \in 1..n : Len(Planned[i].source) \in Nat
  BY PlannedMounts
<1>2. cover \in [at : 0..n, tie : BOOLEAN] /\ Found(request.cwd, Planned, n, cover)
  BY <1>1, CoverScan
<1>3. ~cover.tie
  BY DEF validate_cwd_mount_plan, Rejected
<1>4. IF cover.at # 0
      THEN /\ ~plan.auto_mount_cwd
           /\ plan.workdir = remap_cwd_workdir(Planned[cover.at], request.cwd)
      ELSE plan.auto_mount_cwd /\ plan.workdir = request.cwd
  BY DEF validate_cwd_mount_plan, Rejected
<1> HIDE DEF cover, n
<1>5. CASE cover.at = 0
  BY <1>4, <1>5
<1>6. CASE cover.at # 0
  <2>1. /\ cover.at \in 1..n /\ Covers(Planned[cover.at].source, request.cwd)
        /\ \A j \in 1..n : Covers(Planned[j].source, request.cwd) /\ j # cover.at
             => Len(Planned[j].source) < Len(Planned[cover.at].source)
    BY <1>2, <1>3, <1>6 DEF Found, host_path_covers
  <2>2. \A j \in 1..n : Covers(Planned[j].source, request.cwd)
             => Len(Planned[j].source) <= Len(Planned[cover.at].source)
    BY <1>1, <2>1
  <2> QED BY <1>4, <1>6, <2>1, <2>2 DEF n
<1> QED BY <1>5, <1>6

\* A container starts in its caller's directory, at its own path or where the
\* longest mount over it has it, unless the caller put a deeper mount there.
THEOREM WorkdirIsCwdHolds == Spec => []WorkdirIsCwd
<1>1. LaunchInv => WorkdirIsCwd
  <2> SUFFICES ASSUME LaunchInv, InContainer PROVE WorkdirIsCwd
    BY DEF WorkdirIsCwd
  <2> DEFINE n == Len(request.mounts)
             bind(i) == [source |-> Planned[i].source, target |-> Planned[i].target]
             plan == validate_cwd_mount_plan(request.cwd, Planned)
             binds == started.binds
             workdir == started.workdir
  <2>1. /\ request.mounts \in Seq(SpawnMount) /\ Checked
        /\ launch = docker_run_launch(request, started.env)
        /\ binds = launch.binds /\ workdir = launch.workdir
    BY DEF LaunchInv, InContainer
  <2>2. /\ request.cwd \in Files /\ request.cwd = Cwd /\ Cwd \in Seq(STRING)
    BY <2>1, FilesArePaths DEF Checked
  <2>3. /\ \A i, j \in DOMAIN Planned : Planned[i].target = Planned[j].target => i = j
        /\ plan.ok
        /\ plan_cwd_mount(request.cwd, docker_mounts(request.mounts)) = plan
    BY <2>1, CheckedPlan DEF Checked
  <2>4. launch.auto_mount_cwd = plan.auto_mount_cwd /\ workdir = plan.workdir
    BY <2>1, <2>3 DEF docker_run_launch
  <2>5. CASE launch.auto_mount_cwd
    <3>1. workdir = Cwd
      BY <2>1, <2>2, <2>3, <2>4, <2>5, PlanUsesCover
    <3> QED BY <2>5, <3>1 DEF WorkdirIsCwd
  <2>6. CASE ~launch.auto_mount_cwd
    <3>1. PICK at \in 1..n :
            /\ Covers(Planned[at].source, Cwd)
            /\ \A j \in 1..n : Covers(Planned[j].source, Cwd)
                 => Len(Planned[j].source) <= Len(Planned[at].source)
            /\ workdir = remap_cwd_workdir(Planned[at], Cwd)
      BY <2>1, <2>2, <2>3, <2>4, <2>6, PlanUsesCover
    <3>2. /\ DOMAIN Planned = 1..n
          /\ \A i \in 1..n : Planned[i].source \in Seq(STRING) /\ Planned[i].target \in Seq(STRING)
      BY <2>1, PlannedMounts
    <3>3. /\ \A i \in 1..n : bind(i) \in binds
          /\ \A c \in binds : \E i \in 1..n : c = bind(i)
      BY <2>1, <2>2, <2>6, ContainerBinds
    <3>4. /\ workdir \in Seq(STRING) /\ Covers(Planned[at].target, workdir)
          /\ Planned[at].source \o Below(Planned[at].target, workdir) = Cwd
      <4>1. Planned[at].source \in Seq(STRING) /\ Planned[at].target \in Seq(STRING)
        BY <3>2
      <4> HIDE DEF workdir
      <4> QED BY <2>2, <3>1, <4>1, Remapped
    <3> HIDE DEF n, plan, binds, workdir
    <3> DEFINE b == bind(at)
    <3>5. /\ b.source = Planned[at].source /\ b.target = Planned[at].target /\ b \in binds
          /\ Len(b.target) \in Nat
      BY <3>2, <3>3
    <3> HIDE DEF b
    <3>6. Shown({b}, workdir) = {Cwd}
      <4>1. container_path_covers(b.target, workdir) /\ Len(b.target) <= Len(b.target)
        BY <3>4, <3>5 DEF container_path_covers
      <4>2. b.source \o Below(b.target, workdir) = Cwd
        BY <3>4, <3>5
      <4> QED BY <4>1, <4>2 DEF Shown
    <3>7. ASSUME NEW c \in binds, Covers(c.source, Cwd) PROVE Len(c.source) <= Len(b.source)
      <4>1. PICK i \in 1..n : c = bind(i)
        BY <3>3
      <4>2. c.source = Planned[i].source
        BY <4>1
      <4> QED BY <3>1, <3>5, <3>7, <4>2
    <3>8. ASSUME ~\E c \in binds : Covers(c.target, workdir) /\ Len(c.target) > Len(b.target)
          PROVE  Shown(binds, workdir) = {Cwd}
      <4>1. ASSUME NEW c \in binds, Covers(c.target, workdir)
            PROVE  Len(c.target) <= Len(b.target)
        <5>1. Len(c.target) \in Nat
          <6>1. PICK i \in 1..n : c = bind(i)
            BY <3>3
          <6>2. c.target = Planned[i].target
            BY <6>1
          <6> QED BY <3>2, <6>2
        <5> QED BY <3>5, <3>8, <4>1, <5>1
      <4>2. ASSUME NEW c \in binds, Covers(c.target, workdir), Len(b.target) <= Len(c.target)
            PROVE  c = b
        <5>1. PICK i \in 1..n : c = bind(i)
          BY <3>3
        <5>2. c.target = Planned[i].target /\ c.target \in Seq(STRING)
          BY <3>2, <5>1
        <5>3. Len(c.target) = Len(b.target)
          BY <3>5, <4>1, <4>2, <5>2
        <5>4. c.target = b.target
          BY <3>2, <3>4, <3>5, <4>2, <5>2, <5>3, SameRoot
        <5>5. i = at
          BY <2>3, <3>2, <3>5, <5>2, <5>4
        <5> QED BY <5>1, <5>5 DEF b
      <4> DEFINE deepest == {x \in binds : /\ container_path_covers(x.target, workdir)
                                            /\ \A c \in binds :
                                                 container_path_covers(c.target, workdir)
                                                 => Len(c.target) <= Len(x.target)}
      <4>3. b \in deepest
        BY <3>4, <3>5, <4>1 DEF container_path_covers
      <4>4. \A x \in deepest : x = b
        BY <3>4, <3>5, <4>2 DEF container_path_covers
      <4>5. Shown(binds, workdir) = {x.source \o Below(x.target, workdir) : x \in deepest}
        BY DEF Shown
      <4> HIDE DEF deepest
      <4> QED BY <3>4, <3>5, <4>3, <4>4, <4>5
    <3> QED BY <2>6, <3>5, <3>6, <3>7, <3>8 DEF WorkdirIsCwd, binds, workdir
  <2> QED BY <2>5, <2>6
<1> QED BY <1>1, LaunchAlways, PTL
=============================================================================
