---------------------------- MODULE DockerMounts ----------------------------
(***************************************************************************)
(* Where a docker runtime finds its working directory: the mount plan of   *)
(* docker_mount_plan.rs.  A canonical path, of the host or of the          *)
(* container, is the sequence of its names (the root is <<>>).  A path as  *)
(* a caller writes it is [absolute, parts], whose parts, between slashes,  *)
(* may also be "", "." and "..".  A declared mount is [source, target]     *)
(* with the target as written; a DockerMount has a canonical target.       *)
(***************************************************************************)
EXTENDS Integers, Sequences

Covers(root, value) ==
  /\ Len(root) <= Len(value)
  /\ \A i \in 1..Len(root) : root[i] = value[i]

\* What is left of value below root.
Below(root, value) == SubSeq(value, Len(root) + 1, Len(value))

host_path_covers(root, value) == Covers(root, value)

container_path_covers(root, value) == Covers(root, value)

\* Mutant: a mount below the path does not overlap it.
path_is_covered(left, right) == container_path_covers(right, left)

container_paths_overlap(left, right) ==
  container_path_covers(left, right) \/ container_path_covers(right, left)

\* Only an absolute container path can be normalized; ".." of the root is the
\* root.
normalize_container_path(path) ==
  LET parts[i \in 0..Len(path.parts)] ==
        IF i = 0 THEN <<>>
        ELSE IF path.parts[i] \in {"", "."} THEN parts[i - 1]
        ELSE IF path.parts[i] = ".."
             THEN SubSeq(parts[i - 1], 1, Len(parts[i - 1]) - 1)
        ELSE Append(parts[i - 1], path.parts[i])
  IN parts[Len(path.parts)]

DockerMount(mount) ==
  [source |-> mount.source, target |-> normalize_container_path(mount.target)]

reject_cwd_source_descendants(cwd, mounts) ==
  \E i \in DOMAIN mounts :
    host_path_covers(cwd, mounts[i].source) /\ mounts[i].source # cwd

reject_cwd_target_overlaps(cwd, mounts) ==
  \E i \in DOMAIN mounts : container_paths_overlap(cwd, mounts[i].target)

\* Mutant: the first mount over the cwd is selected.
first_cover(cwd, mounts) ==
  LET covers == {i \in DOMAIN mounts : host_path_covers(mounts[i].source, cwd)}
  IN [at |-> IF covers = {} THEN 0 ELSE CHOOSE i \in covers : \A j \in covers : i <= j,
      tie |-> FALSE]

\* The scan for the mount that covers the cwd: "at" is the selected mount (0:
\* none); a mount as long as the selected one ends the scan with an error.
select_cwd_cover(cwd, mounts) ==
  LET length(i) == IF i = 0 THEN 0 ELSE Len(mounts[i].source) + 1
      scan[i \in 0..Len(mounts)] ==
        IF i = 0 THEN [at |-> 0, tie |-> FALSE]
        ELSE LET selected == scan[i - 1] IN
             IF selected.tie \/ ~host_path_covers(mounts[i].source, cwd)
                \/ length(i) < length(selected.at)
             THEN selected
             ELSE IF length(i) = length(selected.at) THEN [selected EXCEPT !.tie = TRUE]
             ELSE [selected EXCEPT !.at = i]
  IN scan[Len(mounts)]

\* Mutant: the workdir is the mount itself.
workdir_is_target(cover, cwd) == cover.target

remap_cwd_workdir(cover, cwd) == cover.target \o Below(cover.source, cwd)

\* The plan: whether the cwd is mounted at its own path, and the workdir.
Rejected == [ok |-> FALSE, auto_mount_cwd |-> FALSE, workdir |-> <<>>]

validate_cwd_mount_plan(cwd, mounts) ==
  LET cover == select_cwd_cover(cwd, mounts) IN
  IF reject_cwd_source_descendants(cwd, mounts) \/ cover.tie THEN Rejected
  ELSE IF cover.at # 0
  THEN [ok |-> TRUE, auto_mount_cwd |-> FALSE,
        workdir |-> remap_cwd_workdir(mounts[cover.at], cwd)]
  ELSE IF reject_cwd_target_overlaps(cwd, mounts) THEN Rejected
  ELSE [ok |-> TRUE, auto_mount_cwd |-> TRUE, workdir |-> cwd]

\* From declared mounts.
plan_cwd_mount(cwd, mounts) ==
  IF \E i \in DOMAIN mounts : ~mounts[i].target.absolute THEN Rejected
  ELSE validate_cwd_mount_plan(cwd, [i \in DOMAIN mounts |-> DockerMount(mounts[i])])

\* What docker shows at a container path, as the set of candidates for the host
\* path: of the binds over the path the deepest one is seen (a bind is a record
\* with a source and a canonical target).  Empty: a path of the image.
Shown(binds, path) ==
  {bind.source \o Below(bind.target, path) :
     bind \in {b \in binds : /\ container_path_covers(b.target, path)
                             /\ \A c \in binds : container_path_covers(c.target, path)
                                                 => Len(c.target) <= Len(b.target)}}
=============================================================================
