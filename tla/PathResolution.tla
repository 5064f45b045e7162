--------------------------- MODULE PathResolution ---------------------------
(***************************************************************************)
(* class PathResolution of filesystem/file_access.cpp: which mounted       *)
(* filesystem a path is in.  A path is the sequence of its components: "." *)
(* stands for the empty component of a double or a trailing slash as well. *)
(* A filesystem is named by its mount point, a path without "." and "..".  *)
(*                                                                         *)
(* Symbolic links are left out: supportsSymlinks() is false in every       *)
(* filesystem of the repository.                                           *)
(***************************************************************************)
EXTENDS Integers, Sequences

Prefix(path, n) == SubSeq(path, 1, n)
Up(path)        == Prefix(path, Len(path) - 1)
Max0(n)         == IF n < 0 THEN 0 ELSE n

\* State of a resolution: the components taken, the filesystem they are in,
\* and depthIntoFs.
Start == [result |-> 0, path |-> <<>>, fs |-> <<>>, depthIntoFs |-> 1]
ENOENT == [Start EXCEPT !.result = -1]

\* The longest mounted prefix of no more than "from" components; the root is
\* taken without a look.
recursiveFindFs(mounts, r, from) ==
    LET found == CHOOSE n \in 0 .. from :
                    /\ n = 0 \/ Prefix(r.path, n) \in mounts
                    /\ \A k \in n + 1 .. from : Prefix(r.path, k) \notin mounts
    IN  [r EXCEPT !.fs = Prefix(r.path, found), !.depthIntoFs = 1 + from - found]

\* "..": when it leaves the filesystem the enclosing one is looked for from
\* the slash before index; a ".." that ends the path leaves no slash after
\* the directory it leads to, and the search starts one directory higher.
upPathComponent(mounts, r, last) ==
    LET up == [r EXCEPT !.path = Up(r.path), !.depthIntoFs = r.depthIntoFs - 1]
    IN  IF r.path = <<>> THEN ENOENT
        ELSE IF up.depthIntoFs > 0 THEN up
        ELSE recursiveFindFs(mounts, up, IF last THEN Max0(Len(up.path) - 1) ELSE Len(up.path))

\* Mutant: the depth is not reset on entering a filesystem.
normalPathComponent_KeepsDepth(mounts, r, name) ==
    LET down == [r EXCEPT !.path = Append(r.path, name), !.depthIntoFs = r.depthIntoFs + 1]
    IN  IF down.path \in mounts THEN [down EXCEPT !.fs = down.path] ELSE down

normalPathComponent(mounts, r, name) ==
    LET down == [r EXCEPT !.path = Append(r.path, name), !.depthIntoFs = r.depthIntoFs + 1]
    IN  IF down.path \in mounts THEN [down EXCEPT !.fs = down.path, !.depthIntoFs = 1]
        ELSE down

\* One round of the loop over the components.
nextComponent(mounts, r, name, last) ==
    IF r.result < 0 \/ name = "." THEN r
    ELSE IF name = ".." THEN upPathComponent(mounts, r, last)
    ELSE normalPathComponent(mounts, r, name)

resolvePath(mounts, path) ==
    LET to[i \in 0 .. Len(path)] ==
            IF i = 0 THEN Start
            ELSE nextComponent(mounts, to[i - 1], path[i], i = Len(path))
    IN  IF <<>> \in mounts THEN to[Len(path)] ELSE ENOENT
-----------------------------------------------------------------------------
(* Reference *)

\* Innermost mount point a directory is at or below.
Innermost(mounts, dir) ==
    CHOOSE m \in mounts :
       /\ \E n \in 0 .. Len(dir) : m = Prefix(dir, n)
       /\ \A n \in Len(m) + 1 .. Len(dir) : Prefix(dir, n) \notin mounts

\* A path that ends with a ".." out of the root of a filesystem.
EndsLeavingMount(mounts, path) ==
    /\ path # <<>> /\ path[Len(path)] = ".."
    /\ resolvePath(mounts, Up(path)).path \in mounts \ {<<>>}
=============================================================================
