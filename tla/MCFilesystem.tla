---------------------------- MODULE MCFilesystem ----------------------------
(***************************************************************************)
(* An instance of Filesystem for TLC.  Two threads share the table of a    *)
(* process that comes and goes, and use and close files that one of them   *)
(* opens, while a third thread mounts and unmounts: at a directory, at one *)
(* below it and at one whose name begins with its name.                    *)
(***************************************************************************)
EXTENDS Filesystem, TLC

CONSTANTS user1, user2, tabKernel, tabProcess

OneProcess == user1 :> tabProcess @@ user2 :> tabProcess

Tree     == {<<>>, <<"a">>, <<"a", "b">>, <<"ab">>}
Siblings == {<<"a", "ab">>}

\* All paths of up to three components, and longer ones into the tree.
Component  == {"a", "b", ".", ".."}
ShortPaths == UNION {[1 .. n -> Component] : n \in 0 .. 3}
                \cup {<<"a", "b">> \o s : s \in [1 .. 2 -> Component]}
=============================================================================
