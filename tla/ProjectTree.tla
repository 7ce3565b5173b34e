---------------------------- MODULE ProjectTree ----------------------------
(***************************************************************************)
(* The Project as the capture sees it: a tree gives each path of Universe  *)
(* its kind, "file", "dir", "link", "special", "mount" for a directory on  *)
(* another device, "unreadable" when lstat of it fails, or "none".         *)
(***************************************************************************)
EXTENDS Integers, Sequences, FiniteSets, SequencesExt

CONSTANTS Universe,   \* the paths, sequences of names
          GitDir,     \* the name .git
          TribiosDir, \* the name .tribios
          PolicyFile  \* the name .tribiosignore

ASSUME UniverseAssumption ==
    /\ IsFiniteSet(Universe) /\ <<>> \notin Universe
    /\ \A path \in Universe : Len(path) > 1 => Front(path) \in Universe

Children(tree, dir) ==
    {path \in Universe : Len(path) = Len(dir) + 1 /\ Front(path) = dir /\ tree[path] # "none"}
MutCapturesSpecialFiles(tree, path) == tree[path] # "mount"
Capturable(tree, path) == tree[path] \in {"file", "dir", "link"}
Ancestors(path) == {SubSeq(path, 1, n) : n \in 1 .. Len(path) - 1}
=============================================================================
