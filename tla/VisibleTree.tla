----------------------------- MODULE VisibleTree -----------------------------
(***************************************************************************)
(* Paths and directory trees, shared by the abstract and the detailed      *)
(* specification of one Workspace.                                         *)
(*                                                                         *)
(* A path is the sequence of its names (paths.cpp normalises "a/b" and     *)
(* rejects ".."); the empty sequence is the Workspace root.  A tree maps    *)
(* every path of a finite, prefix-closed universe to what is there.  An     *)
(* entry is a directory or a non-directory ("file" stands for regular       *)
(* files and symbolic links alike: the engine moves both as one opaque      *)
(* leaf).  val abstracts content and mode together; times are left out: the   *)
(* copies an entry goes through keep whole seconds of them, or none.        *)
(***************************************************************************)
EXTENDS Integers, Sequences

CONSTANTS
    Names,      \* file names
    Paths,      \* the universe of paths, sequences of names
    Vals,       \* contents and metadata an entry may carry
    Requests    \* the mutations callers may issue

Root == << >>

Leaf == "file"
Dir == "dir"
Nothing == "absent"

Parent(p) == SubSeq(p, 1, Len(p) - 1)

(* q is p or lies somewhere beneath it. *)
Under(p, q) ==
    /\ Len(p) =< Len(q)
    /\ \A i \in 1..Len(p) : p[i] = q[i]

Beneath(p, q) == Under(p, q) /\ p # q

(* The name q has beneath "from", transplanted beneath "to". *)
Rebase(from, to, q) == to \o SubSeq(q, Len(from) + 1, Len(q))

ReplacingKinds == {"write", "truncate", "chmod", "utimens"}
CreatingKinds == {"create", "symlink", "mkdir"}
RemovingKinds == {"unlink", "rmdir"}
StagedKinds == ReplacingKinds \cup CreatingKinds \cup {"rename"}
Kinds == StagedKinds \cup RemovingKinds

(* What callers see of an entry; where it is stored is not part of it. *)
Shapes == [kind : {Leaf, Dir, Nothing}, val : Vals]
Blank == CHOOSE v \in Vals : TRUE
NoShape == [kind |-> Nothing, val |-> Blank]

RequestType == [kind : Kinds, path : Paths, target : Paths, val : Vals]

ASSUME ValsAssumption == Vals # {}

ASSUME PathsAssumption ==
    /\ Root \in Paths
    /\ \A p \in Paths : p \in Seq(Names) /\ \A n \in 0..Len(p) : SubSeq(p, 1, n) \in Paths

(* The universe is closed under the renames callers issue, so that moving a *)
(* subtree loses nothing of it.                                             *)
ASSUME RequestsAssumption ==
    /\ Requests \subseteq RequestType
    /\ \A r \in Requests : r.kind = "rename" =>
          \A q \in Paths : Under(r.path, q) => Rebase(r.path, r.target, q) \in Paths

IsDir(tree, p) == tree[p].kind = Dir
Exists(tree, p) == tree[p].kind # Nothing
Children(tree, p) == {q \in Paths : q # Root /\ Parent(q) = p /\ Exists(tree, q)}

(* Whatever an entry lies beneath is a directory. *)
TreeShaped(tree) ==
    /\ IsDir(tree, Root)
    /\ \A p, q \in Paths : Beneath(p, q) /\ Exists(tree, q) => IsDir(tree, p)

(* Where a mutation leaves its result. *)
Destination(r) == IF r.kind = "rename" THEN r.target ELSE r.path

(***************************************************************************)
(* The errors each operation reports before it changes anything.           *)
(***************************************************************************)
Admitted(tree, r) ==
    CASE r.kind \in CreatingKinds -> ~Exists(tree, r.path)
      [] r.kind = "write" -> TRUE          \* write_handle trusts the handle
      [] r.kind = "truncate" -> Exists(tree, r.path) /\ ~IsDir(tree, r.path)
      [] r.kind \in {"chmod", "utimens"} -> Exists(tree, r.path)
      [] r.kind = "unlink" -> /\ r.path # Root
                              /\ Exists(tree, r.path) /\ ~IsDir(tree, r.path)
      [] r.kind = "rmdir" -> /\ r.path # Root
                             /\ IsDir(tree, r.path)
                             /\ Children(tree, r.path) = {}
      [] r.kind = "rename" ->
            /\ r.path # Root /\ r.target # Root
            /\ ~Under(r.path, r.target)
            /\ Exists(tree, r.path)
            /\ Exists(tree, r.target) =>
                  /\ IsDir(tree, r.path) <=> IsDir(tree, r.target)
                  /\ IsDir(tree, r.target) => Children(tree, r.target) = {}

(* A change of times is the one that leaves the value as it is. *)
ValAfter(r, v) == IF r.kind = "utimens" THEN v ELSE r.val

(* The tree a completed mutation makes visible. *)
Applied(tree, r) ==
    CASE r.kind \in {"create", "symlink"} ->
            [tree EXCEPT ![r.path] = [kind |-> Leaf, val |-> r.val]]
      [] r.kind = "mkdir" -> [tree EXCEPT ![r.path] = [kind |-> Dir, val |-> r.val]]
      [] r.kind \in ReplacingKinds ->
            [tree EXCEPT ![r.path].val = ValAfter(r, tree[r.path].val)]
      [] r.kind \in RemovingKinds ->
            [tree EXCEPT ![r.path] = NoShape]
      [] r.kind = "rename" ->
            [q \in Paths |->
                IF Under(r.target, q)
                THEN LET from == Rebase(r.target, r.path, q)
                     IN  IF from \in Paths
                         THEN tree[from]
                         ELSE NoShape
                ELSE IF Under(r.path, q)
                     THEN NoShape
                     ELSE tree[q]]
=============================================================================
