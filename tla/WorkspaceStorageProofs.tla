----------------------- MODULE WorkspaceStorageProofs -----------------------
(***************************************************************************)
(* Machine-checked proofs about what WorkspaceEngine keeps on disk: staged  *)
(* entries, tombstones, and the Base entries that tombstones hide.          *)
(*                                                                         *)
(* None of the three results is inductive by itself.  That a discarded      *)
(* stage is empty once its root is gone needs its shape all along (StageInv *)
(* with Hanging); that a tombstone names a Base entry needs the same of the *)
(* rows recovery will replay (TombInv); and that dropping the tombstones    *)
(* beneath the target of a rename uncovers nothing needs the target to be   *)
(* in the upper tree by then (PresentInv) with no Base entry beneath it     *)
(* (TargetInv) and not to go away with the source (RenameInv).              *)
(***************************************************************************)
EXTENDS WorkspaceEngineProofs

(* The operations that stage an entry callers can see. *)
CopyingKinds == {"truncate", "chmod", "utimens", "rename"}

(* The steps after the rename of the staged entry. *)
Published == {"sync", "source", "syncsource", "finish"}

(* What a journalled operation is: its kind, its paths, its tombstone effects. *)
SameWork(a, b) ==
    /\ a.kind = b.kind /\ a.path = b.path /\ a.target = b.target
    /\ a.add = b.add /\ a.drop = b.drop

(* A tombstone an operation will add is one for a Base entry. *)
TombInv ==
    /\ TombstonesNameBase
    /\ op.add => Exists(Base, op.path)
    /\ \A row \in journal : row.add => Exists(Base, row.path)

(* A rename drops tombstones, and its target is not beneath its source. *)
RenameInv ==
    /\ op.drop => op.kind = "rename"
    /\ op.kind = "rename" => ~Under(op.path, op.target)
    /\ \A row \in journal :
          (row.drop => row.kind = "rename") /\ (row.kind = "rename" => ~Under(row.path, row.target))

(* No rename goes onto a path that has Base entries beneath it. *)
BareTargets ==
    \A r \in Requests : r.kind = "rename" =>
        \A q \in Paths : Beneath(r.target, q) => ~Exists(Base, q)
TargetInv ==
    BareTargets =>
        /\ op.kind = "rename" => \A q \in Paths : Beneath(op.target, q) => ~Exists(Base, q)
        /\ \A row \in journal : row.kind = "rename" =>
              \A q \in Paths : Beneath(row.target, q) => ~Exists(Base, q)

(* What an operation stages and publishes is there to be. *)
PresentInv ==
    /\ mode = "serving" /\ pc \in {"parents", "syncparents", "journal", "prepare"} /\ op.kind \in CopyingKinds =>
          Exists(View, op.path)
    /\ mode = "serving" /\ pc \in {"flush", "phase", "publish"} /\ op.kind \in StagedKinds =>
          Exists(stage[op.id], Destination(op))
    /\ pc \in Published /\ op.kind = "rename" => Exists(upper, op.target)

(* A staged tree: nothing but what hangs off the entry at its root. *)
Hanging(tree, to) ==
    \A q \in Paths : \/ tree[q] = Absent
                     \/ /\ Exists(tree, q) /\ Under(to, q)
                        /\ \A r \in Paths : Under(to, r) /\ Under(r, q) => Exists(tree, r)

(* While the Workspace is served, only the operation under way has a stage,  *)
(* and the stages that could not be discarded are there still.               *)
OnlyOwnStage ==
    /\ pc \in {"idle", "parents", "syncparents", "journal"} => op.id = 0
    /\ pc \notin {"idle", "parents", "syncparents", "journal"} => op.id < nextId
    /\ pc \in {"prepare", "flush", "publish", "discard"} => op.kind \in StagedKinds
    /\ \A i \in Ids \ left : i # op.id => stage[i] = EmptyTree
    /\ pc \in Published \cup {"prepare"} => stage[op.id] = EmptyTree
    /\ pc = "abandon" => stage[op.id] = EmptyTree \/ op.id \in left
    /\ pc = "phase" /\ op.kind \in RemovingKinds => stage[op.id] = EmptyTree
    /\ pc \in {"flush", "phase", "publish", "discard"} =>
          Hanging(stage[op.id], Destination(op))
StageInv ==
    /\ \A i \in left : i < nextId
    /\ mode = "serving" => OnlyOwnStage

SInv == TombInv /\ RenameInv /\ TargetInv /\ PresentInv /\ StageInv
-----------------------------------------------------------------------------
(* Paths. *)

(* Two paths that lie beneath each other are the same. *)
LEMMA UnderAntisymmetric ==
    ASSUME NEW p \in Paths, NEW q \in Paths, Under(p, q), Under(q, p)
    PROVE  p = q
<1>1. p \in Seq(Names) /\ q \in Seq(Names) /\ Len(p) \in Nat /\ Len(q) \in Nat
    BY PathsAssumption
<1>2. Len(p) = Len(q) /\ \A i \in 1..Len(p) : p[i] = q[i]
    BY <1>1 DEF Under
<1>3. QED BY <1>1, <1>2

(* Every path lies beneath itself. *)
LEMMA UnderReflexive ==
    ASSUME NEW p \in Paths
    PROVE  Under(p, p)
<1>1. Len(p) \in Nat
    BY PathsAssumption
<1>2. QED BY <1>1 DEF Under

(* The transplanted path, name by name. *)
LEMMA RebaseNames ==
    ASSUME NEW from \in Paths, NEW to \in Paths, NEW q \in Paths, Under(from, q)
    PROVE  /\ Rebase(from, to, q) \in Seq(Names)
           /\ Len(Rebase(from, to, q)) = Len(to) + Len(q) - Len(from)
           /\ \A i \in 1..Len(to) : Rebase(from, to, q)[i] = to[i]
           /\ \A i \in 1..(Len(q) - Len(from)) : Rebase(from, to, q)[Len(to) + i] = q[Len(from) + i]
<1>1. /\ from \in Seq(Names) /\ to \in Seq(Names) /\ q \in Seq(Names)
      /\ Len(from) \in Nat /\ Len(to) \in Nat /\ Len(q) \in Nat /\ Len(from) =< Len(q)
    BY PathsAssumption DEF Under
<1> DEFINE tail == SubSeq(q, Len(from) + 1, Len(q))
<1>2. /\ tail \in Seq(Names) /\ Len(tail) = Len(q) - Len(from)
      /\ \A i \in 1..(Len(q) - Len(from)) : tail[i] = q[Len(from) + i]
    BY <1>1
<1> HIDE DEF tail
<1>3. /\ to \o tail \in Seq(Names) /\ Len(to \o tail) = Len(to) + Len(tail)
      /\ \A i \in 1..Len(to) : (to \o tail)[i] = to[i]
      /\ \A i \in 1..Len(tail) : (to \o tail)[Len(to) + i] = tail[i]
    <2>1. to \in Seq(Names) /\ tail \in Seq(Names) /\ Len(to) \in Nat /\ Len(tail) \in Nat
        BY <1>1, <1>2
    <2>2. to \o tail \in Seq(Names) /\ Len(to \o tail) = Len(to) + Len(tail)
        BY ONLY <2>1
    <2>3. ASSUME NEW i \in 1..Len(to) PROVE (to \o tail)[i] = to[i]
        BY ONLY <2>1, <2>3
    <2>4. ASSUME NEW i \in 1..Len(tail) PROVE (to \o tail)[Len(to) + i] = tail[i]
        BY ONLY <2>1, <2>4
    <2>5. QED BY <2>2, <2>3, <2>4
<1>4. Rebase(from, to, q) = to \o tail
    BY DEF Rebase, tail
<1>5. QED BY <1>1, <1>2, <1>3, <1>4

(* A subtree transplanted onto p has its root at p. *)
LEMMA RebaseRoot ==
    ASSUME NEW from \in Paths, NEW to \in Paths
    PROVE  Rebase(from, to, from) = to
<1>1. from \in Seq(Names) /\ to \in Seq(Names) /\ Len(from) \in Nat /\ Len(to) \in Nat
    BY PathsAssumption
<1>2. Under(from, from)
    BY UnderReflexive
<1>3. /\ Rebase(from, to, from) \in Seq(Names) /\ Len(Rebase(from, to, from)) = Len(to)
      /\ \A i \in 1..Len(to) : Rebase(from, to, from)[i] = to[i]
    BY <1>1, <1>2, RebaseNames
<1>4. QED BY <1>1, <1>3

(* Transplanting keeps what lies beneath what. *)
LEMMA RebaseUnder ==
    ASSUME NEW from \in Paths, NEW to \in Paths, NEW r \in Paths, NEW q \in Paths,
           Under(from, r), Under(r, q), Rebase(from, to, q) \in Paths
    PROVE  /\ Rebase(from, to, r) \in Paths
           /\ Under(to, Rebase(from, to, r))
           /\ Under(Rebase(from, to, r), Rebase(from, to, q))
           /\ r # q => Rebase(from, to, r) # Rebase(from, to, q)
<1> DEFINE a == Rebase(from, to, r)
           b == Rebase(from, to, q)
<1>1. /\ r \in Seq(Names) /\ q \in Seq(Names) /\ Len(r) \in Nat /\ Len(q) \in Nat
      /\ Len(to) \in Nat /\ Len(from) \in Nat
      /\ Len(r) =< Len(q) /\ Len(from) =< Len(r)
    BY PathsAssumption DEF Under
<1>2. Under(from, q)
    BY UnderTransitive
<1>3. /\ a \in Seq(Names) /\ Len(a) = Len(to) + Len(r) - Len(from)
      /\ \A i \in 1..Len(to) : a[i] = to[i]
      /\ \A i \in 1..(Len(r) - Len(from)) : a[Len(to) + i] = r[Len(from) + i]
    <2>1. from \in Paths /\ to \in Paths /\ r \in Paths /\ Under(from, r)
        OBVIOUS
    <2>2. QED BY ONLY <2>1, RebaseNames
<1>4. /\ b \in Seq(Names) /\ Len(b) = Len(to) + Len(q) - Len(from)
      /\ \A i \in 1..Len(to) : b[i] = to[i]
      /\ \A i \in 1..(Len(q) - Len(from)) : b[Len(to) + i] = q[Len(from) + i]
    <2>1. from \in Paths /\ to \in Paths /\ q \in Paths /\ Under(from, q)
        BY <1>2
    <2>2. QED BY ONLY <2>1, RebaseNames
<1> HIDE DEF a, b
<1>5. ASSUME NEW i \in 1..Len(a) PROVE a[i] = b[i]
    <2>1. CASE i =< Len(to)
        BY <1>1, <1>3, <1>4, <2>1
    <2>2. CASE i > Len(to)
        <3> DEFINE k == i - Len(to)
        <3>1. k \in 1..(Len(r) - Len(from)) /\ k \in 1..(Len(q) - Len(from)) /\ i = Len(to) + k
            BY <1>1, <1>3, <2>2
        <3>2. Len(from) + k \in 1..Len(r)
            BY <1>1, <3>1
        <3>3. r[Len(from) + k] = q[Len(from) + k]
            BY <3>2 DEF Under
        <3> HIDE DEF k
        <3>4. QED BY <1>3, <1>4, <3>1, <3>3
    <2>3. QED BY <1>1, <2>1, <2>2
<1>6. Len(a) \in 0..Len(b)
    BY <1>1, <1>3, <1>4
<1>7. a = SubSeq(b, 1, Len(a))
    <2>1. /\ Len(SubSeq(b, 1, Len(a))) = Len(a)
          /\ \A i \in 1..Len(a) : SubSeq(b, 1, Len(a))[i] = b[i]
          /\ SubSeq(b, 1, Len(a)) \in Seq(Names)
        BY <1>3, <1>4, <1>6
    <2>2. QED BY <1>3, <1>5, <2>1
<1>8. a \in Paths
    BY <1>6, <1>7, PathsAssumption DEF b
<1>9. Under(to, a) /\ Under(a, b)
    BY <1>1, <1>3, <1>5, <1>6 DEF Under
<1>10. r # q => Len(r) # Len(q)
    <2>1. SUFFICES ASSUME Len(r) = Len(q) PROVE r = q
        OBVIOUS
    <2>2. \A i \in 1..Len(r) : r[i] = q[i]
        BY DEF Under
    <2>3. QED BY <1>1, <2>1, <2>2
<1>11. r # q => Len(a) # Len(b)
    BY <1>1, <1>3, <1>4, <1>10
<1>12. QED BY <1>8, <1>9, <1>11 DEF a, b

(* Between a directory and a path beneath it lies one of its children. *)
LEMMA ChildTowards ==
    ASSUME NEW p \in Paths, NEW q \in Paths, Under(p, q), p # q
    PROVE  \E c \in Paths : c # Root /\ Parent(c) = p /\ Under(p, c) /\ Under(c, q)
<1> DEFINE c == SubSeq(q, 1, Len(p) + 1)
<1>1. p \in Seq(Names) /\ q \in Seq(Names) /\ Len(p) \in Nat /\ Len(q) \in Nat
    BY PathsAssumption
<1>2. Len(p) =< Len(q) /\ \A i \in 1..Len(p) : p[i] = q[i]
    BY DEF Under
<1>3. Len(p) < Len(q)
    <2>1. SUFFICES ASSUME Len(p) = Len(q) PROVE p = q
        BY <1>1, <1>2
    <2>2. QED BY <1>1, <1>2, <2>1
<1>4. c \in Paths
    BY <1>1, <1>3, PathsAssumption
<1>5. Len(c) = Len(p) + 1 /\ c \in Seq(Names) /\ \A i \in 1..(Len(p) + 1) : c[i] = q[i]
    BY <1>1, <1>3
<1> HIDE DEF c
<1>6. c # Root
    BY <1>1, <1>5 DEF Root
<1>7. Parent(c) = p
    <2>1. Parent(c) = SubSeq(c, 1, Len(p))
        BY <1>1, <1>5 DEF Parent
    <2>2. /\ SubSeq(c, 1, Len(p)) \in Seq(Names) /\ Len(SubSeq(c, 1, Len(p))) = Len(p)
          /\ \A i \in 1..Len(p) : SubSeq(c, 1, Len(p))[i] = c[i]
        BY <1>1, <1>5
    <2>3. \A i \in 1..Len(p) : SubSeq(c, 1, Len(p))[i] = p[i]
        BY <1>1, <1>2, <1>5, <2>2
    <2>4. SubSeq(c, 1, Len(p)) = p
        BY <1>1, <2>2, <2>3
    <2>5. QED BY <2>1, <2>4
<1>8. Under(p, c) /\ Under(c, q)
    BY <1>1, <1>2, <1>3, <1>5 DEF Under
<1>9. QED BY <1>4, <1>6, <1>7, <1>8

-----------------------------------------------------------------------------
(* Staged trees. *)

(* A staged tree whose root is gone is empty. *)
LEMMA HangingGone ==
    ASSUME NEW tree \in Trees, NEW to \in Paths, Hanging(tree, to), ~Exists(tree, to)
    PROVE  tree = EmptyTree
<1>1. Under(to, to)
    BY UnderReflexive
<1>2. \A q \in Paths : tree[q] = Absent
    BY <1>1 DEF Hanging
<1>3. QED BY <1>2 DEF EmptyTree, Trees

(* The empty tree hangs off any path. *)
LEMMA HangingEmpty ==
    ASSUME NEW to
    PROVE  Hanging(EmptyTree, to)
BY DEF Hanging, EmptyTree

(* Removing an entry that has nothing beneath it leaves a staged tree. *)
LEMMA HangingRemoval ==
    ASSUME NEW tree \in Trees, NEW to \in Paths, Hanging(tree, to),
           NEW q \in RemovableLeaf(tree, to)
    PROVE  Hanging([tree EXCEPT ![q] = Absent], to)
<1> DEFINE rest == [tree EXCEPT ![q] = Absent]
<1>1. q \in Paths /\ Under(to, q) /\ Exists(tree, q) /\ Children(tree, q) = {}
    BY DEF RemovableLeaf
<1>2. rest[q] = Absent /\ \A x \in Paths : x # q => rest[x] = tree[x]
    BY <1>1 DEF Trees
<1> HIDE DEF rest
<1>3. SUFFICES ASSUME NEW x \in Paths, rest[x] # Absent
               PROVE  /\ Exists(rest, x) /\ Under(to, x)
                      /\ \A r \in Paths : Under(to, r) /\ Under(r, x) => Exists(rest, r)
    BY DEF Hanging, rest
<1>4. x # q /\ rest[x] = tree[x] /\ tree[x] # Absent
    BY <1>2, <1>3
<1>5. /\ Exists(tree, x) /\ Under(to, x)
      /\ \A r \in Paths : Under(to, r) /\ Under(r, x) => Exists(tree, r)
    BY <1>4 DEF Hanging
<1>6. ~Under(q, x)
    <2>1. SUFFICES ASSUME Under(q, x) PROVE FALSE
        OBVIOUS
    <2>2. PICK c \in Paths : c # Root /\ Parent(c) = q /\ Under(q, c) /\ Under(c, x)
        BY <1>1, <1>4, <2>1, ChildTowards
    <2>3. Under(to, c)
        BY <1>1, <2>2, UnderTransitive
    <2>4. Exists(tree, c)
        BY <1>5, <2>2, <2>3
    <2>5. QED BY <1>1, <2>2, <2>4 DEF Children
<1>7. QED BY <1>2, <1>4, <1>5, <1>6 DEF Exists

(* A materialised subtree has its root if the entry is visible, and nothing *)
(* that does not hang off it.                                               *)
LEMMA MaterializeHangs ==
    ASSUME NEW tree \in Trees, NEW p \in Paths, NEW to \in Paths, NEW ino \in Nat
    PROVE  /\ Hanging(materialize_visible_entry_at(tree, p, to, ino), to)
           /\ Exists(tree, p) => Exists(materialize_visible_entry_at(tree, p, to, ino), to)
<1> DEFINE copy == materialize_visible_entry_at(tree, p, to, ino)
           Copied(q) == /\ Under(to, q) /\ Rebase(to, p, q) \in Paths
                        /\ Exists(tree, Rebase(to, p, q))
                        /\ \A r \in Paths :
                              Under(p, r) /\ Beneath(r, Rebase(to, p, q)) => IsDir(tree, r)
<1>1. \A s \in Paths : [tree[s] EXCEPT !.ino = ino].kind = tree[s].kind
    BY DEF Trees, Entries
<1>2. ASSUME NEW q \in Paths
      PROVE  /\ Copied(q) => copy[q].kind = tree[Rebase(to, p, q)].kind
             /\ ~Copied(q) => copy[q] = Absent
    BY <1>1 DEF materialize_visible_entry_at
<1> HIDE DEF copy
<1>3. ASSUME NEW q \in Paths, Copied(q), NEW r \in Paths, Under(to, r), Under(r, q)
      PROVE  Copied(r)
    <2>1. /\ Rebase(to, p, r) \in Paths /\ Under(p, Rebase(to, p, r))
          /\ Under(Rebase(to, p, r), Rebase(to, p, q))
          /\ r # q => Rebase(to, p, r) # Rebase(to, p, q)
        BY <1>3, RebaseUnder
    <2>2. Exists(tree, Rebase(to, p, r))
        <3>1. CASE r = q
            BY <1>3, <3>1
        <3>2. CASE r # q
            BY <1>3, <2>1, <3>2 DEF Beneath, IsDir, Exists, Dir, Nothing
        <3>3. QED BY <3>1, <3>2
    <2>3. ASSUME NEW x \in Paths, Under(p, x), Beneath(x, Rebase(to, p, r))
          PROVE  IsDir(tree, x)
        <3>1. Under(x, Rebase(to, p, q))
            BY <1>3, <2>1, <2>3, UnderTransitive DEF Beneath
        <3>2. x # Rebase(to, p, q)
            BY <1>3, <2>1, <2>3, UnderAntisymmetric DEF Beneath
        <3>3. QED BY <1>3, <2>3, <3>1, <3>2 DEF Beneath
    <2>4. QED BY <1>3, <2>1, <2>2, <2>3
<1>4. \A q \in Paths : Copied(q) => Exists(copy, q) /\ Under(to, q)
    BY <1>2 DEF Exists
<1>5. ASSUME Exists(tree, p) PROVE Copied(to)
    <2>1. Under(to, to) /\ Rebase(to, p, to) = p
        BY UnderReflexive, RebaseRoot
    <2>2. ASSUME NEW r \in Paths, Under(p, r), Beneath(r, p) PROVE FALSE
        BY <2>2, UnderAntisymmetric DEF Beneath
    <2>3. QED BY <1>5, <2>1, <2>2
<1>6. Hanging(copy, to)
    <2>1. SUFFICES ASSUME NEW q \in Paths, copy[q] # Absent
                   PROVE  /\ Exists(copy, q) /\ Under(to, q)
                          /\ \A r \in Paths : Under(to, r) /\ Under(r, q) => Exists(copy, r)
        BY DEF Hanging
    <2>2. Copied(q)
        BY <1>2, <2>1
    <2> HIDE DEF Copied
    <2>3. \A r \in Paths : Under(to, r) /\ Under(r, q) => Exists(copy, r)
        BY <1>3, <1>4, <2>2
    <2>4. QED BY <1>4, <2>2, <2>3
<1>7. QED BY <1>4, <1>5, <1>6 DEF copy

(* What prepare_stage builds hangs off the destination and is there. *)
LEMMA StagedHangs ==
    ASSUME upper \in Trees, NEW o \in Operations, o.kind \in StagedKinds, CanStage(o),
           o.kind \in CopyingKinds => Exists(View, o.path)
    PROVE  Hanging(Staged(o), Destination(o)) /\ Exists(Staged(o), Destination(o))
<1>1. o.path \in Paths /\ o.target \in Paths /\ o.id \in Nat /\ View \in Trees
    BY VisibleType DEF Operations, View
<1>2. CASE o.kind \in CreatingKinds
    <2> DEFINE entry == [kind |-> IF o.kind = "mkdir" THEN Dir ELSE Leaf, val |-> o.val, ino |-> o.id]
    <2>1. Destination(o) = o.path /\ Staged(o) = [EmptyTree EXCEPT ![o.path] = entry]
        BY <1>2 DEF Destination, Staged, CreatingKinds
    <2>2. entry.kind # Nothing
        BY DEF Dir, Leaf, Nothing
    <2> HIDE DEF entry
    <2>3. Staged(o)[o.path] = entry /\ \A q \in Paths : q # o.path => Staged(o)[q] = Absent
        BY <1>1, <2>1 DEF EmptyTree
    <2>4. \A r \in Paths : Under(o.path, r) /\ Under(r, o.path) => r = o.path
        BY <1>1, UnderAntisymmetric
    <2>5. Under(o.path, o.path)
        BY <1>1, UnderReflexive
    <2>6. QED BY <1>1, <2>1, <2>2, <2>3, <2>4, <2>5 DEF Hanging, Exists
<1>3. CASE o.kind = "rename"
    <2>1. Destination(o) = o.target
          /\ Staged(o) = materialize_visible_entry_at(View, o.path, o.target, o.id)
        BY <1>3 DEF Destination, Staged, CreatingKinds
    <2>2. Exists(View, o.path)
        BY <1>3 DEF CopyingKinds
    <2>3. QED BY <1>1, <2>1, <2>2, MaterializeHangs
<1>4. CASE o.kind \in ReplacingKinds
    <2> DEFINE copy == materialize_visible_entry_at(View, o.path, o.path, o.id)
    <2>1. Destination(o) = o.path /\ Staged(o) = [copy EXCEPT ![o.path].val = ValAfter(o, View[o.path].val)]
        BY <1>4 DEF Destination, Staged, CreatingKinds, ReplacingKinds
    <2>2. Exists(View, o.path)
        BY <1>4 DEF CopyingKinds, CanStage, ReplacingKinds
    <2>3. copy \in Trees /\ Hanging(copy, o.path) /\ Exists(copy, o.path)
        BY <1>1, <2>2, MaterializeHangs, MaterializeType
    <2> HIDE DEF copy
    <2>4. /\ \A q \in Paths : Staged(o)[q].kind = copy[q].kind
          /\ \A q \in Paths : q # o.path => Staged(o)[q] = copy[q]
        BY <1>1, <2>1, <2>3 DEF Trees, Entries
    <2>5. \A q \in Paths : Staged(o)[q] # Absent => copy[q] # Absent
        BY <2>3, <2>4 DEF Exists, Absent
    <2>6. QED BY <1>1, <2>1, <2>3, <2>4, <2>5 DEF Hanging, Exists
<1>5. QED BY <1>2, <1>3, <1>4 DEF StagedKinds

(* Copying up an ancestor changes nothing about which paths are visible. *)
LEMMA ParentsKeepView ==
    ASSUME TypeOK, create_missing_upper_parent_directories
    PROVE  \A p \in Paths : Exists(View, p)' <=> Exists(View, p)
<1>1. CASE upper' = upper /\ tombMem' = tombMem
    BY <1>1 DEF View, VisibleIn, Exists
<1>2. CASE /\ tombMem' = tombMem
           /\ \E dir \in Outermost(ParentsToMake) :
                /\ CanCopyUp(dir)
                /\ upper' = [upper EXCEPT ![dir] = [Base[dir] EXCEPT !.ino = MaxOps + nextId]]
    <2>1. PICK dir \in Paths :
              /\ CanCopyUp(dir)
              /\ upper' = [upper EXCEPT ![dir] = [Base[dir] EXCEPT !.ino = MaxOps + nextId]]
        BY <1>2 DEF Outermost, ParentsToMake
    <2>2. [Base[dir] EXCEPT !.ino = MaxOps + nextId].kind = Base[dir].kind
        BY BaseAssumption DEF Trees, Entries
    <2>3. /\ upper'[dir].kind = Dir
          /\ \A p \in Paths : p # dir => upper'[p] = upper[p]
        BY <2>1, <2>2 DEF CanCopyUp, IsDir, TypeOK, Trees
    <2>4. Exists(View, dir) /\ Exists(View, dir)'
        BY <2>1, <2>3 DEF View, VisibleIn, CanCopyUp, IsDir, Exists, Dir, Nothing
    <2>5. ASSUME NEW p \in Paths, p # dir PROVE Exists(View, p)' <=> Exists(View, p)
        BY <1>2, <2>3, <2>5 DEF View, VisibleIn, Exists, base_is_visible
    <2>6. QED BY <2>4, <2>5
<1>3. QED BY <1>1, <1>2 DEF create_missing_upper_parent_directories, storage

(* No operation under way has no stage. *)
LEMMA NoOpStage ==
    NoOp.id = 0 /\ 0 \notin Ids
BY BoundsAssumption DEF NoOp, Ids
-----------------------------------------------------------------------------
(* Journal rows. *)

(* The row records the operation as it goes on. *)
LEMMA BeginEffect ==
    ASSUME TypeOK, begin_recovery_operation
    PROVE  /\ mode = "serving" /\ pc = "journal"
           /\ \/ op' = NoOp /\ pc' = "idle" /\ journal' = journal
              \/ /\ \E row : /\ journal' = journal \cup {row} /\ SameWork(row, op')
                              /\ row.id = nextId /\ row.phase = "prepared"
                 /\ op'.kind = op.kind /\ op'.path = op.path /\ op'.target = op.target
                 /\ op'.id = nextId /\ nextId' = nextId + 1
                 /\ op'.add <=> op.kind \in RemovingKinds \cup {"rename"} /\ HidesBase(op.path)
                 /\ op'.drop <=> op.kind = "rename"
                 /\ pc' = IF op.kind \in RemovingKinds THEN "phase" ELSE "prepare"
<1> DEFINE adds == op.kind \in RemovingKinds \cup {"rename"} /\ HidesBase(op.path)
           drops == op.kind = "rename"
           started == [op EXCEPT !.id = nextId, !.add = adds, !.drop = drops]
           row == [id |-> nextId, kind |-> op.kind, path |-> op.path, target |-> op.target,
                   phase |-> "prepared", add |-> started.add, drop |-> started.drop]
<1>1. DOMAIN op = {"id", "kind", "path", "target", "val", "add", "drop"}
    BY DEF TypeOK, Operations
<1>2. /\ started.id = nextId /\ started.kind = op.kind
      /\ started.path = op.path /\ started.target = op.target
      /\ started.add = adds /\ started.drop = drops
    BY ONLY <1>1, Zenon
<1>3. CASE journal' = journal \cup {row} /\ op' = started /\ nextId' = nextId + 1
    <2>1. SameWork(row, op') /\ row.id = nextId /\ row.phase = "prepared"
        BY <1>2, <1>3, Zenon DEF SameWork
    <2>2. op'.add <=> op.kind \in RemovingKinds \cup {"rename"} /\ HidesBase(op.path)
        BY <1>2, <1>3, Zenon
    <2>3. op'.drop <=> op.kind = "rename"
        BY <1>2, <1>3, Zenon
    <2>4. /\ op'.kind = op.kind /\ op'.path = op.path /\ op'.target = op.target
          /\ op'.id = nextId /\ nextId' = nextId + 1
        BY <1>2, <1>3, Zenon
    <2>5. \E x : /\ journal' = journal \cup {x} /\ SameWork(x, op')
                 /\ x.id = nextId /\ x.phase = "prepared"
        BY <1>3, <2>1, Zenon
    <2>6. /\ mode = "serving" /\ pc = "journal"
          /\ \/ op' = NoOp /\ pc' = "idle" /\ journal' = journal
             \/ pc' = IF op.kind \in RemovingKinds THEN "phase" ELSE "prepare"
        BY DEF begin_recovery_operation, At, Reply
    <2>7. QED BY ONLY <2>2, <2>3, <2>4, <2>5, <2>6, Zenon
<1>4. CASE op' = NoOp /\ pc' = "idle" /\ journal' = journal
    BY <1>4 DEF begin_recovery_operation, At
<1>5. QED BY <1>3, <1>4 DEF begin_recovery_operation, Reply

(* Moving the row to its second phase keeps what it records. *)
LEMMA PhaseEffect ==
    ASSUME TypeOK, set_recovery_operation_phase
    PROVE  \A row \in journal' : \E was \in journal : SameWork(row, was)
<1>1. ASSUME NEW was \in journal
      PROVE  SameWork([was EXCEPT !.phase = "publishing"], was)
    BY DEF TypeOK, Rows, SameWork
<1>2. CASE journal' = journal
    BY <1>2 DEF SameWork
<1>3. CASE journal' = {IF row.id = op.id THEN [row EXCEPT !.phase = "publishing"] ELSE row :
                        row \in journal}
    <2>1. SUFFICES ASSUME NEW row \in journal' PROVE \E was \in journal : SameWork(row, was)
        OBVIOUS
    <2>2. PICK was \in journal :
              row = IF was.id = op.id THEN [was EXCEPT !.phase = "publishing"] ELSE was
        BY <1>3
    <2>3. SameWork(row, was)
        BY <1>1, <2>2 DEF SameWork
    <2>4. QED BY <2>3
<1>4. QED BY <1>2, <1>3 DEF set_recovery_operation_phase

(* Recovery takes an operation from its row. *)
LEMMA RecoverEffect ==
    ASSUME TypeOK, recover_next_operation
    PROVE  /\ mode = "recovering" /\ pc = "idle"
           /\ UNCHANGED <<upper, stage, tombDB, journal, nextId>>
           /\ \/ op' = NoOp /\ pc' = "idle" /\ mode' = "refused"
              \/ /\ mode' = "recovering"
                 /\ \E row \in journal :
                       /\ SameWork(op', row) /\ op'.id = row.id /\ row.path # Root
                       /\ pc' = IF row.phase = "prepared" THEN "discard"
                                ELSE IF row.kind \in RemovingKinds THEN "source" ELSE "publish"
<1>1. PICK row \in journal :
          \/ Refuse
          \/ /\ row.path # Root
             /\ op' = [id |-> row.id, kind |-> row.kind, path |-> row.path,
                       target |-> row.target, val |-> Blank, add |-> row.add, drop |-> row.drop]
             /\ pc' = IF row.phase = "prepared" THEN "discard"
                      ELSE IF row.kind \in RemovingKinds THEN "source" ELSE "publish"
             /\ UNCHANGED <<mode, storage, metadata>>
    BY DEF recover_next_operation, FirstRows
<1>2. mode = "recovering" /\ pc = "idle"
    BY DEF recover_next_operation, Recovering
<1>3. CASE Refuse
    BY <1>2, <1>3 DEF Refuse, storage, metadata
<1>4. CASE /\ row.path # Root
           /\ op' = [id |-> row.id, kind |-> row.kind, path |-> row.path,
                     target |-> row.target, val |-> Blank, add |-> row.add, drop |-> row.drop]
           /\ pc' = IF row.phase = "prepared" THEN "discard"
                    ELSE IF row.kind \in RemovingKinds THEN "source" ELSE "publish"
           /\ UNCHANGED <<mode, storage, metadata>>
    <2>1. SameWork(op', row) /\ op'.id = row.id
        BY <1>4 DEF SameWork
    <2>2. QED BY <1>2, <1>4, <2>1 DEF storage, metadata
<1>5. QED BY <1>1, <1>3, <1>4

-----------------------------------------------------------------------------
(* The parts, step by step. *)

(* Every step keeps tombstones to entries of the Base state. *)
LEMMA TombStep ==
    ASSUME TypeOK, TombInv, [Next]_vars
    PROVE  TombInv'
<1> USE NoOpFields DEF TombInv, SameWork, TombstonesNameBase, metadata, StoreTombstoned, HidesBase
<1>1. ASSUME NEW dir \in Paths, ReadDir(dir)
      PROVE  TombInv'
    BY <1>1 DEF ReadDir
<1>2. ASSUME NEW r \in Requests, BeginMutation(r)
      PROVE  TombInv'
    BY <1>2 DEF BeginMutation
<1>3. CASE create_missing_upper_parent_directories
    BY <1>3 DEF create_missing_upper_parent_directories, Reply
<1>3s. CASE sync_copied_directory
    BY <1>3s DEF sync_copied_directory, Reply
<1>4. CASE begin_recovery_operation
    BY <1>4, BeginEffect DEF begin_recovery_operation
<1>5. CASE prepare_stage
    BY <1>5 DEF prepare_stage
<1>6. CASE flush_stage
    BY <1>6 DEF flush_stage
<1>7. CASE set_recovery_operation_phase
    BY <1>7, PhaseEffect DEF set_recovery_operation_phase
<1>8. CASE publish_staged_operation
    BY <1>8 DEF publish_staged_operation
<1>9. CASE sync_destination
    BY <1>9 DEF sync_destination, Reply
<1>10. CASE remove_upper_source
    BY <1>10 DEF remove_upper_source, Reply
<1>11. CASE sync_source
    BY <1>11 DEF sync_source, Reply
<1>12. CASE finish_recovery_operation
    BY <1>12 DEF finish_recovery_operation, Reply
<1>13. CASE discard_stage
    BY <1>13 DEF discard_stage
<1>14. CASE abandon_recovery_operation
    BY <1>14 DEF abandon_recovery_operation, Reply
<1>15. CASE Crash
    BY <1>15 DEF Crash
<1>16. CASE Restart
    BY <1>16 DEF Restart
<1>17. CASE recover_next_operation
    BY <1>17, RecoverEffect
<1>18. CASE recover_rollback
    BY <1>18 DEF recover_rollback
<1>19. CASE publish_staged_entry
    BY <1>19 DEF publish_staged_entry, Refuse
<1>20. CASE recover_sync
    BY <1>20 DEF recover_sync
<1>21. CASE remove_upper_entry
    BY <1>21 DEF remove_upper_entry, Refuse
<1>22. CASE recover_sync_source
    BY <1>22 DEF recover_sync_source
<1>23. CASE recover_finish
    BY <1>23 DEF recover_finish
<1>24. CASE recover_error
    BY <1>24 DEF recover_error, Refuse
<1>25. CASE open_workspace
    BY <1>25 DEF open_workspace
<1>26. CASE UNCHANGED vars
    BY <1>26 DEF vars
<1>27. QED
    BY <1>1, <1>2, <1>3, <1>3s, <1>4, <1>5, <1>6, <1>7, <1>8, <1>9, <1>10, <1>11, <1>12, <1>13,
       <1>14, <1>15, <1>16, <1>17, <1>18, <1>19, <1>20, <1>21, <1>22, <1>23, <1>24, <1>25, <1>26
       DEF Next, Mutation, recover_interrupted_operations

(* Every step keeps the target of a rename outside its source. *)
LEMMA RenameStep ==
    ASSUME TypeOK, OperationInv, RenameInv, [Next]_vars
    PROVE  RenameInv'
<1> USE NoOpFields DEF RenameInv, SameWork, metadata
<1>1. ASSUME NEW dir \in Paths, ReadDir(dir)
      PROVE  RenameInv'
    BY <1>1 DEF ReadDir
<1>2. ASSUME NEW r \in Requests, BeginMutation(r)
      PROVE  RenameInv'
    <2>1. r.kind = "rename" => ~Under(r.path, r.target)
        BY <1>2 DEF BeginMutation, Admitted, CreatingKinds, RemovingKinds
    <2>2. QED BY <1>2, <2>1 DEF BeginMutation
<1>3. CASE create_missing_upper_parent_directories
    BY <1>3 DEF create_missing_upper_parent_directories, Reply
<1>3s. CASE sync_copied_directory
    BY <1>3s DEF sync_copied_directory, Reply
<1>4. CASE begin_recovery_operation
    BY <1>4, BeginEffect DEF begin_recovery_operation
<1>5. CASE prepare_stage
    BY <1>5 DEF prepare_stage
<1>6. CASE flush_stage
    BY <1>6 DEF flush_stage
<1>7. CASE set_recovery_operation_phase
    BY <1>7, PhaseEffect DEF set_recovery_operation_phase
<1>8. CASE publish_staged_operation
    BY <1>8 DEF publish_staged_operation
<1>9. CASE sync_destination
    BY <1>9 DEF sync_destination, Reply
<1>10. CASE remove_upper_source
    BY <1>10 DEF remove_upper_source, Reply
<1>11. CASE sync_source
    BY <1>11 DEF sync_source, Reply
<1>12. CASE finish_recovery_operation
    BY <1>12 DEF finish_recovery_operation, Reply
<1>13. CASE discard_stage
    BY <1>13 DEF discard_stage
<1>14. CASE abandon_recovery_operation
    BY <1>14 DEF abandon_recovery_operation, Reply
<1>15. CASE Crash
    BY <1>15 DEF Crash
<1>16. CASE Restart
    BY <1>16 DEF Restart
<1>17. CASE recover_next_operation
    BY <1>17, RecoverEffect
<1>18. CASE recover_rollback
    BY <1>18 DEF recover_rollback
<1>19. CASE publish_staged_entry
    BY <1>19 DEF publish_staged_entry, Refuse
<1>20. CASE recover_sync
    BY <1>20 DEF recover_sync
<1>21. CASE remove_upper_entry
    BY <1>21 DEF remove_upper_entry, Refuse
<1>22. CASE recover_sync_source
    BY <1>22 DEF recover_sync_source
<1>23. CASE recover_finish
    BY <1>23 DEF recover_finish
<1>24. CASE recover_error
    BY <1>24 DEF recover_error, Refuse
<1>25. CASE open_workspace
    BY <1>25 DEF open_workspace
<1>26. CASE UNCHANGED vars
    BY <1>26 DEF vars
<1>27. QED
    BY <1>1, <1>2, <1>3, <1>3s, <1>4, <1>5, <1>6, <1>7, <1>8, <1>9, <1>10, <1>11, <1>12, <1>13,
       <1>14, <1>15, <1>16, <1>17, <1>18, <1>19, <1>20, <1>21, <1>22, <1>23, <1>24, <1>25, <1>26
       DEF Next, Mutation, recover_interrupted_operations

(* Every step keeps the targets of renames bare. *)
LEMMA TargetStep ==
    ASSUME TypeOK, TargetInv, [Next]_vars
    PROVE  TargetInv'
<1> USE NoOpFields DEF TargetInv, BareTargets, SameWork, metadata
<1>1. ASSUME NEW dir \in Paths, ReadDir(dir)
      PROVE  TargetInv'
    BY <1>1 DEF ReadDir
<1>2. ASSUME NEW r \in Requests, BeginMutation(r)
      PROVE  TargetInv'
    BY <1>2 DEF BeginMutation
<1>3. CASE create_missing_upper_parent_directories
    BY <1>3 DEF create_missing_upper_parent_directories, Reply
<1>3s. CASE sync_copied_directory
    BY <1>3s DEF sync_copied_directory, Reply
<1>4. CASE begin_recovery_operation
    BY <1>4, BeginEffect DEF begin_recovery_operation
<1>5. CASE prepare_stage
    BY <1>5 DEF prepare_stage
<1>6. CASE flush_stage
    BY <1>6 DEF flush_stage
<1>7. CASE set_recovery_operation_phase
    BY <1>7, PhaseEffect DEF set_recovery_operation_phase
<1>8. CASE publish_staged_operation
    BY <1>8 DEF publish_staged_operation
<1>9. CASE sync_destination
    BY <1>9 DEF sync_destination, Reply
<1>10. CASE remove_upper_source
    BY <1>10 DEF remove_upper_source, Reply
<1>11. CASE sync_source
    BY <1>11 DEF sync_source, Reply
<1>12. CASE finish_recovery_operation
    BY <1>12 DEF finish_recovery_operation, Reply
<1>13. CASE discard_stage
    BY <1>13 DEF discard_stage
<1>14. CASE abandon_recovery_operation
    BY <1>14 DEF abandon_recovery_operation, Reply
<1>15. CASE Crash
    BY <1>15 DEF Crash
<1>16. CASE Restart
    BY <1>16 DEF Restart
<1>17. CASE recover_next_operation
    BY <1>17, RecoverEffect
<1>18. CASE recover_rollback
    BY <1>18 DEF recover_rollback
<1>19. CASE publish_staged_entry
    BY <1>19 DEF publish_staged_entry, Refuse
<1>20. CASE recover_sync
    BY <1>20 DEF recover_sync
<1>21. CASE remove_upper_entry
    BY <1>21 DEF remove_upper_entry, Refuse
<1>22. CASE recover_sync_source
    BY <1>22 DEF recover_sync_source
<1>23. CASE recover_finish
    BY <1>23 DEF recover_finish
<1>24. CASE recover_error
    BY <1>24 DEF recover_error, Refuse
<1>25. CASE open_workspace
    BY <1>25 DEF open_workspace
<1>26. CASE UNCHANGED vars
    BY <1>26 DEF vars
<1>27. QED
    BY <1>1, <1>2, <1>3, <1>3s, <1>4, <1>5, <1>6, <1>7, <1>8, <1>9, <1>10, <1>11, <1>12, <1>13,
       <1>14, <1>15, <1>16, <1>17, <1>18, <1>19, <1>20, <1>21, <1>22, <1>23, <1>24, <1>25, <1>26
       DEF Next, Mutation, recover_interrupted_operations

(* Every step keeps what an operation has yet to publish, and what it published. *)
LEMMA PresentStep ==
    ASSUME TypeOK, OperationInv, RenameInv, StageInv, PresentInv, [Next]_vars
    PROVE  PresentInv'
<1> USE NoOpFields, BoundsAssumption DEF PresentInv, Published, At, Recovering, storage, metadata
<1>1. ASSUME NEW dir \in Paths, ReadDir(dir)
      PROVE  PresentInv'
    BY <1>1 DEF ReadDir
<1>2. ASSUME NEW r \in Requests, BeginMutation(r)
      PROVE  PresentInv'
    <2>1. r.kind \in CopyingKinds => Exists(View, r.path)
        BY <1>2 DEF BeginMutation, Admitted, CopyingKinds, CreatingKinds, RemovingKinds
    <2>2. View' = View
        BY <1>2 DEF BeginMutation, View, VisibleIn, base_is_visible
    <2>3. QED BY <1>2, <2>1, <2>2 DEF BeginMutation
<1>3. CASE create_missing_upper_parent_directories
    <2>1. \/ op' = op /\ pc' \in {"parents", "syncparents", "journal"}
          \/ op' = NoOp /\ pc' = "idle"
        BY <1>3 DEF create_missing_upper_parent_directories, Reply, Fault
    <2>2. op.path \in Paths /\ mode = "serving" /\ pc = "parents"
        BY <1>3 DEF TypeOK, Operations, create_missing_upper_parent_directories
    <2>3. op.kind \in CopyingKinds => Exists(View', op.path)
        BY <1>3, <2>2, ParentsKeepView DEF Exists
    <2>4. QED BY <2>1, <2>3
<1>3s. CASE sync_copied_directory
    <2>1. View' = View
        BY <1>3s DEF sync_copied_directory, View, VisibleIn, base_is_visible
    <2>2. QED BY <1>3s, <2>1 DEF sync_copied_directory, Reply
<1>4. CASE begin_recovery_operation
    <2>1. View' = View
        BY <1>4 DEF begin_recovery_operation, View, VisibleIn, base_is_visible
    <2>2. op.kind \in CopyingKinds => op.kind \notin RemovingKinds
        BY DEF CopyingKinds, RemovingKinds
    <2>3. CASE op' = NoOp /\ pc' = "idle"
        BY <2>3
    <2>4. CASE /\ op'.kind = op.kind /\ op'.path = op.path /\ op'.target = op.target
               /\ pc' = IF op.kind \in RemovingKinds THEN "phase" ELSE "prepare"
        <3>1. op.kind \in StagedKinds => op.kind \notin RemovingKinds
            BY DEF StagedKinds, RemovingKinds, CreatingKinds, ReplacingKinds
        <3>2. QED BY <1>4, <2>1, <2>2, <2>4, <3>1, BeginEffect
    <2>5. QED BY <1>4, <2>3, <2>4, BeginEffect
<1>5. CASE prepare_stage
    <2>1. View' = View /\ op' = op /\ op \in Operations /\ upper \in Trees /\ op.id \in Ids
        BY <1>5 DEF prepare_stage, View, VisibleIn, base_is_visible, TypeOK, OperationInv, Steps
    <2>2. CASE CanStage(op) /\ stage' = [stage EXCEPT ![op.id] = Staged(op)] /\ pc' = "flush"
        <3>1. op.kind \in StagedKinds => Exists(Staged(op), Destination(op))
            BY <1>5, <2>1, <2>2, StagedHangs DEF prepare_stage
        <3>2. stage'[op.id] = Staged(op)
            BY <2>1, <2>2 DEF TypeOK
        <3>3. Destination(op)' = Destination(op)
            BY <2>1 DEF Destination
        <3>4. QED BY <2>1, <2>2, <3>1, <3>2, <3>3 DEF Exists
    <2>3. CASE pc' = "discard"
        BY <1>5, <2>1, <2>3
    <2>4. QED BY <1>5, <2>2, <2>3 DEF prepare_stage
<1>6. CASE flush_stage
    <2>1. Destination(op)' = Destination(op)
        BY <1>6 DEF Destination, flush_stage
    <2>2. QED BY <1>6, <2>1 DEF flush_stage, Exists
<1>7. CASE set_recovery_operation_phase
    <2>1. Destination(op)' = Destination(op)
        BY <1>7 DEF Destination, set_recovery_operation_phase
    <2>2. op.kind \in RemovingKinds => op.kind # "rename"
        BY DEF RemovingKinds
    <2>3. QED BY <1>7, <2>1, <2>2 DEF set_recovery_operation_phase, Exists
<1>8. CASE publish_staged_operation
    <2>1. op.id \in Ids /\ op.target \in Paths /\ op' = op /\ mode' = mode /\ mode = "serving"
        BY <1>8 DEF publish_staged_operation, OperationInv, Steps, TypeOK, Operations
    <2>2. CASE upper' = Overlay(upper, stage[op.id], Destination(op)) /\ pc' = "sync"
        <3>1. op.kind = "rename" => Exists(stage[op.id], op.target) /\ Destination(op) = op.target
            BY <1>8 DEF publish_staged_operation, Destination, StagedKinds
        <3>2. Under(op.target, op.target)
            BY <2>1, UnderReflexive
        <3>3. op.kind = "rename" => Exists(upper', op.target)
            BY <2>1, <2>2, <3>1, <3>2 DEF Overlay, Exists
        <3>4. QED BY <2>1, <2>2, <3>3
    <2>3. CASE pc' = "discard"
        BY <2>1, <2>3
    <2>4. QED BY <1>8, <2>2, <2>3 DEF publish_staged_operation
<1>9. CASE sync_destination
    BY <1>9 DEF sync_destination, Reply
<1>10. CASE remove_upper_source
    <2>1. op.kind = "rename" => op.target # op.path
        BY UnderReflexive DEF RenameInv, TypeOK, Operations
    <2>2. op.path \in Paths /\ op.target \in Paths /\ upper \in Trees
        BY DEF TypeOK, Operations
    <2>3. ASSUME NEW q \in RemovableLeaf(upper, op.path), upper' = [upper EXCEPT ![q] = Absent],
                 op.kind = "rename"
          PROVE  upper'[op.target] = upper[op.target]
        BY <2>2, <2>3 DEF RemovableLeaf, RenameInv, Trees
    <2>4. op' = op \/ (op' = NoOp /\ pc' = "idle")
        BY <1>10 DEF remove_upper_source, Reply
    <2>5. op.kind = "rename" => upper'[op.target] = upper[op.target]
        BY <1>10, <2>3 DEF remove_upper_source, Reply
    <2>6. mode' = mode /\ mode = "serving" /\ pc = "source"
          /\ pc' \in {"finish", "syncsource", "source", "abandon", "idle"}
        BY <1>10 DEF remove_upper_source, Reply
    <2>7. QED BY <2>4, <2>5, <2>6 DEF Exists
<1>11. CASE sync_source
    BY <1>11 DEF sync_source, Reply
<1>12. CASE finish_recovery_operation
    BY <1>12 DEF finish_recovery_operation, Reply
<1>13. CASE discard_stage
    BY <1>13 DEF discard_stage
<1>14. CASE abandon_recovery_operation
    BY <1>14 DEF abandon_recovery_operation, Reply
<1>15. CASE Crash
    BY <1>15 DEF Crash
<1>16. CASE Restart
    BY <1>16 DEF Restart
<1>17. CASE recover_next_operation
    <2>1. CASE op' = NoOp /\ pc' = "idle" /\ mode' = "refused"
        BY <2>1
    <2>2. CASE /\ mode' = "recovering" /\ pc' \in {"discard", "source", "publish"}
               /\ \E row \in journal :
                     SameWork(op', row) /\ (pc' = "source" => row.kind \in RemovingKinds)
        BY <2>2 DEF SameWork, RemovingKinds
    <2>3. QED BY <1>17, <2>1, <2>2, RecoverEffect
<1>18. CASE recover_rollback
    BY <1>18 DEF recover_rollback
<1>19. CASE publish_staged_entry
    <2>1. op.id \in Ids /\ op.target \in Paths /\ mode = "recovering"
        BY <1>19 DEF publish_staged_entry, OperationInv, Steps, TypeOK, Operations
    <2>2. op.kind = "rename" => Destination(op) = op.target
        BY DEF Destination
    <2>3. CASE /\ upper' = Overlay(WithParents(upper, Destination(op)), stage[op.id], Destination(op))
               /\ Exists(stage[op.id], Destination(op))
               /\ pc' = "sync" /\ op' = op /\ mode' = mode
        <3>1. Under(op.target, op.target)
            BY <2>1, UnderReflexive
        <3>2. op.kind = "rename" => Exists(upper', op.target)
            BY <2>1, <2>2, <2>3, <3>1 DEF Overlay, Exists
        <3>3. QED BY <2>1, <2>3, <3>2
    <2>4. CASE /\ Exists(upper, Destination(op)) /\ upper' = upper
               /\ pc' = "sync" /\ op' = op /\ mode' = mode
        BY <2>1, <2>2, <2>4
    <2>5. CASE Refuse
        BY <2>5 DEF Refuse
    <2>6. QED BY <1>19, <2>3, <2>4, <2>5 DEF publish_staged_entry
<1>20. CASE recover_sync
    BY <1>20 DEF recover_sync
<1>21. CASE remove_upper_entry
    <2>1. op.path \in Paths /\ op.target \in Paths /\ upper \in Trees
        BY DEF TypeOK, Operations
    <2>2. ASSUME NEW q \in RemovableLeaf(upper, op.path), upper' = [upper EXCEPT ![q] = Absent],
                 op.kind = "rename"
          PROVE  upper'[op.target] = upper[op.target]
        BY <2>1, <2>2 DEF RemovableLeaf, RenameInv, Trees
    <2>3. op.kind = "rename" => upper'[op.target] = upper[op.target]
        BY <1>21, <2>2 DEF remove_upper_entry, Refuse
    <2>4. mode = "recovering" /\ pc = "source" /\ ((op' = op /\ mode' = mode) \/ pc' = "idle")
        BY <1>21 DEF remove_upper_entry, Refuse
    <2>5. mode' # "serving"
        BY <1>21 DEF remove_upper_entry, Refuse
    <2>6. QED BY <2>3, <2>4, <2>5 DEF Exists
<1>22. CASE recover_sync_source
    BY <1>22 DEF recover_sync_source
<1>23. CASE recover_finish
    BY <1>23 DEF recover_finish
<1>24. CASE recover_error
    BY <1>24 DEF recover_error, Refuse
<1>25. CASE open_workspace
    BY <1>25 DEF open_workspace
<1>26. CASE UNCHANGED vars
    <2>1. View' = View /\ Destination(op)' = Destination(op)
        BY <1>26 DEF vars, View, VisibleIn, base_is_visible, Destination
    <2>2. QED BY <1>26, <2>1 DEF vars, Exists
<1>27. QED
    BY <1>1, <1>2, <1>3, <1>3s, <1>4, <1>5, <1>6, <1>7, <1>8, <1>9, <1>10, <1>11, <1>12, <1>13,
       <1>14, <1>15, <1>16, <1>17, <1>18, <1>19, <1>20, <1>21, <1>22, <1>23, <1>24, <1>25, <1>26
       DEF Next, Mutation, recover_interrupted_operations

(* Every step keeps the recovery directory clear of anything else. *)
LEMMA StageStep ==
    ASSUME TypeOK, OperationInv, PresentInv, StageInv, [Next]_vars
    PROVE  StageInv'
<1> USE NoOpFields, NoOpStage
    DEF StageInv, OnlyOwnStage, Published, At, Recovering, storage, metadata, history
<1>1. ASSUME NEW dir \in Paths, ReadDir(dir)
      PROVE  StageInv'
    BY <1>1 DEF ReadDir
<1>2. ASSUME NEW r \in Requests, BeginMutation(r)
      PROVE  StageInv'
    BY <1>2 DEF BeginMutation
<1>3. CASE create_missing_upper_parent_directories
    <2>1. \/ op' = op /\ pc' \in {"parents", "syncparents", "journal"}
          \/ op' = NoOp /\ pc' = "idle"
        BY <1>3 DEF create_missing_upper_parent_directories, Reply, Fault
    <2>2. stage' = stage /\ mode = "serving" /\ pc = "parents" /\ nextId' = nextId /\ left' = left
        BY <1>3 DEF create_missing_upper_parent_directories, Reply, history
    <2>3. QED BY <2>1, <2>2
<1>3s. CASE sync_copied_directory
    BY <1>3s DEF sync_copied_directory, Reply
<1>4. CASE begin_recovery_operation
    <2>1. /\ stage' = stage /\ mode' = "serving" /\ op.id = 0 /\ op.kind \in Kinds
          /\ nextId \in Ids /\ left' = left
        BY <1>4, BoundsAssumption DEF begin_recovery_operation, OperationInv, TypeOK, Ids, Reply
    <2>2. /\ \A i \in Ids \ left : stage[i] = EmptyTree
          /\ stage[nextId] = EmptyTree /\ nextId \notin left
        BY <1>4, <2>1 DEF begin_recovery_operation, TypeOK, Ids
    <2>3. CASE op' = NoOp /\ pc' = "idle"
        <3>1. nextId' = nextId \/ nextId' = nextId + 1
            BY <1>4 DEF begin_recovery_operation
        <3>2. QED BY <2>1, <2>2, <2>3, <3>1 DEF TypeOK, Ids
    <2>4. CASE /\ op'.kind = op.kind /\ op'.id = nextId /\ nextId' = nextId + 1
               /\ pc' = IF op.kind \in RemovingKinds THEN "phase" ELSE "prepare"
        <3>1. Hanging(stage'[op'.id], Destination(op)')
            BY <2>1, <2>2, <2>4, HangingEmpty
        <3>2. op.kind \notin RemovingKinds => op.kind \in StagedKinds
            BY <2>1 DEF Kinds
        <3>3. QED BY <2>1, <2>2, <2>4, <3>1, <3>2 DEF TypeOK, Ids
    <2>5. QED BY <1>4, <2>3, <2>4, BeginEffect
<1>5. CASE prepare_stage
    <2>1. /\ op' = op /\ mode' = "serving" /\ op \in Operations /\ upper \in Trees
          /\ op.id \in Ids /\ op.kind \in StagedKinds
        BY <1>5 DEF prepare_stage, TypeOK, OperationInv, Steps
    <2>2. Destination(op)' = Destination(op)
        BY <2>1 DEF Destination
    <2>3. CASE CanStage(op) /\ stage' = [stage EXCEPT ![op.id] = Staged(op)] /\ pc' = "flush"
        <3>1. Hanging(Staged(op), Destination(op))
            BY <1>5, <2>1, <2>3, StagedHangs DEF prepare_stage, PresentInv
        <3>2. stage'[op.id] = Staged(op) /\ \A i \in Ids : i # op.id => stage'[i] = stage[i]
            BY <2>1, <2>3 DEF TypeOK
        <3>3. QED BY <1>5, <2>1, <2>2, <2>3, <3>1, <3>2 DEF prepare_stage
    <2>4. CASE stage' = stage /\ pc' = "discard"
        <3>1. Hanging(stage'[op.id], Destination(op))
            BY <1>5, <2>4, HangingEmpty DEF prepare_stage
        <3>2. QED BY <1>5, <2>1, <2>2, <2>4, <3>1 DEF prepare_stage
    <2>5. QED BY <1>5, <2>3, <2>4 DEF prepare_stage
<1>6. CASE flush_stage
    <2>1. Destination(op)' = Destination(op)
        BY <1>6 DEF Destination, flush_stage
    <2>2. op.kind \in StagedKinds => op.kind \notin RemovingKinds
        BY DEF StagedKinds, RemovingKinds, CreatingKinds, ReplacingKinds
    <2>3. QED BY <1>6, <2>1, <2>2 DEF flush_stage
<1>7. CASE set_recovery_operation_phase
    <2>1. Destination(op)' = Destination(op)
        BY <1>7 DEF Destination, set_recovery_operation_phase
    <2>2. op.kind \in StagedKinds \cup RemovingKinds
        BY <1>7 DEF OperationInv, set_recovery_operation_phase, Kinds
    <2>3. QED BY <1>7, <2>1, <2>2 DEF set_recovery_operation_phase
<1>8. CASE publish_staged_operation
    <2>1. Destination(op)' = Destination(op) /\ op.id \in Ids
        BY <1>8 DEF Destination, publish_staged_operation, OperationInv, Steps
    <2>2. CASE stage' = [stage EXCEPT ![op.id] = EmptyTree] /\ pc' = "sync"
        <3>1. stage'[op.id] = EmptyTree /\ \A i \in Ids : i # op.id => stage'[i] = stage[i]
            BY <2>1, <2>2 DEF TypeOK
        <3>2. QED BY <1>8, <2>2, <3>1 DEF publish_staged_operation
    <2>3. CASE stage' = stage /\ pc' = "discard"
        BY <1>8, <2>1, <2>3 DEF publish_staged_operation
    <2>4. QED BY <1>8, <2>2, <2>3 DEF publish_staged_operation
<1>9. CASE sync_destination
    <2>1. \A i \in Ids \ left : stage[i] = EmptyTree
        BY <1>9 DEF sync_destination
    <2>2. stage[op.id] = EmptyTree /\ op.id < nextId
        BY <1>9 DEF sync_destination
    <2>3. mode' = "serving" /\ stage' = stage /\ left' = left /\ nextId' = nextId
        BY <1>9 DEF sync_destination, Reply
    <2>4. \/ op' = op /\ pc' \in {"source", "finish"}
          \/ op' = NoOp /\ pc' = "idle"
        BY <1>9 DEF sync_destination, Reply
    <2>5. QED BY <2>1, <2>2, <2>3, <2>4
<1>10. CASE remove_upper_source
    <2>1. \A i \in Ids \ left : stage[i] = EmptyTree
        BY <1>10 DEF remove_upper_source
    <2>2. stage[op.id] = EmptyTree /\ op.id < nextId
        BY <1>10 DEF remove_upper_source
    <2>3. mode' = "serving" /\ stage' = stage /\ left' = left /\ nextId' = nextId
        BY <1>10 DEF remove_upper_source, Reply
    <2>4. \/ op' = op /\ pc' \in {"finish", "syncsource", "source", "abandon"}
          \/ op' = NoOp /\ pc' = "idle"
        BY <1>10 DEF remove_upper_source, Reply
    <2>5. QED BY <2>1, <2>2, <2>3, <2>4
<1>11. CASE sync_source
    <2>1. \A i \in Ids \ left : stage[i] = EmptyTree
        BY <1>11 DEF sync_source
    <2>2. stage[op.id] = EmptyTree /\ op.id < nextId
        BY <1>11 DEF sync_source
    <2>3. mode' = "serving" /\ stage' = stage /\ left' = left /\ nextId' = nextId
        BY <1>11 DEF sync_source, Reply
    <2>4. \/ op' = op /\ pc' \in {"finish"}
          \/ op' = NoOp /\ pc' = "idle"
        BY <1>11 DEF sync_source, Reply
    <2>5. QED BY <2>1, <2>2, <2>3, <2>4
<1>12. CASE finish_recovery_operation
    <2>1. \A i \in Ids \ left : stage[i] = EmptyTree
        BY <1>12 DEF finish_recovery_operation
    <2>2. stage[op.id] = EmptyTree /\ op.id < nextId
        BY <1>12 DEF finish_recovery_operation
    <2>3. mode' = "serving" /\ stage' = stage /\ left' = left /\ nextId' = nextId
        BY <1>12 DEF finish_recovery_operation, Reply
    <2>4. op' = NoOp /\ pc' = "idle"
        BY <1>12 DEF finish_recovery_operation, Reply
    <2>5. QED BY <2>1, <2>2, <2>3, <2>4
<1>13. CASE discard_stage
    <2>1. /\ Destination(op)' = Destination(op) /\ op' = op /\ mode' = "serving"
          /\ op.id \in Ids /\ stage[op.id] \in Trees /\ Destination(op) \in Paths
        BY <1>13 DEF Destination, discard_stage, OperationInv, Steps, TypeOK, Operations
    <2>2. op.kind \in StagedKinds /\ Hanging(stage[op.id], Destination(op))
        BY <1>13 DEF discard_stage
    <2>3. CASE ~Exists(stage[op.id], Destination(op)) /\ pc' = "abandon" /\ stage' = stage
        <3>1. stage[op.id] = EmptyTree
            BY <2>1, <2>2, <2>3, HangingGone
        <3>2. QED BY <1>13, <2>1, <2>3, <3>1 DEF discard_stage
    <2>4. CASE /\ \E q \in RemovableLeaf(stage[op.id], Destination(op)) :
                     stage' = [stage EXCEPT ![op.id][q] = Absent]
               /\ pc' = pc
        <3>1. PICK q \in RemovableLeaf(stage[op.id], Destination(op)) :
                  stage' = [stage EXCEPT ![op.id][q] = Absent]
            BY <2>4
        <3>2. /\ stage'[op.id] = [stage[op.id] EXCEPT ![q] = Absent]
              /\ \A i \in Ids : i # op.id => stage'[i] = stage[i]
            BY <2>1, <3>1 DEF TypeOK
        <3>3. Hanging(stage'[op.id], Destination(op))
            BY <2>1, <2>2, <3>2, HangingRemoval
        <3>4. QED BY <1>13, <2>1, <2>2, <2>4, <3>2, <3>3 DEF discard_stage
    <2>5. CASE pc' = "abandon" /\ left' = left \cup {op.id} /\ stage' = stage
        BY <1>13, <2>1, <2>5 DEF discard_stage
    <2>6. QED BY <1>13, <2>3, <2>4, <2>5 DEF discard_stage
<1>14. CASE abandon_recovery_operation
    <2>1. \A i \in Ids \ left : stage[i] = EmptyTree
        BY <1>14 DEF abandon_recovery_operation
    <2>2. mode' = "serving" /\ stage' = stage
        BY <1>14 DEF abandon_recovery_operation
    <2>3. left' = left /\ nextId' = nextId
        BY <1>14 DEF abandon_recovery_operation, Reply
    <2>4. op' = NoOp /\ pc' = "idle"
        BY <1>14 DEF abandon_recovery_operation, Reply
    <2>5. QED BY <2>1, <2>2, <2>3, <2>4
<1>15. CASE Crash
    BY <1>15 DEF Crash
<1>16. CASE Restart
    BY <1>16 DEF Restart
<1>17. CASE recover_next_operation
    BY <1>17, RecoverEffect DEF recover_next_operation, RecoverySame
<1>18. CASE recover_rollback
    BY <1>18 DEF recover_rollback, RecoverySame
<1>19. CASE publish_staged_entry
    BY <1>19 DEF publish_staged_entry, Refuse, RecoverySame
<1>20. CASE recover_sync
    BY <1>20 DEF recover_sync, RecoverySame
<1>21. CASE remove_upper_entry
    BY <1>21 DEF remove_upper_entry, Refuse, RecoverySame
<1>22. CASE recover_sync_source
    BY <1>22 DEF recover_sync_source, RecoverySame
<1>23. CASE recover_finish
    BY <1>23 DEF recover_finish, RecoverySame
<1>24. CASE recover_error
    BY <1>24 DEF recover_error, Refuse
<1>25. CASE open_workspace
    <2>1. op = NoOp /\ pc = "idle"
        BY <1>25 DEF open_workspace, OperationInv
    <2>2. QED BY <1>25, <2>1 DEF open_workspace
<1>26. CASE UNCHANGED vars
    BY <1>26 DEF vars
<1>27. QED
    BY <1>1, <1>2, <1>3, <1>3s, <1>4, <1>5, <1>6, <1>7, <1>8, <1>9, <1>10, <1>11, <1>12, <1>13,
       <1>14, <1>15, <1>16, <1>17, <1>18, <1>19, <1>20, <1>21, <1>22, <1>23, <1>24, <1>25, <1>26
       DEF Next, Mutation, recover_interrupted_operations
-----------------------------------------------------------------------------
(* Results. *)

(* The parts hold together along every behaviour. *)
LEMMA StorageInvariance ==
    Spec => [](IInv /\ SInv)
<1>1. Init => SInv
    <2> SUFFICES ASSUME Init PROVE SInv
        OBVIOUS
    <2> USE NoOpFields, NoOpStage DEF Init
    <2>1. TombInv /\ RenameInv /\ TargetInv
        BY DEF TombInv, TombstonesNameBase, RenameInv, TargetInv
    <2>2. PresentInv
        BY DEF PresentInv, Published
    <2>3. StageInv
        BY DEF StageInv, OnlyOwnStage, Published
    <2>4. QED BY <2>1, <2>2, <2>3 DEF SInv
<1>2. IInv /\ SInv /\ [Next]_vars => SInv'
    BY TombStep, RenameStep, TargetStep, PresentStep, StageStep DEF IInv, SInv
<1>3. QED BY <1>1, <1>2, Invariance, PTL DEF Spec

(* Between mutations no staged data is left in the recovery directory,      *)
(* whatever failed or crashed before, however often, but for the stages     *)
(* whose own removal failed since the daemon started (left).                *)
THEOREM StagesReclaimed ==
    Spec => []NoStagedLeftovers
<1>1. IInv /\ SInv => NoStagedLeftovers
    BY NoOpStage DEF IInv, OperationInv, SInv, StageInv, OnlyOwnStage, NoStagedLeftovers, Quiet
<1>2. QED BY <1>1, StorageInvariance, PTL

(* Tombstones are only ever recorded for paths of the Base state, by the    *)
(* engine and by the recovery that replays its journal.                     *)
THEOREM TombstonesOfBase ==
    Spec => []TombstonesNameBase
<1>1. SInv => TombstonesNameBase
    BY DEF SInv, TombInv
<1>2. QED BY <1>1, StorageInvariance, PTL

(* The tombstone effects of an operation that has published its target      *)
(* uncover nothing.                                                         *)
LEMMA NothingUncovered ==
    ASSUME CaseDistinct, BareTargets, TypeOK, SInv, pc = "finish",
           upper' = upper, tombDB' = StoreTombstoned(tombDB, op),
           NEW p \in Paths,
           ~Exists(VisibleIn(upper, tombDB), p), Exists(VisibleIn(upper, tombDB), p)'
    PROVE  Exists(upper', p)
<1>1. SUFFICES ASSUME ~Exists(upper, p) PROVE FALSE
    OBVIOUS
<1>2. op \in Operations /\ op.target \in Paths /\ op.path \in Paths /\ tombDB \in SUBSET Paths
    BY DEF TypeOK, Operations
<1>3. tombDB' = Tombstoned(tombDB, op)
    BY <1>2, SameEffect
<1>4. Exists(Base, p) /\ base_is_visible(tombDB', p) /\ ~base_is_visible(tombDB, p)
    BY <1>1 DEF VisibleIn, Exists, Absent
<1>5. PICK t \in tombDB : Under(t, p)
    BY <1>4 DEF base_is_visible
<1>6. t \notin tombDB'
    BY <1>4, <1>5 DEF base_is_visible
<1>7. op.drop /\ Under(op.target, t)
    BY <1>3, <1>6 DEF Tombstoned
<1>8. op.kind = "rename" /\ t \in Paths
    BY <1>2, <1>7 DEF SInv, RenameInv
<1>9. Under(op.target, p)
    BY <1>2, <1>5, <1>7, <1>8, UnderTransitive
<1>10. p = op.target
    BY <1>4, <1>8, <1>9 DEF SInv, TargetInv, Beneath
<1>11. QED BY <1>1, <1>8, <1>10 DEF SInv, PresentInv, Published

(* A path that is not visible becomes visible only by getting an entry in   *)
(* the upper tree, through mutations, errors, crashes and recoveries alike, *)
(* if no two names differ in case only and no rename goes onto a path that  *)
(* has Base entries beneath it (with such a target it is not so: see the    *)
(* run engine_resurrects).                                                  *)
THEOREM NothingResurrected ==
    ASSUME CaseDistinct, BareTargets PROVE Spec => NoResurrection
<1>1. ASSUME TypeOK, SInv, [Next]_vars
      PROVE  [\A p \in Paths : /\ ~Exists(VisibleIn(upper, tombDB), p)
                               /\ Exists(VisibleIn(upper, tombDB), p)'
                               => Exists(upper', p)]_vars
    <2>1. CASE tombDB' = tombDB
        <3>1. ASSUME NEW p \in Paths, ~Exists(VisibleIn(upper, tombDB), p),
                     Exists(VisibleIn(upper, tombDB), p)'
              PROVE  Exists(upper', p)
            BY <2>1, <3>1 DEF VisibleIn, Exists, base_is_visible, Absent
        <3>2. QED BY <3>1
    <2>2. CASE pc = "finish" /\ upper' = upper /\ tombDB' = StoreTombstoned(tombDB, op)
        BY <1>1, <2>2, NothingUncovered
    <2> USE DEF metadata, storage
    <2>3. CASE (\E dir \in Paths : ReadDir(dir)) \/ (\E r \in Requests : BeginMutation(r))
        BY <2>1, <2>3 DEF ReadDir, BeginMutation
    <2>4. CASE Mutation
        BY <2>1, <2>2, <2>4 DEF Mutation, create_missing_upper_parent_directories,
           sync_copied_directory, begin_recovery_operation, prepare_stage, flush_stage, set_recovery_operation_phase,
           publish_staged_operation, sync_destination, remove_upper_source, sync_source,
           finish_recovery_operation, discard_stage, abandon_recovery_operation, At
    <2>5. CASE Crash \/ Restart \/ recover_error
        BY <2>1, <2>5 DEF Crash, Restart, recover_error, Refuse
    <2>6. CASE recover_interrupted_operations
        BY <2>1, <2>2, <2>6 DEF recover_interrupted_operations, recover_next_operation,
           recover_rollback, publish_staged_entry, recover_sync, remove_upper_entry,
           recover_sync_source, recover_finish, open_workspace, Recovering, Refuse
    <2>7. CASE UNCHANGED vars
        BY <2>7
    <2>8. QED BY <1>1, <2>3, <2>4, <2>5, <2>6, <2>7 DEF Next
<1>2. QED BY <1>1, StorageInvariance, PTL DEF Spec, IInv, NoResurrection
=============================================================================
