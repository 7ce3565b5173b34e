--------------------------- MODULE WorkspaceEngine ---------------------------
(***************************************************************************)
(* One Workspace: the sparse upper tree over an immutable Base state, the  *)
(* tombstones that hide Base entries, the journal of interrupted           *)
(* operations, the cache of directory listings, and the recovery that a    *)
(* starting daemon runs before it exposes the Workspace.                   *)
(*                                                                         *)
(* A mutation holds the engine's exclusive lock from its first check to    *)
(* its reply, so at most one is under way; its steps are separate actions  *)
(* because a crash may fall between any two of them and any fallible call  *)
(* may fail.  Readers hold the shared lock and see only states in which no *)
(* mutation is under way.                                                  *)
(***************************************************************************)
EXTENDS VisibleTree

CONSTANTS
    Base,           \* the immutable Base state
    FoldCase,       \* the lower-case form of a name
    FaultPoints,    \* the steps at which storage may report an error
    PowerLosses,    \* which crashes, by number, may lose unsynced changes
    MaxOps,         \* journal identifiers handed out
    MaxFaults,      \* storage errors
    MaxCrashes      \* crashes, of the process or of the machine

(* ino identifies the backing file: 0 in the Base state, the journal        *)
(* identifier of its operation for a staged entry; the ancestors copied up  *)
(* before there is one are numbered apart, above MaxOps.                    *)
Entries == [kind : {Leaf, Dir, Nothing}, val : Vals, ino : Nat]
Absent == [kind |-> Nothing, val |-> Blank, ino |-> 0]
Trees == [Paths -> Entries]
EmptyTree == [p \in Paths |-> Absent]

Ids == 1..MaxOps

Steps == {"parents", "syncparents", "journal", "prepare", "flush", "phase", "publish",
          "sync", "source", "syncsource", "finish", "discard", "abandon"}

ASSUME BaseAssumption ==
    /\ Base \in Trees
    /\ TreeShaped(Base)
    /\ \A p \in Paths : Base[p].ino = 0 /\ (Exists(Base, p) \/ Base[p] = Absent)

ASSUME FoldCaseAssumption == FoldCase \in [Names -> Names]

ASSUME BoundsAssumption ==
    /\ FaultPoints \subseteq Steps \cup {"recover"}
    /\ PowerLosses \subseteq Nat
    /\ MaxOps \in Nat /\ MaxFaults \in Nat /\ MaxCrashes \in Nat

VARIABLES
    upper,      \* the Workspace's private tree on disk
    tombDB,     \* tombstones in the metadata store
    tombMem,    \* tombstones the engine holds in memory
    journal,    \* recovery_operation rows
    stage,      \* staged entries, per identifier, already at their destination
    nextId,     \* the AUTOINCREMENT counter
    disk,       \* the upper tree and stages as last synced
    cache,      \* directory listings; {} is "not cached"
    mode,       \* "serving", "down", "recovering" or "refused"
    pc,         \* the next step of the mutation or recovery under way
    op,         \* the operation under way
    faults, crashes,        \* spent from the bounds
    old, new, result,       \* history: the view before the last mutation, the
                            \* view it asked for, and what its caller was told
    clean, durable,         \* history: when the last mutation began, no published
                            \* row, and no unsynced directory, of an earlier one
                            \* was left
    left                    \* history: stages that could not be discarded

storage == <<upper, stage, disk>>
metadata == <<tombDB, journal, nextId>>
history == <<old, new, result, clean, durable, left>>
vars == <<storage, metadata, tombMem, cache, mode, pc, op, faults, crashes, history>>

Rows == [id : Ids, kind : Kinds, path : Paths, target : Paths,
         phase : {"prepared", "publishing"}, add : BOOLEAN, drop : BOOLEAN]
Operations == [id : Nat, kind : Kinds \cup {"none"}, path : Paths, target : Paths,
               val : Vals, add : BOOLEAN, drop : BOOLEAN]
NoOp == [id |-> 0, kind |-> "none", path |-> Root, target |-> Root,
         val |-> Blank, add |-> FALSE, drop |-> FALSE]

-----------------------------------------------------------------------------
(* Resolution of a path through the layers. *)

(* Mutant: only a tombstone on the path itself hides it. *)
MutExactTombstone(tombs, p) == p \notin tombs

(* A tombstone hides the whole Base-state subtree beneath it. *)
base_is_visible(tombs, p) == ~\E t \in tombs : Under(t, p)

VisibleIn(up, tombs) ==
    [p \in Paths |-> IF Exists(up, p) THEN up[p]
                     ELSE IF base_is_visible(tombs, p) THEN Base[p] ELSE Absent]

View == VisibleIn(upper, tombMem)

Shape(e) == [kind |-> e.kind, val |-> e.val]
ShapeOf(tree) == [p \in Paths |-> Shape(tree[p])]

(* A listing reports each visible child with its inode and type. *)
merge_visible_directory_entries(tree, dir) ==
    {[path |-> c, kind |-> tree[c].kind, ino |-> tree[c].ino] : c \in Children(tree, dir)}

(* A cached listing is wrapped in a set, so that the listing of an empty     *)
(* directory differs from no listing at all.                                *)
Listing(tree, dir) == {merge_visible_directory_entries(tree, dir)}

(* Mutant: the parent's listing is kept. *)
MutKeepsParentListing(c, p) ==
    [d \in Paths |-> IF d = p \/ (p # Root /\ Under(p, d)) THEN {} ELSE c[d]]

(* The listings a mutation of p may change: its own, its parent's, and all  *)
(* beneath it.                                                              *)
forget_cached_directory_entries(c, p) ==
    [d \in Paths |-> IF d = p \/ (p # Root /\ (Under(p, d) \/ d = Parent(p)))
                     THEN {} ELSE c[d]]

(* The visible subtree at p, as materialize_visible_entry_at copies it to   *)
(* "to": it descends only through visible directories.                      *)
materialize_visible_entry_at(tree, p, to, ino) ==
    [q \in Paths |->
        LET s == Rebase(to, p, q)
        IN  IF /\ Under(to, q) /\ s \in Paths /\ Exists(tree, s)
               /\ \A r \in Paths : Under(p, r) /\ Beneath(r, s) => IsDir(tree, r)
            THEN [tree[s] EXCEPT !.ino = ino] ELSE Absent]

(* rename(2) of a staged entry over the upper entry at its destination.     *)
(* The upper root always holds the .git pointer, so it is never replaced.   *)
CanRename(up, staged, to) ==
    /\ to # Root /\ IsDir(up, Parent(to))
    /\ IF IsDir(staged, to)
       THEN Exists(up, to) => IsDir(up, to) /\ Children(up, to) = {}
       ELSE ~IsDir(up, to)

Overlay(up, staged, to) == [q \in Paths |-> IF Under(to, q) THEN staged[q] ELSE up[q]]

(* remove_all deletes bottom-up, one entry at a time. *)
RemovableLeaf(tree, p) == {q \in Paths : Under(p, q) /\ Exists(tree, q) /\ Children(tree, q) = {}}

(* fsync of a directory makes its own entries durable, and with an entry    *)
(* that was moved in or removed everything beneath it.  It is of no use      *)
(* while the directory itself would be lost.                                *)
Synced(dir) ==
    [q \in Paths |->
        LET c == SubSeq(q, 1, Len(dir) + 1)
        IN  IF /\ IsDir(disk.upper, dir)
               /\ Beneath(dir, q) /\ (q = c \/ upper[c] # disk.upper[c])
            THEN upper[q] ELSE disk.upper[q]]

(* Directories that were made and that a power loss would take away. *)
UnsyncedDirectories == {p \in Paths : IsDir(upper, p) /\ ~IsDir(disk.upper, p)}

-----------------------------------------------------------------------------
Init ==
    /\ upper = [EmptyTree EXCEPT ![Root] = Base[Root]]
    /\ tombDB = {} /\ tombMem = {} /\ journal = {}
    /\ stage = [i \in Ids |-> EmptyTree]
    /\ nextId = 1
    /\ disk = [upper |-> upper, stage |-> stage]
    /\ cache = [d \in Paths |-> {}]
    /\ mode = "serving" /\ pc = "idle" /\ op = NoOp
    /\ faults = 0 /\ crashes = 0
    /\ old = ShapeOf(Base) /\ new = ShapeOf(Base) /\ result = "ok"
    /\ clean = TRUE /\ durable = TRUE /\ left = {}

(* A call at step s reports a storage error. *)
Fault(s) ==
    /\ s \in FaultPoints
    /\ faults < MaxFaults
    /\ faults' = faults + 1

Reply(answer) ==
    /\ pc' = "idle" /\ op' = NoOp
    /\ result' = answer /\ UNCHANGED <<old, new, clean, durable, left>>

At(s) == mode = "serving" /\ pc = s

-----------------------------------------------------------------------------
(* Readers. *)

(* readdir fills the cache under the shared lock; a cached listing is       *)
(* returned as it is.  getattr and readlink read View and change nothing.   *)
ReadDir(dir) ==
    /\ At("idle")
    /\ cache[dir] = {}
    /\ IsDir(View, dir)
    /\ cache' = [cache EXCEPT ![dir] = Listing(View, dir)]
    /\ UNCHANGED <<storage, metadata, tombMem, mode, pc, op, faults, crashes, history>>

-----------------------------------------------------------------------------
(* A mutation, step by step. *)

BeginMutation(r) ==
    /\ At("idle")
    /\ nextId =< MaxOps
    /\ Admitted(View, r)
    /\ op' = [id |-> 0, kind |-> r.kind, path |-> r.path, target |-> r.target,
              val |-> r.val, add |-> FALSE, drop |-> FALSE]
    /\ pc' = IF r.kind \in RemovingKinds THEN "journal" ELSE "parents"
    /\ old' = ShapeOf(View) /\ new' = Applied(ShapeOf(View), r) /\ result' = "running"
    /\ clean' = ~\E row \in journal : row.phase = "publishing"
    /\ durable' = (UnsyncedDirectories = {})
    /\ UNCHANGED <<storage, metadata, tombMem, cache, mode, faults, crashes, left>>

(* The proper ancestors of the destination that are not upper directories. *)
ParentsToMake == {a \in Paths : Beneath(a, Destination(op)) /\ ~IsDir(upper, a)}
Outermost(S) == {a \in S : \A b \in S : Len(a) =< Len(b)}

(* Mutant: a removed Base directory is copied up again. *)
MutCopiesHiddenParent(dir) == ~Exists(upper, dir) /\ IsDir(Base, dir)

CanCopyUp(dir) ==
    ~Exists(upper, dir) /\ base_is_visible(tombMem, dir) /\ IsDir(Base, dir)

(* The next missing ancestor is copied up from the Base state, outermost    *)
(* first; an ancestor that is missing or no directory is an error.  An       *)
(* upper directory that is there already is passed over, synced or not.     *)
create_missing_upper_parent_directories ==
    /\ At("parents")
    /\ \/ /\ ParentsToMake = {}
          /\ pc' = "journal"
          /\ UNCHANGED <<storage, cache, op, faults, history>>
       \/ \E dir \in Outermost(ParentsToMake) :
            \/ /\ CanCopyUp(dir)
               /\ cache' = forget_cached_directory_entries(cache, dir)
               /\ upper' = [upper EXCEPT ![dir] = [Base[dir] EXCEPT !.ino = MaxOps + nextId]]
               /\ pc' = "syncparents"
               /\ UNCHANGED <<stage, disk, op, faults, history>>
            \/ /\ ~CanCopyUp(dir)
               /\ Reply("error")
               /\ UNCHANGED <<storage, cache, faults>>
            \/ /\ CanCopyUp(dir) /\ Fault("parents")
               /\ cache' = forget_cached_directory_entries(cache, dir)
               /\ Reply("error")
               /\ UNCHANGED storage
    /\ UNCHANGED <<metadata, tombMem, mode, crashes>>

(* Those that are; the one just made is the innermost. *)
ParentsThere == {a \in Paths : Beneath(a, Destination(op)) /\ IsDir(upper, a)}
Innermost(S) == {a \in S : \A b \in S : Len(b) =< Len(a)}

(* Its entry is synced.  An error leaves it in place, and no later mutation  *)
(* syncs it.                                                                *)
sync_copied_directory ==
    /\ At("syncparents")
    /\ \/ /\ \E dir \in Innermost(ParentsThere) :
                disk' = [disk EXCEPT !.upper = Synced(Parent(dir))]
          /\ pc' = "parents"
          /\ UNCHANGED <<op, faults, history>>
       \/ /\ Fault("syncparents") /\ Reply("error")
          /\ UNCHANGED disk
    /\ UNCHANGED <<upper, stage, metadata, tombMem, cache, mode, crashes>>

(* Mutant: removing an upper-only entry leaves a tombstone too. *)
MutTombstonesEverything(p) == base_is_visible(tombMem, p)

HidesBase(p) == base_is_visible(tombMem, p) /\ Exists(Base, p)

(* The row is committed before anything visible changes.  The listings the  *)
(* mutation affects are forgotten first.                                    *)
begin_recovery_operation ==
    LET started == [op EXCEPT !.id = nextId,
                              !.add = op.kind \in RemovingKinds \cup {"rename"} /\ HidesBase(op.path),
                              !.drop = op.kind = "rename"]
        row == [id |-> nextId, kind |-> op.kind, path |-> op.path, target |-> op.target,
                phase |-> "prepared", add |-> started.add, drop |-> started.drop]
        forgotten == forget_cached_directory_entries(cache, op.path)
    IN  /\ At("journal")
        /\ cache' = IF op.kind = "rename"
                    THEN forget_cached_directory_entries(forgotten, op.target) ELSE forgotten
        /\ \/ /\ journal' = journal \cup {row}
              /\ nextId' = nextId + 1
              /\ op' = started
              /\ pc' = IF op.kind \in RemovingKinds THEN "phase" ELSE "prepare"
              /\ UNCHANGED <<faults, history>>
           \/ /\ Fault("journal")
              /\ Reply("error")
              /\ UNCHANGED <<journal, nextId>>
        /\ UNCHANGED <<storage, tombDB, tombMem, mode, crashes>>

(* Mutant: a new entry is staged with a type that is not one of the two. *)
MutStagesSpecialFile(o) ==
    [EmptyTree EXCEPT ![Destination(o)] = [kind |-> "special", val |-> o.val, ino |-> o.id]]

(* What prepare_stage builds, already placed at its destination. *)
Staged(o) ==
    IF o.kind \in CreatingKinds
    THEN [EmptyTree EXCEPT ![o.path] =
            [kind |-> IF o.kind = "mkdir" THEN Dir ELSE Leaf, val |-> o.val, ino |-> o.id]]
    ELSE IF o.kind = "rename"
         THEN materialize_visible_entry_at(View, o.path, o.target, o.id)
         ELSE [materialize_visible_entry_at(View, o.path, o.path, o.id)
                 EXCEPT ![o.path].val = ValAfter(o, View[o.path].val)]

(* Only a write can find that its path has gone, or is a directory now. *)
CanStage(o) == o.kind = "write" => Exists(View, o.path) /\ ~IsDir(View, o.path)

prepare_stage ==
    /\ At("prepare")
    /\ \/ /\ CanStage(op)
          /\ stage' = [stage EXCEPT ![op.id] = Staged(op)]
          /\ pc' = "flush" /\ UNCHANGED faults
       \/ /\ ~CanStage(op)
          /\ pc' = "discard" /\ UNCHANGED <<stage, faults>>
       \/ /\ CanStage(op) /\ Fault("prepare")
          /\ pc' = "discard" /\ UNCHANGED stage
    /\ UNCHANGED <<upper, disk, metadata, tombMem, cache, mode, op, crashes, history>>

(* The staged tree and the recovery directory are synced. *)
flush_stage ==
    /\ At("flush")
    /\ \/ /\ disk' = [disk EXCEPT !.stage = stage]
          /\ pc' = "phase" /\ UNCHANGED faults
       \/ /\ Fault("flush")
          /\ pc' = "discard" /\ UNCHANGED disk
    /\ UNCHANGED <<upper, stage, metadata, tombMem, cache, mode, op, crashes, history>>

set_recovery_operation_phase ==
    /\ At("phase")
    /\ \/ /\ journal' = {IF row.id = op.id THEN [row EXCEPT !.phase = "publishing"] ELSE row :
                          row \in journal}
          /\ pc' = IF op.kind \in RemovingKinds THEN "source" ELSE "publish"
          /\ UNCHANGED faults
       \/ /\ Fault("phase")
          /\ pc' = IF op.kind \in RemovingKinds THEN "abandon" ELSE "discard"
          /\ UNCHANGED journal
    /\ UNCHANGED <<storage, tombDB, nextId, tombMem, cache, mode, op, crashes, history>>

(* The atomic rename; a refused or failing rename is rolled back. *)
publish_staged_operation ==
    LET to == Destination(op)
        renamed == CanRename(upper, stage[op.id], to)
    IN  /\ At("publish")
        /\ \/ /\ renamed
              /\ upper' = Overlay(upper, stage[op.id], to)
              /\ stage' = [stage EXCEPT ![op.id] = EmptyTree]
              /\ pc' = "sync" /\ UNCHANGED faults
           \/ /\ ~renamed
              /\ pc' = "discard" /\ UNCHANGED <<upper, stage, faults>>
           \/ /\ renamed /\ Fault("publish")
              /\ pc' = "discard" /\ UNCHANGED <<upper, stage>>
        /\ UNCHANGED <<disk, metadata, tombMem, cache, mode, op, crashes, history>>

(* Mutant: the destination's directory is not synced. *)
MutSkipsSync ==
    /\ At("sync")
    /\ pc' = IF op.kind = "rename" THEN "source" ELSE "finish"
    /\ UNCHANGED <<storage, op, faults, history, metadata, tombMem, cache, mode, crashes>>

(* The destination's directory is synced; an error is reported although the *)
(* new entry is visible, and the row stays.                                 *)
sync_destination ==
    /\ At("sync")
    /\ \/ /\ disk' = [upper |-> Synced(Parent(Destination(op))), stage |-> stage]
          /\ pc' = IF op.kind = "rename" THEN "source" ELSE "finish"
          /\ UNCHANGED <<op, faults, history>>
       \/ /\ Fault("sync") /\ Reply("late")
          /\ UNCHANGED disk
    /\ UNCHANGED <<upper, stage, metadata, tombMem, cache, mode, crashes>>

(* The renamed or removed entry leaves the upper tree, entry by entry.  A   *)
(* failing removal is abandoned; a failing rename keeps its row.            *)
remove_upper_source ==
    /\ At("source")
    /\ \/ /\ ~Exists(upper, op.path)
          /\ pc' = "finish"
          /\ UNCHANGED <<upper, op, faults, history>>
       \/ \E q \in RemovableLeaf(upper, op.path) :
            /\ upper' = [upper EXCEPT ![q] = Absent]
            /\ pc' = IF q = op.path THEN "syncsource" ELSE "source"
            /\ UNCHANGED <<op, faults, history>>
       \/ /\ Exists(upper, op.path) /\ Fault("source")
          /\ IF op.kind \in RemovingKinds
             THEN pc' = "abandon" /\ UNCHANGED <<op, history>>
             ELSE Reply("late")
          /\ UNCHANGED upper
    /\ UNCHANGED <<stage, disk, metadata, tombMem, cache, mode, crashes>>

sync_source ==
    /\ At("syncsource")
    /\ \/ /\ disk' = [disk EXCEPT !.upper = Synced(Parent(op.path))]
          /\ pc' = "finish"
          /\ UNCHANGED <<op, faults, history>>
       \/ /\ Fault("syncsource") /\ Reply("late")
          /\ UNCHANGED disk
    /\ UNCHANGED <<upper, stage, metadata, tombMem, cache, mode, crashes>>

(* The tombstone effects of an operation on the engine's set. *)
Tombstoned(tombs, o) ==
    LET added == IF o.add THEN tombs \cup {o.path} ELSE tombs
    IN  IF o.drop THEN {t \in added : ~Under(o.target, t)} ELSE added

(* path LIKE 'p/%': wildcards are escaped, but LIKE ignores case. *)
LikeBeneath(p, q) ==
    Len(p) < Len(q) /\ \A i \in 1..Len(p) : FoldCase[p[i]] = FoldCase[q[i]]

(* Mutant: the tombstones of the target's siblings are dropped as well. *)
MutDropsSiblings(tombs, o) ==
    LET added == IF o.add THEN tombs \cup {o.path} ELSE tombs
    IN  IF o.drop THEN {t \in added : ~Under(Parent(o.target), t)} ELSE added

(* Its effects on the tombstone table. *)
StoreTombstoned(tombs, o) ==
    LET added == IF o.add THEN tombs \cup {o.path} ELSE tombs
    IN  IF o.drop THEN {t \in added : t # o.target /\ ~LikeBeneath(o.target, t)} ELSE added

(* Mutant: the in-memory tombstones do not follow. *)
MutForgetsMemory ==
    /\ At("finish")
    /\ tombDB' = StoreTombstoned(tombDB, op)
    /\ journal' = {row \in journal : row.id # op.id}
    /\ Reply("ok")
    /\ UNCHANGED <<faults, storage, nextId, tombMem, cache, mode, crashes>>

(* One transaction; the in-memory tombstones follow. *)
finish_recovery_operation ==
    /\ At("finish")
    /\ \/ /\ tombDB' = StoreTombstoned(tombDB, op)
          /\ tombMem' = Tombstoned(tombMem, op)
          /\ journal' = {row \in journal : row.id # op.id}
          /\ Reply("ok")
          /\ UNCHANGED faults
       \/ /\ Fault("finish") /\ Reply("late")
          /\ UNCHANGED <<tombDB, tombMem, journal>>
    /\ UNCHANGED <<storage, nextId, cache, mode, crashes>>

(* abandon_before_publication: the stage goes first, unsynced.  Whether that *)
(* succeeded is not looked at: the row goes next, and what is left of the     *)
(* stage stays until a daemon starts.                                       *)
discard_stage ==
    /\ At("discard")
    /\ \/ /\ ~Exists(stage[op.id], Destination(op))
          /\ pc' = "abandon" /\ UNCHANGED <<stage, faults, left>>
       \/ \E q \in RemovableLeaf(stage[op.id], Destination(op)) :
            /\ stage' = [stage EXCEPT ![op.id][q] = Absent]
            /\ UNCHANGED <<pc, faults, left>>
       \/ /\ Exists(stage[op.id], Destination(op)) /\ Fault("discard")
          /\ pc' = "abandon" /\ left' = left \cup {op.id} /\ UNCHANGED stage
    /\ UNCHANGED <<upper, disk, metadata, tombMem, cache, mode, op, crashes>>
    /\ UNCHANGED <<old, new, result, clean, durable>>

(* The row goes last; whether that succeeded is not looked at. *)
abandon_recovery_operation ==
    /\ At("abandon")
    /\ Reply("error")
    /\ \/ journal' = {row \in journal : row.id # op.id} /\ UNCHANGED faults
       \/ Fault("abandon") /\ UNCHANGED journal
    /\ UNCHANGED <<storage, tombDB, nextId, tombMem, cache, mode, crashes>>

-----------------------------------------------------------------------------
(* Crash, restart and recovery. *)

(* The stage of a failed rename is being discarded, its row still says       *)
(* publishing.                                                               *)
RollingBackPublication ==
    /\ pc \in {"discard", "abandon"} /\ op.kind \in StagedKinds
    /\ \E row \in journal : row.id = op.id /\ row.phase = "publishing"

(* Memory is lost.  A machine crash may also lose what was not synced. *)
Crash ==
    /\ mode \in {"serving", "recovering"}
    /\ crashes < MaxCrashes
    /\ crashes' = crashes + 1
    /\ mode' = "down" /\ pc' = "idle" /\ op' = NoOp
    /\ tombMem' = {} /\ cache' = [d \in Paths |-> {}]
    /\ \/ UNCHANGED <<upper, stage>>
       \/ crashes' \in PowerLosses /\ upper' = disk.upper /\ stage' = disk.stage
    /\ result' = IF mode # "serving" \/ pc = "idle" THEN result
                 ELSE IF RollingBackPublication THEN "torn" ELSE "crashed"
    /\ UNCHANGED <<disk, metadata, faults, old, new, clean, durable, left>>

Restart ==
    /\ mode \in {"down", "refused"}
    /\ mode' = "recovering" /\ pc' = "idle" /\ op' = NoOp
    /\ UNCHANGED <<storage, metadata, tombMem, cache, faults, crashes, history>>

Recovering(s) == mode = "recovering" /\ pc = s

Refuse ==
    /\ mode' = "refused" /\ pc' = "idle" /\ op' = NoOp
    /\ UNCHANGED <<storage, metadata>>

RecoverySame == UNCHANGED <<tombMem, cache, faults, crashes, history>>

(* Rows are settled in the order of their identifiers. *)
FirstRows == {row \in journal : \A other \in journal : row.id =< other.id}

recover_next_operation ==
    /\ Recovering("idle")
    /\ \E row \in FirstRows :
       \/ /\ row.path = Root              \* "journal record contains an unsafe path"
          /\ Refuse
       \/ /\ row.path # Root
          /\ op' = [id |-> row.id, kind |-> row.kind, path |-> row.path, target |-> row.target,
                    val |-> Blank, add |-> row.add, drop |-> row.drop]
          /\ pc' = IF row.phase = "prepared" THEN "discard"
                   ELSE IF row.kind \in RemovingKinds THEN "source" ELSE "publish"
          /\ UNCHANGED <<mode, storage, metadata>>
    /\ RecoverySame

recover_rollback ==
    /\ Recovering("discard")
    /\ \/ \E q \in RemovableLeaf(stage[op.id], Destination(op)) :
            /\ stage' = [stage EXCEPT ![op.id][q] = Absent]
            /\ UNCHANGED <<journal, pc, op>>
       \/ /\ ~Exists(stage[op.id], Destination(op))
          /\ journal' = {row \in journal : row.id # op.id}
          /\ pc' = "idle" /\ op' = NoOp /\ UNCHANGED stage
    /\ RecoverySame
    /\ UNCHANGED <<upper, disk, tombDB, nextId, mode>>

WithParents(up, to) ==
    [q \in Paths |-> IF Beneath(q, to) /\ ~Exists(up, q)
                     THEN [kind |-> Dir, val |-> Blank, ino |-> op.id] ELSE up[q]]

(* Mutant: an entry that was published before the crash is an error. *)
MutRequiresStage ==
    LET to == Destination(op)
        renamed == Exists(stage[op.id], to) /\ CanRename(upper, stage[op.id], to)
    IN  /\ Recovering("publish")
        /\ \/ /\ renamed
              /\ upper' = Overlay(upper, stage[op.id], to)
              /\ stage' = [stage EXCEPT ![op.id] = EmptyTree]
              /\ pc' = "sync" /\ UNCHANGED <<mode, op, disk, metadata>>
           \/ ~renamed /\ Refuse
        /\ RecoverySame

(* create_directories of the destination's parents, which fails if one of   *)
(* them is no directory, then the rename; a stage that is gone must have    *)
(* been published already.                                                  *)
publish_staged_entry ==
    LET to == Destination(op)
        staged == Exists(stage[op.id], to)
        parents == WithParents(upper, to)
        renamed == /\ \A a \in Paths : Beneath(a, to) => IsDir(parents, a)
                   /\ CanRename(parents, stage[op.id], to)
    IN  /\ Recovering("publish")
        /\ \/ /\ staged /\ renamed
              /\ upper' = Overlay(parents, stage[op.id], to)
              /\ stage' = [stage EXCEPT ![op.id] = EmptyTree]
              /\ pc' = "sync" /\ UNCHANGED <<mode, op, disk, metadata>>
           \/ /\ ~staged /\ Exists(upper, to)
              /\ pc' = "sync" /\ UNCHANGED <<mode, op, storage, metadata>>
           \/ /\ staged /\ ~renamed          \* "cannot publish recovered entry"
              /\ Refuse
           \/ /\ ~staged /\ ~Exists(upper, to)   \* "both ... are missing"
              /\ Refuse
        /\ RecoverySame

(* Mutant: recovery leaves the source of a rename in place. *)
MutKeepsSource ==
    /\ Recovering("sync")
    /\ disk' = [upper |-> Synced(Parent(Destination(op))), stage |-> stage]
    /\ pc' = "finish"
    /\ RecoverySame /\ UNCHANGED <<upper, stage, metadata, mode, op>>

recover_sync ==
    /\ Recovering("sync")
    /\ disk' = [upper |-> Synced(Parent(Destination(op))), stage |-> stage]
    /\ pc' = IF op.kind = "rename" THEN "source" ELSE "finish"
    /\ RecoverySame /\ UNCHANGED <<upper, stage, metadata, mode, op>>

(* An entry that is already gone is not synced again.  remove() does not    *)
(* descend: it fails on a directory that has entries.                       *)
remove_upper_entry ==
    /\ Recovering("source")
    /\ \/ /\ ~Exists(upper, op.path)
          /\ pc' = "finish" /\ UNCHANGED <<mode, op, storage, metadata>>
       \/ \E q \in RemovableLeaf(upper, op.path) :
            /\ op.kind = "unlink" => q = op.path
            /\ upper' = [upper EXCEPT ![q] = Absent]
            /\ pc' = IF q = op.path THEN "syncsource" ELSE "source"
            /\ UNCHANGED <<mode, op, stage, disk, metadata>>
       \/ /\ op.kind = "unlink" /\ Children(upper, op.path) # {}
          /\ Refuse
    /\ RecoverySame

recover_sync_source ==
    /\ Recovering("syncsource")
    /\ disk' = [disk EXCEPT !.upper = Synced(Parent(op.path))]
    /\ pc' = "finish"
    /\ RecoverySame /\ UNCHANGED <<upper, stage, metadata, mode, op>>

(* Mutant: recovery deletes the row without its tombstone effects. *)
MutSettlesWithoutTombstones ==
    /\ Recovering("finish")
    /\ journal' = {row \in journal : row.id # op.id}
    /\ pc' = "idle" /\ op' = NoOp
    /\ RecoverySame /\ UNCHANGED <<storage, tombDB, nextId, mode>>

recover_finish ==
    /\ Recovering("finish")
    /\ tombDB' = StoreTombstoned(tombDB, op)
    /\ journal' = {row \in journal : row.id # op.id}
    /\ pc' = "idle" /\ op' = NoOp
    /\ RecoverySame /\ UNCHANGED <<storage, nextId, mode>>

(* Any call of recovery may fail; startup is then refused. *)
recover_error ==
    /\ mode = "recovering"
    /\ Fault("recover")
    /\ Refuse
    /\ UNCHANGED <<tombMem, cache, crashes, history>>

(* Mutant: leftover stages stay on disk. *)
MutKeepsLeftovers ==
    /\ Recovering("idle")
    /\ journal = {}
    /\ tombMem' = tombDB
    /\ mode' = "serving"
    /\ left' = {}
    /\ UNCHANGED <<storage, metadata, cache, pc, op, faults, crashes, old, new, result, clean, durable>>

(* Leftover stages are reclaimed and a fresh engine loads its tombstones. *)
open_workspace ==
    /\ Recovering("idle")
    /\ journal = {}
    /\ stage' = [i \in Ids |-> EmptyTree]
    /\ tombMem' = tombDB
    /\ mode' = "serving"
    /\ left' = {}
    /\ UNCHANGED <<upper, disk, metadata, cache, pc, op, faults, crashes, old, new, result, clean, durable>>

-----------------------------------------------------------------------------
Mutation ==
    \/ create_missing_upper_parent_directories
    \/ sync_copied_directory
    \/ begin_recovery_operation
    \/ prepare_stage
    \/ flush_stage
    \/ set_recovery_operation_phase
    \/ publish_staged_operation
    \/ sync_destination
    \/ remove_upper_source
    \/ sync_source
    \/ finish_recovery_operation
    \/ discard_stage
    \/ abandon_recovery_operation

recover_interrupted_operations ==
    \/ recover_next_operation
    \/ recover_rollback
    \/ publish_staged_entry
    \/ recover_sync
    \/ remove_upper_entry
    \/ recover_sync_source
    \/ recover_finish
    \/ open_workspace

Next ==
    \/ \E dir \in Paths : ReadDir(dir)
    \/ \E r \in Requests : BeginMutation(r)
    \/ Mutation
    \/ Crash
    \/ Restart
    \/ recover_interrupted_operations
    \/ recover_error

Spec == Init /\ [][Next]_vars

(* A mutation runs on its caller's thread and recovery on the daemon's main *)
(* thread; neither waits for anything.  The daemon is started again.        *)
FairSpec ==
    Spec /\ WF_vars(Mutation) /\ WF_vars(recover_interrupted_operations) /\ WF_vars(Restart)

-----------------------------------------------------------------------------
(* Properties. *)

(* Every variable keeps the type its representation in the code has. *)
TypeOK ==
    /\ upper \in Trees
    /\ tombDB \subseteq Paths /\ tombMem \subseteq Paths
    /\ journal \subseteq Rows
    /\ stage \in [Ids -> Trees]
    /\ nextId \in 1..(MaxOps + 1)
    /\ disk \in [upper : Trees, stage : [Ids -> Trees]]
    /\ cache \in [Paths -> SUBSET SUBSET [path : Paths, kind : {Leaf, Dir, Nothing}, ino : Nat]]
    /\ mode \in {"serving", "down", "recovering", "refused"}
    /\ pc \in Steps \cup {"idle"}
    /\ op \in Operations
    /\ faults \in 0..MaxFaults /\ crashes \in 0..MaxCrashes
    /\ result \in {"ok", "error", "late", "crashed", "torn", "running"}
    /\ clean \in BOOLEAN /\ durable \in BOOLEAN /\ left \subseteq Ids

(* The states callers can observe: no mutation holds the engine's lock. *)
Quiet == mode = "serving" /\ pc = "idle"

(* A mutation whose caller was told it succeeded is what the Workspace      *)
(* shows, now and after any later crash and recovery: neither losing        *)
(* unsynced changes nor replaying the journal takes it back.  Set aside: the *)
(* row of an earlier mutation was pending (not "clean",                      *)
(* AcknowledgedAlwaysSurvives), or a directory that an earlier mutation      *)
(* failed to sync was there (not "durable"), which a power loss takes away   *)
(* with what is in it.                                                      *)
AcknowledgedSurvives == Quiet /\ clean /\ durable /\ result = "ok" => ShapeOf(View) = new

(* What a mutation that succeeded changed stays changed, a pending row of   *)
(* an earlier mutation or not: an acknowledged mutation is already synced,  *)
(* and ADR 0005 has what was synced survive a restart.                      *)
AcknowledgedAlwaysSurvives ==
    Quiet /\ result = "ok" =>
        \A p \in Paths : old[p] # new[p] => Shape(View[p]) = new[p]

(* A mutation interrupted by a crash has, once recovery exposes the         *)
(* Workspace again, happened completely or not at all (ADR 0005: recovery   *)
(* must never expose a mixture of the old and the new state).  Set aside, as *)
(* "torn": a crash between discarding the stage of a publication that failed *)
(* and deleting its row, which recovery takes for a published one.           *)
(* Not covered, nor by LateErrorCompletes and ViewIsTree: a machine that     *)
(* loses unsynced changes while it recovers (2 is not in PowerLosses).       *)
RecoveredOldOrNew == Quiet /\ clean /\ durable /\ result = "crashed" => ShapeOf(View) \in {old, new}

(* A mutation that reported a storage error before its publication changed  *)
(* nothing its callers can see but times, the ancestors it may have copied   *)
(* up included, nor does a later restart or power loss.  One error: when     *)
(* deleting the abandoned row fails too, a restart may complete what the     *)
(* caller was told had failed.                                              *)
ErrorKeepsOldState == Quiet /\ clean /\ durable /\ result = "error" => ShapeOf(View) = old

(* A mutation that reported a storage error after its publication is not    *)
(* half done for good: once a restart has settled its row, it has happened. *)
LateErrorCompletes ==
    Quiet /\ clean /\ durable /\ result = "late" /\ journal = {} => ShapeOf(View) = new

(* A path that is not visible becomes visible only by getting an entry in   *)
(* the upper tree: a removed Base entry never shows through again, whatever *)
(* is re-created or moved around it.                                        *)
NoResurrection ==
    [][\A p \in Paths :
          /\ ~Exists(VisibleIn(upper, tombDB), p)
          /\ Exists(VisibleIn(upper, tombDB), p)'
          => Exists(upper', p)]_vars

(* The merged layers always form a tree: nothing is visible under a path    *)
(* that is missing or not a directory.                                      *)
ViewIsTree == Quiet => TreeShaped(View)

(* A listing served from the cache is the one a fresh merge of the layers   *)
(* would give, names, types and inodes included, although entries are       *)
(* forgotten before the mutation and not when it takes effect.              *)
CachedListingsCurrent ==
    Quiet => \A d \in Paths : cache[d] # {} => IsDir(View, d) /\ cache[d] = Listing(View, d)

(* The tombstones in memory are those a restart would load, also after      *)
(* errors in the middle of an operation: the table and the set in memory    *)
(* are changed by different code, SQL with LIKE and a prefix comparison.    *)
TombstonesAgree == mode = "serving" => tombMem = tombDB

(* Between mutations no staged data is left in the recovery directory,      *)
(* whatever failed or crashed before, but for stages whose own removal       *)
(* failed since the daemon started; none of them outlives a restart.        *)
NoStagedLeftovers == Quiet => \A i \in Ids \ left : stage[i] = EmptyTree

(* Tombstones are only ever recorded for paths of the Base state, so an     *)
(* entry that only the Workspace knew leaves no trace behind.               *)
TombstonesNameBase == \A t \in tombDB : Exists(Base, t)

(* A Project whose daemon is started again and again is eventually served:  *)
(* recovery terminates and never refuses for good (ADR 0005: Tribios must   *)
(* recover every interrupted Workspace mutation).                           *)
RecoveryCompletes == []<>(mode = "serving")

-----------------------------------------------------------------------------
(* Refinement of WorkspaceView.  A mutation takes effect when its rename or *)
(* removal happens, or when a crash leaves its row in phase publishing.     *)
Decided(row) ==
    /\ row.phase = "publishing"
    /\ \/ mode # "serving"
       \/ /\ row.id = op.id
          /\ \/ pc \in {"sync", "syncsource", "finish"}
             \/ pc = "source" /\ row.kind = "rename"

(* The tree recovery would make of the upper tree by settling a row. *)
Settled(row) ==
    LET to == Destination(row)
        published == IF row.kind \in StagedKinds /\ Exists(stage[row.id], to)
                     THEN Overlay(upper, stage[row.id], to) ELSE upper
        removed == [q \in Paths |-> IF row.kind \notin StagedKinds \ {"rename"} /\ Under(row.path, q)
                                    THEN Absent ELSE published[q]]
    IN  VisibleIn(removed, StoreTombstoned(tombDB, row))

SettledView ==
    IF \E row \in journal : Decided(row)
    THEN Settled(CHOOSE row \in journal : Decided(row))
    ELSE VisibleIn(upper, tombDB)

Abstract == INSTANCE WorkspaceView WITH BaseView <- ShapeOf(Base), view <- ShapeOf(SettledView)

(* The engine with its journal and recovery implements the abstract         *)
(* Workspace: callers see one tree on which every mutation is atomic, also  *)
(* across crashes, lost unsynced changes and interrupted recoveries.        *)
ImplementsView == Abstract!Spec
=============================================================================
