--------------------- MODULE WorkspaceRefinementProofs ---------------------
(***************************************************************************)
(* Machine-checked proof that WorkspaceEngine implements WorkspaceView: if  *)
(* journal, stages, tombstones and recovery are put aside, what callers see *)
(* is one tree, and every mutation is one step on it.                       *)
(*                                                                         *)
(* A mutation takes effect in the step that renames its stage into place or *)
(* takes the last of the removed entry away, or in the crash after which    *)
(* recovery will do so.  Until then what is shown is the history's old      *)
(* state, afterwards its new one (ShownInv); every other step is a stutter. *)
(* That rests on the invariant of WorkspaceCrashProofs and on SettledInv:   *)
(* no error leaves a row behind that recovery would publish.                *)
(***************************************************************************)
EXTENDS WorkspaceCrashProofs

(* Ordinary conditions; storage errors before the publication, while rolling *)
(* back and in recovery; and no change of mode or times of the root or of a  *)
(* path that may have entries beneath it, which rename(2) refuses after the  *)
(* row says publishing.                                                      *)
Unrefused ==
    /\ Ordinary
    /\ FaultPoints \subseteq
          {"parents", "journal", "prepare", "flush", "phase", "abandon", "recover"}
    /\ \A r \in Requests : r.kind \in {"chmod", "utimens"} =>
          r.path # Root /\ \A q \in Paths : ~Beneath(r.path, q)

(* The request an operation was made of. *)
Asked(o) == [kind |-> o.kind, path |-> o.path, target |-> o.target, val |-> o.val]

(* No row is left behind by an error, and what is rolled back was not        *)
(* published.                                                                *)
SettledInv ==
    /\ clean
    /\ result \in {"ok", "error", "crashed", "running"}
    /\ result = "error" => PublishingRows = {} /\ ShapeOf(StoredView) = old
    /\ mode = "serving" /\ pc # "idle" => Asked(op) \in Requests
    /\ mode = "serving" /\ pc \in {"discard", "abandon"} => PublishingRows = {}

(* The mutation under way has taken effect. *)
Effective == pc \in {"sync", "syncsource", "finish"} \/ (pc = "source" /\ op.kind = "rename")

(* What the abstract Workspace shows. *)
Shown == ShapeOf(SettledView)
ShownInv ==
    IF mode = "serving" /\ pc # "idle"
    THEN Shown = IF Effective THEN new ELSE old
    ELSE IF PublishingRows = {} THEN Shown = ShapeOf(StoredView) ELSE Shown = new

RefinementInv == ((IInv /\ SInv) /\ TombstonesAgree /\ CInv /\ DiskInv) /\ SettledInv
-----------------------------------------------------------------------------
(* The abstract Workspace. *)

(* The abstract Workspace speaks of trees and requests as the engine does.             *)
LEMMA SameOperators ==
    ASSUME NEW tree, NEW r
    PROVE  /\ Abstract!Admitted(tree, r) <=> Admitted(tree, r)
           /\ Abstract!Applied(tree, r) = Applied(tree, r)
BY DEF Admitted, Applied, Exists, IsDir, Children, Under, Rebase, Parent, Root, Nothing, Leaf, Dir,
       ReplacingKinds, CreatingKinds, RemovingKinds, NoShape, Blank,
       Abstract!Admitted, Abstract!Applied, Abstract!Exists, Abstract!IsDir, Abstract!Children,
       Abstract!Under, Abstract!Rebase, Abstract!Parent, Abstract!Root, Abstract!Nothing,
       Abstract!Leaf, Abstract!Dir, Abstract!ReplacingKinds, Abstract!CreatingKinds,
       Abstract!RemovingKinds, Abstract!NoShape, Abstract!Blank

(* What makes a change of the tree shown a mutation of the abstract Workspace.         *)
LEMMA AbstractStep ==
    ASSUME NEW r \in Requests, Admitted(Shown, r),
           Destination(r) # Root => IsDir(Shown, Parent(Destination(r))),
           r.kind = "write" => Exists(Shown, r.path) /\ ~IsDir(Shown, r.path),
           Shown' = Applied(Shown, r)
    PROVE  Abstract!Next
BY SameOperators
   DEF Shown, Destination, Root, IsDir, Exists, Parent, Nothing, Dir, Abstract!Next,
       Abstract!Mutate, Abstract!Destination, Abstract!Root, Abstract!IsDir, Abstract!Exists,
       Abstract!Parent, Abstract!Nothing, Abstract!Dir
-----------------------------------------------------------------------------
(* Publication is never refused. *)

(* The parent of a path other than the root is a path it lies beneath.                 *)
LEMMA ParentBeneath ==
    ASSUME NEW p \in Paths, p # Root
    PROVE  Parent(p) \in Paths /\ Beneath(Parent(p), p)
<1>1. p \in Seq(Names) /\ Len(p) \in Nat /\ Len(p) # 0
    BY PathsAssumption DEF Root
<1>2. Len(p) - 1 \in Nat /\ Len(p) - 1 =< Len(p) /\ Len(p) - 1 \in 0..Len(p)
    BY <1>1
<1>3. Parent(p) \in Paths
    BY <1>2, PathsAssumption DEF Parent
<1>4. Len(Parent(p)) = Len(p) - 1 /\ \A i \in 1..(Len(p) - 1) : Parent(p)[i] = p[i]
    BY <1>1, <1>2, PrefixProperties DEF Parent
<1>5. QED BY <1>1, <1>3, <1>4 DEF Beneath, Under

(* When no mutation is under way, no row is left that recovery would publish.          *)
LEMMA NothingPending ==
    ASSUME Unrefused, SettledInv, RunningInv, OutcomeInv, mode = "serving", pc = "idle"
    PROVE  PublishingRows = {}
BY DEF Unrefused, SettledInv, RunningInv, OutcomeInv, PublishingRows

(* The tree callers see has the upper tree's entries and is a tree.                    *)
LEMMA ViewFacts ==
    ASSUME TypeOK, TombstonesAgree, TreeInv, mode = "serving"
    PROVE  /\ View \in Trees /\ TreeShaped(View)
           /\ \A p \in Paths : Exists(upper, p) => View[p] = upper[p]
           /\ \A p \in Paths : Children(upper, p) \subseteq Children(View, p)
<1>1. View \in Trees
    BY VisibleType DEF TypeOK, View
<1>2. TreeShaped(View)
    BY ServedView DEF TreeInv
<1>3. \A p \in Paths : Exists(upper, p) => View[p] = upper[p]
    BY DEF View, VisibleIn
<1>4. QED BY <1>1, <1>2, <1>3 DEF Children, Exists

(* The rename of a staged entry is never refused: the checks before it leave nothing   *)
(* for rename(2) to object to.                                                         *)
LEMMA PublishAllowed ==
    ASSUME Unrefused, TypeOK, OperationInv, TombstonesAgree, TreeInv, WorkInv, ProgressInv,
           SettledInv, mode = "serving", pc = "publish"
    PROVE  CanRename(upper, stage[op.id], Destination(op))
<1> DEFINE to == Destination(op)
<1>1. /\ op.path \in Paths /\ op.target \in Paths /\ op.id \in Nat /\ to \in Paths
      /\ op.kind \in StagedKinds /\ EmptyTree \in Trees /\ op.val \in Vals
    BY ConstantTypes DEF TypeOK, Operations, ProgressInv, Destination
<1>2. /\ Admitted(View, op) /\ ParentsMade(op) /\ CanStage(op) /\ stage[op.id] = Staged(op)
    BY <1>1 DEF WorkInv, BeforeEffect, Unpublished, Steps, Published
<1>3. /\ View \in Trees /\ TreeShaped(View) /\ IsDir(View, Root) /\ Exists(View, Root)
      /\ \A p \in Paths : Exists(upper, p) => View[p] = upper[p]
      /\ \A p \in Paths : Children(upper, p) \subseteq Children(View, p)
    BY ViewFacts DEF TreeShaped, IsDir, Exists, Dir, Nothing
<1>4. Asked(op) \in Requests /\ Asked(op).kind = op.kind /\ Asked(op).path = op.path
    BY DEF SettledInv, Asked
<1>5. to # Root => IsDir(upper, Parent(to))
    <2>1. to # Root => Parent(to) \in Paths /\ Beneath(Parent(to), to)
        BY <1>1, ParentBeneath
    <2>2. QED BY <1>2, <2>1 DEF ParentsMade
<1>6. CASE op.kind \in CreatingKinds
    <2>1. to = op.path /\ ~Exists(View, to) /\ to # Root
        BY <1>2, <1>3, <1>6 DEF Admitted, CreatingKinds, Destination
    <2>2. ~Exists(upper, to) /\ ~IsDir(upper, to)
        BY <1>1, <1>3, <2>1 DEF Exists, IsDir, Dir, Nothing
    <2>3. QED BY <1>5, <2>1, <2>2 DEF CanRename
<1>7. CASE op.kind \in ReplacingKinds
    <2>1. to = op.path /\ Exists(View, to)
        BY <1>2, <1>7 DEF Admitted, CanStage, ReplacingKinds, CreatingKinds, Destination
    <2>2. op.kind \in {"write", "truncate"} => ~IsDir(View, to)
        BY <1>2, <2>1 DEF Admitted, CanStage, CreatingKinds
    <2>3. op.kind \in {"chmod", "utimens"} => to # Root /\ \A q \in Paths : ~Beneath(to, q)
        BY <1>4, <2>1 DEF Unrefused
    <2>4. to # Root
        BY <1>3, <1>7, <2>2, <2>3 DEF ReplacingKinds
    <2>5. stage[op.id][to].kind = View[to].kind
        <3> DEFINE copy == materialize_visible_entry_at(View, op.path, op.path, op.id)
        <3>1. Rebase(to, op.path, to) = op.path /\ Under(to, to)
            BY <1>1, <2>1, RebaseRoot, UnderReflexive
        <3>2. copy[to].kind = View[to].kind
            BY <1>1, <1>3, <2>1, <3>1, MaterializeShape
        <3>3. stage[op.id] = [copy EXCEPT ![op.path].val = ValAfter(op, View[op.path].val)] /\ copy \in Trees
            BY <1>1, <1>2, <1>3, <1>7, MaterializeType DEF Staged, CreatingKinds, ReplacingKinds
        <3> HIDE DEF copy
        <3>4. QED BY <1>1, <2>1, <3>2, <3>3 DEF Trees, Entries
    <2>6. Exists(upper, to) => View[to] = upper[to]
        BY <1>1, <1>3
    <2>7. IsDir(View, to) => Children(upper, to) = {}
        <3>1. SUFFICES ASSUME IsDir(View, to), NEW q \in Children(upper, to)
                       PROVE  FALSE
            OBVIOUS
        <3>2. q \in Paths /\ q # Root /\ Parent(q) = to
            BY DEF Children
        <3>3. Beneath(to, q)
            BY <3>2, ParentBeneath
        <3>4. QED BY <1>7, <2>2, <2>3, <3>1, <3>2, <3>3 DEF ReplacingKinds
    <2> HIDE DEF to
    <2>8. QED
        BY <1>5, <2>4, <2>5, <2>6, <2>7 DEF CanRename, IsDir, Exists, Dir, Nothing, to
<1>8. CASE op.kind = "rename"
    <2>1. /\ to = op.target /\ to # Root /\ Exists(View, op.path)
          /\ Exists(View, to) => /\ IsDir(View, op.path) <=> IsDir(View, to)
                                 /\ IsDir(View, to) => Children(View, to) = {}
        BY <1>2, <1>8 DEF Admitted, Destination, CreatingKinds, RemovingKinds
    <2>2. stage[op.id][to].kind = View[op.path].kind
        <3>1. Rebase(to, op.path, to) = op.path /\ Under(to, to)
            BY <1>1, RebaseRoot, UnderReflexive
        <3>2. stage[op.id] = materialize_visible_entry_at(View, op.path, to, op.id)
            BY <1>2, <1>8, <2>1 DEF Staged, CreatingKinds
        <3>3. QED BY <1>1, <1>3, <2>1, <3>1, <3>2, MaterializeShape
    <2>3. Exists(upper, to) => View[to] = upper[to]
        BY <1>1, <1>3
    <2>4. Children(View, to) = {} => Children(upper, to) = {}
        BY <1>1, <1>3
    <2> HIDE DEF to
    <2>5. QED
        BY <1>5, <2>1, <2>2, <2>3, <2>4 DEF CanRename, IsDir, Exists, Dir, Nothing, to
<1>9. QED BY <1>1, <1>6, <1>7, <1>8 DEF StagedKinds
-----------------------------------------------------------------------------
(* Nothing is left behind. *)

(* Until its row says publishing, a mutation leaves nothing for recovery to publish.   *)
LEMMA PreparedAlone ==
    ASSUME RowInv, RunningInv, SettledInv, mode = "serving", pc \in {"prepare", "flush", "phase"}
    PROVE  PublishingRows = {}
<1>1. PublishingRows \subseteq {row \in journal : row.id = op.id}
    BY DEF RunningInv, SettledInv
<1>2. \A row \in journal : row.id = op.id => row.phase # "publishing"
    BY OwnRow
<1>3. QED BY <1>1, <1>2 DEF PublishingRows

(* So does one that has not journalled its row yet.                                    *)
LEMMA UnjournalledAlone ==
    ASSUME TypeOK, StageInv, RunningInv, SettledInv, mode = "serving",
           pc \in {"parents", "syncparents", "journal"}
    PROVE  PublishingRows = {}
<1>1. PublishingRows \subseteq {row \in journal : row.id = op.id}
    BY DEF RunningInv, SettledInv
<1>2. op.id = 0 /\ \A row \in journal : row.id # 0
    BY NoOpStage DEF StageInv, OnlyOwnStage, TypeOK, Rows
<1>3. QED BY <1>1, <1>2 DEF PublishingRows

(* A step of a mutation that tells its caller nothing keeps SettledInv, if it rolls    *)
(* back nothing that was published.                                                    *)
LEMMA SettledKept ==
    ASSUME SettledInv, RunningInv, mode = "serving", pc # "idle", clean' = clean, result' = result,
           mode' = "serving" /\ pc' # "idle" =>
               /\ op'.kind = op.kind /\ op'.path = op.path /\ op'.target = op.target
               /\ op'.val = op.val,
           mode' = "serving" /\ pc' \in {"discard", "abandon"} => PublishingRows' = {}
    PROVE  SettledInv'
BY DEF SettledInv, RunningInv, Asked

(* A step taken while none is under way keeps it if, after an error, it leaves layers  *)
(* and published rows alone.                                                           *)
LEMMA SettledRests ==
    ASSUME SettledInv, clean' = clean, result' = result, old' = old,
           ~(mode' = "serving" /\ pc' # "idle"),
           PublishingRows = {} => /\ PublishingRows' = PublishingRows
                                  /\ upper' = upper /\ tombDB' = tombDB
    PROVE  SettledInv'
<1>1. PublishingRows = {} => StoredView' = StoredView
    BY DEF StoredView, VisibleIn
<1>2. QED BY <1>1 DEF SettledInv, ShapeOf

(* A mutation that fails before its effect leaves its caller the old state.            *)
LEMMA SettledError ==
    ASSUME SettledInv, RunningInv, TombstonesAgree, mode = "serving", pc # "idle", BeforeEffect,
           PublishingRows' = {}, UNCHANGED <<upper, tombDB, old, clean>>, pc' = "idle",
           result' = "error"
    PROVE  SettledInv'
<1>1. StoredView' = StoredView /\ StoredView = View
    BY ServedView DEF StoredView, VisibleIn
<1>2. ShapeOf(View) = old
    BY DEF RunningInv, SettledInv
<1>3. QED BY <1>1, <1>2 DEF SettledInv, ShapeOf

(* A crash changes nothing callers see if no entry has been published, not even a      *)
(* power loss; if no mutation is under way it loses nothing at all.                    *)
LEMMA UnpublishedKept ==
    ASSUME Ordinary, TypeOK, RowInv, DiskInv, Crash
    PROVE  /\ PublishingRows = {} => ShapeOf(StoredView)' = ShapeOf(StoredView)
           /\ ~(mode = "serving" /\ pc # "idle") => upper' = upper
<1>1. CASE KeepsStorage
    <2>1. upper' = upper /\ tombDB' = tombDB
        BY <1>1 DEF KeepsStorage, Crash, metadata
    <2>2. QED BY <2>1 DEF StoredView, VisibleIn, ShapeOf
<1>2. CASE ~KeepsStorage
    <2>1. LosesUnsynced /\ Undisturbed /\ DiskUpper
        BY <1>2, FirstLoss DEF Next
    <2>2. ShapeOf(StoredView)' = ShapeOf(LostView)
        BY <2>1 DEF LosesUnsynced, StoredView, LostView, VisibleIn, base_is_visible, Exists, ShapeOf
    <2>3. QED BY <2>1, <2>2, LossUnpublished DEF Undisturbed, DiskUpper, LosesUnsynced
<1>3. QED BY <1>1, <1>2

(* Every step keeps it that nothing is left behind to publish.                         *)
LEMMA SettledStep ==
    ASSUME Unrefused, TypeOK, OperationInv, StageInv, TombstonesAgree, RowInv, ProgressInv, TreeInv,
           WorkInv, RunningInv, OutcomeInv, SettledInv, DiskInv, [Next]_vars
    PROVE  SettledInv'
<1> USE NoOpFields DEF At, Recovering, storage, metadata, history, Unrefused, Fault
<1>1. ASSUME NEW dir \in Paths, ReadDir(dir)
      PROVE  SettledInv'
    BY <1>1, SettledRests DEF ReadDir, PublishingRows
<1>2. ASSUME NEW r \in Requests, BeginMutation(r)
      PROVE  SettledInv'
    <2>1. PublishingRows = {}
        BY <1>2, NothingPending DEF BeginMutation
    <2>2. clean' /\ result' = "running" /\ pc' \in {"journal", "parents", "syncparents"}
        BY <1>2, <2>1 DEF BeginMutation, PublishingRows
    <2>3. Asked(op)' = r
        <3>1. r \in RequestType
            BY RequestsAssumption
        <3>2. /\ op'.kind = r.kind /\ op'.path = r.path /\ op'.target = r.target
              /\ op'.val = r.val
            BY <1>2 DEF BeginMutation
        <3>3. QED BY <3>1, <3>2 DEF Asked, RequestType
    <2>4. QED BY <2>2, <2>3 DEF SettledInv
<1>3. CASE create_missing_upper_parent_directories
    <2>1. CASE pc' = "idle"
        <3>1. PublishingRows = {}
            BY <1>3, UnjournalledAlone DEF create_missing_upper_parent_directories
        <3>2. /\ PublishingRows' = PublishingRows /\ result' = "error"
              /\ UNCHANGED <<upper, tombDB, old, clean>>
            BY <1>3, <2>1 DEF create_missing_upper_parent_directories, Reply, PublishingRows
        <3>3. QED
            BY <1>3, <2>1, <3>1, <3>2, SettledError
               DEF create_missing_upper_parent_directories, BeforeEffect, Unpublished, Steps, Published
    <2>2. CASE pc' # "idle"
        <3>1. op' = op /\ clean' = clean /\ result' = result /\ pc' \in {"parents", "syncparents", "journal"}
            BY <1>3, <2>2 DEF create_missing_upper_parent_directories, Reply
        <3>2. QED
            BY <1>3, <3>1, SettledKept DEF create_missing_upper_parent_directories
    <2>3. QED BY <2>1, <2>2
<1>3s. CASE sync_copied_directory
    <2>1. op' = op /\ clean' = clean /\ result' = result /\ pc' = "parents"
        BY <1>3s DEF sync_copied_directory
    <2>2. QED BY <1>3s, <2>1, SettledKept DEF sync_copied_directory
<1>4. CASE begin_recovery_operation
    <2>1. CASE pc' = "idle"
        <3>1. PublishingRows = {}
            BY <1>4, UnjournalledAlone DEF begin_recovery_operation
        <3>2. /\ PublishingRows' = PublishingRows /\ result' = "error"
              /\ UNCHANGED <<upper, tombDB, old, clean>>
            BY <1>4, <2>1 DEF begin_recovery_operation, Reply, PublishingRows
        <3>3. QED
            BY <1>4, <2>1, <3>1, <3>2, SettledError
               DEF begin_recovery_operation, BeforeEffect, Unpublished, Steps, Published
    <2>2. CASE pc' # "idle"
        <3>1. /\ op'.kind = op.kind /\ op'.path = op.path /\ op'.target = op.target
              /\ op'.val = op.val /\ clean' = clean /\ result' = result
              /\ pc' \in {"prepare", "phase"}
            BY <1>4, <2>2 DEF begin_recovery_operation, Reply, TypeOK, Operations
        <3>2. QED BY <1>4, <3>1, SettledKept DEF begin_recovery_operation
    <2>3. QED BY <2>1, <2>2
<1>5. CASE prepare_stage
    <2>1. PublishingRows = {}
        BY <1>5, PreparedAlone DEF prepare_stage
    <2>2. QED BY <1>5, <2>1, SettledKept DEF prepare_stage, PublishingRows
<1>6. CASE flush_stage
    <2>1. PublishingRows = {}
        BY <1>6, PreparedAlone DEF flush_stage
    <2>2. QED BY <1>6, <2>1, SettledKept DEF flush_stage, PublishingRows
<1>7. CASE set_recovery_operation_phase
    <2>1. PublishingRows = {}
        BY <1>7, PreparedAlone DEF set_recovery_operation_phase
    <2>2. CASE pc' \in {"source", "publish"}
        BY <1>7, <2>2, SettledKept DEF set_recovery_operation_phase
    <2>3. CASE pc' \notin {"source", "publish"}
        <3>1. journal' = journal
            BY <1>7, <2>3 DEF set_recovery_operation_phase
        <3>2. QED
            BY <1>7, <2>1, <3>1, SettledKept DEF set_recovery_operation_phase, PublishingRows
    <2>4. QED BY <2>2, <2>3
<1>8. CASE publish_staged_operation
    <2>1. CanRename(upper, stage[op.id], Destination(op))
        BY <1>8, PublishAllowed DEF publish_staged_operation
    <2>2. pc' = "sync"
        BY <1>8, <2>1 DEF publish_staged_operation
    <2>3. QED BY <1>8, <2>2, SettledKept DEF publish_staged_operation
<1>9. CASE sync_destination
    BY <1>9, SettledKept DEF sync_destination
<1>10. CASE remove_upper_source
    BY <1>10, SettledKept DEF remove_upper_source
<1>11. CASE sync_source
    BY <1>11, SettledKept DEF sync_source
<1>12. CASE finish_recovery_operation
    BY <1>12 DEF finish_recovery_operation, Reply, SettledInv
<1>13. CASE discard_stage
    <2>1. PublishingRows = {}
        BY <1>13 DEF discard_stage, SettledInv
    <2>2. QED BY <1>13, <2>1, SettledKept DEF discard_stage, PublishingRows
<1>14. CASE abandon_recovery_operation
    <2>1. PublishingRows = {}
        BY <1>14 DEF abandon_recovery_operation, SettledInv
    <2>2. PublishingRows' = {}
        BY <1>14, <2>1 DEF abandon_recovery_operation, PublishingRows
    <2>3. QED
        BY <1>14, <2>2, SettledError
           DEF abandon_recovery_operation, Reply, BeforeEffect, Unpublished, Steps, Published
<1>15. CASE Crash
    <2>1. ~(mode = "serving" /\ RollingBackPublication)
        BY DEF RollingBackPublication, PublishingRows, SettledInv
    <2>2. mode' = "down" /\ clean' = clean /\ result' \in {result, "crashed"}
        BY <1>15, <2>1 DEF Crash
    <2>3. CASE mode = "serving" /\ pc # "idle"
        BY <1>15, <2>1, <2>2, <2>3 DEF Crash, RunningInv, SettledInv
    <2>4. CASE ~(mode = "serving" /\ pc # "idle")
        <3>1. upper' = upper
            BY <1>15, <2>4, UnpublishedKept
        <3>2. QED BY <1>15, <2>4, <3>1, SettledRests DEF Crash, PublishingRows
    <2>5. QED BY <2>3, <2>4
<1>16. CASE Restart
    BY <1>16, SettledRests DEF Restart, PublishingRows
<1>17. CASE recover_next_operation
    <2>1. PublishingRows' = PublishingRows /\ upper' = upper /\ tombDB' = tombDB
        BY <1>17, RecoverEffect DEF PublishingRows
    <2>2. mode' # "serving"
        BY <1>17, RecoverEffect
    <2>3. QED BY <1>17, <2>1, <2>2, SettledRests DEF recover_next_operation, RecoverySame
<1>18. CASE recover_rollback
    <2>1. \A row \in journal : row.id = op.id => row.phase # "publishing"
        BY <1>18, OwnRow DEF recover_rollback
    <2>2. PublishingRows' = PublishingRows
        BY <1>18, <2>1 DEF recover_rollback, PublishingRows
    <2>3. QED BY <1>18, <2>2, SettledRests DEF recover_rollback, RecoverySame
<1>19. CASE publish_staged_entry
    <2>1. PublishingRows # {}
        BY <1>19, OwnRow DEF publish_staged_entry, Published, PublishingRows
    <2>2. mode' # "serving" /\ clean' = clean /\ result' = result /\ old' = old
        BY <1>19 DEF publish_staged_entry, Refuse, RecoverySame
    <2>3. QED BY <2>1, <2>2, SettledRests
<1>20. CASE recover_sync
    <2>1. PublishingRows # {}
        BY <1>20, OwnRow DEF recover_sync, Published, PublishingRows
    <2>2. mode' # "serving" /\ clean' = clean /\ result' = result /\ old' = old
        BY <1>20 DEF recover_sync, Refuse, RecoverySame
    <2>3. QED BY <2>1, <2>2, SettledRests
<1>21. CASE remove_upper_entry
    <2>1. PublishingRows # {}
        BY <1>21, OwnRow DEF remove_upper_entry, Published, PublishingRows
    <2>2. mode' # "serving" /\ clean' = clean /\ result' = result /\ old' = old
        BY <1>21 DEF remove_upper_entry, Refuse, RecoverySame
    <2>3. QED BY <2>1, <2>2, SettledRests
<1>22. CASE recover_sync_source
    <2>1. PublishingRows # {}
        BY <1>22, OwnRow DEF recover_sync_source, Published, PublishingRows
    <2>2. mode' # "serving" /\ clean' = clean /\ result' = result /\ old' = old
        BY <1>22 DEF recover_sync_source, Refuse, RecoverySame
    <2>3. QED BY <2>1, <2>2, SettledRests
<1>23. CASE recover_finish
    <2>1. PublishingRows # {}
        BY <1>23, OwnRow DEF recover_finish, Published, PublishingRows
    <2>2. mode' # "serving" /\ clean' = clean /\ result' = result /\ old' = old
        BY <1>23 DEF recover_finish, Refuse, RecoverySame
    <2>3. QED BY <2>1, <2>2, SettledRests
<1>24. CASE recover_error
    BY <1>24, SettledRests DEF recover_error, Refuse, PublishingRows
<1>25. CASE open_workspace
    BY <1>25, SettledRests DEF open_workspace, PublishingRows
<1>26. CASE UNCHANGED vars
    <2>1. PublishingRows' = PublishingRows /\ StoredView' = StoredView
        BY <1>26 DEF vars, PublishingRows, StoredView, VisibleIn
    <2>2. QED BY <1>26, <2>1 DEF vars, SettledInv, Asked, ShapeOf
<1>27. QED
    BY <1>1, <1>2, <1>3, <1>3s, <1>4, <1>5, <1>6, <1>7, <1>8, <1>9, <1>10, <1>11, <1>12, <1>13,
       <1>14, <1>15, <1>16, <1>17, <1>18, <1>19, <1>20, <1>21, <1>22, <1>23, <1>24, <1>25, <1>26
       DEF Next, Mutation, recover_interrupted_operations
-----------------------------------------------------------------------------
(* What is shown, step by step. *)

(* What a restart would settle is settled already.                                     *)
LEMMA ShownIs ==
    ASSUME Unrefused, TypeOK, OperationInv, TombstonesAgree, RowInv, ProgressInv, RunningInv,
           OutcomeInv, SettledInv
    PROVE  ShownInv
<1>1. CASE mode = "serving" /\ pc # "idle" /\ Effective
    <2>1. pc \in Published /\ result = "running" /\ clean
        BY <1>1 DEF Effective, Published, RunningInv, SettledInv
    <2>2. PICK row \in journal : row.id = op.id
        BY <2>1, OwnRow DEF Published
    <2>3. row.phase = "publishing" /\ SameWork(row, op)
        BY <2>1, <2>2, OwnRow DEF Published
    <2>4. Decided(row)
        BY <1>1, <2>2, <2>3 DEF Decided, Effective, SameWork
    <2>5. \A other \in journal : Decided(other) => other = row
        BY <1>1, <2>2 DEF Decided, RowInv
    <2>6. SettledView = Settled(row)
        <3>1. (CHOOSE other \in journal : Decided(other)) = row
            BY <2>4, <2>5
        <3>2. QED BY <2>4, <3>1 DEF SettledView
    <2>7. ShapeOf(Settled(row)) = new
        BY <2>1, <2>3 DEF RunningInv, CrashCompletes, PublishingRows
    <2>8. QED BY <1>1, <2>6, <2>7 DEF ShownInv, Shown
<1>2. CASE mode = "serving" /\ pc # "idle" /\ ~Effective
    <2>1. result = "running" /\ clean
        BY <1>2 DEF RunningInv, SettledInv
    <2>2. BeforeEffect
        BY <1>2 DEF TypeOK, Effective, BeforeEffect, Unpublished, Published, ProgressInv, LeavingKinds
    <2>3. \A row \in journal : ~Decided(row)
        <3>1. SUFFICES ASSUME NEW row \in journal, Decided(row) PROVE FALSE
            OBVIOUS
        <3>2. row.id = op.id /\ pc = "source" /\ row.kind = "rename"
            BY <1>2, <3>1 DEF Decided, Effective
        <3>3. QED BY <1>2, <3>2, OwnRow DEF SameWork, Effective
    <2>4. SettledView = View
        BY <1>2, <2>3, ServedView DEF SettledView, StoredView
    <2>5. QED BY <1>2, <2>1, <2>2, <2>4 DEF RunningInv, ShownInv, Shown
<1>3. CASE mode = "serving" /\ pc = "idle"
    <2>1. PublishingRows = {}
        BY <1>3, NothingPending
    <2>2. \A row \in journal : ~Decided(row)
        BY <2>1 DEF Decided, PublishingRows
    <2>3. QED BY <1>3, <2>1, <2>2 DEF ShownInv, Shown, SettledView, StoredView
<1>4. CASE mode # "serving"
    <2>1. \A row \in journal : Decided(row) <=> row \in PublishingRows
        BY <1>4 DEF Decided, PublishingRows
    <2>2. CASE PublishingRows = {}
        BY <1>4, <2>1, <2>2 DEF ShownInv, Shown, SettledView, StoredView
    <2>3. CASE PublishingRows # {}
        <3>1. PICK row \in PublishingRows : TRUE
            BY <2>3
        <3>2. result = "crashed" /\ clean
            BY <1>4, <2>3 DEF SettledInv, RunningInv, OutcomeInv, Unrefused
        <3>3. PublishingRows = {row} /\ ShapeOf(Settled(row)) = new
            BY <3>1, <3>2 DEF OutcomeInv
        <3>4. row \in journal /\ Decided(row)
            BY <2>1, <3>1 DEF PublishingRows
        <3>5. (CHOOSE other \in journal : Decided(other)) = row
            BY <2>1, <3>3, <3>4
        <3>6. SettledView = Settled(row)
            BY <3>4, <3>5 DEF SettledView
        <3>7. QED BY <1>4, <2>3, <3>3, <3>6 DEF ShownInv, Shown
    <2>4. QED BY <2>2, <2>3
<1>5. QED BY <1>1, <1>2, <1>3, <1>4

(* When the rename or the removal of a mutation is seen, what callers see changes as   *)
(* the abstract Workspace does, in one step.                                           *)
LEMMA TakesEffect ==
    ASSUME TypeOK, OperationInv, TombstonesAgree, TreeInv, WorkInv, ProgressInv, RunningInv,
           SettledInv, ShownInv, mode = "serving",
           pc = "publish" \/ (pc = "source" /\ op.kind \in RemovingKinds), Shown' = new
    PROVE  Abstract!Next
<1> DEFINE r == Asked(op)
           to == Destination(op)
<1>1. /\ op.path \in Paths /\ op.target \in Paths /\ op.kind \in Kinds /\ to \in Paths
      /\ r.kind = op.kind /\ r.path = op.path /\ r.target = op.target /\ r.val = op.val
      /\ Destination(r) = to
    BY DEF TypeOK, Operations, OperationInv, Destination, Asked
<1>2. r \in Requests /\ BeforeEffect /\ ~Effective /\ result = "running" /\ clean
    BY DEF SettledInv, RunningInv, BeforeEffect, Unpublished, Published, Steps, Effective,
           RemovingKinds
<1>3. Shown = ShapeOf(View) /\ new = Applied(Shown, op) /\ Admitted(View, op)
    BY <1>2 DEF ShownInv, RunningInv, WorkInv
<1>4. /\ View \in Trees /\ TreeShaped(View)
      /\ \A p \in Paths : Exists(upper, p) => View[p] = upper[p]
    BY ViewFacts
<1>5. \A p \in Paths : Shown[p].kind = View[p].kind
    BY <1>3 DEF ShapeOf, Shape
<1>6. Admitted(Shown, r)
    BY <1>1, <1>3, <1>5, AdmittedByKinds, AdmittedSame
<1>7. Shown' = Applied(Shown, r)
    BY <1>1, <1>3, AppliedSame
<1>8. to # Root => IsDir(View, Parent(to))
    <2>1. to # Root => Parent(to) \in Paths /\ Beneath(Parent(to), to)
        BY <1>1, ParentBeneath
    <2>2. CASE pc = "publish"
        <3>1. ParentsMade(op)
            BY <2>2 DEF WorkInv, ProgressInv
        <3>2. QED BY <1>4, <2>1, <3>1 DEF ParentsMade, IsDir, Exists, Dir, Nothing
    <2>3. CASE op.kind \in RemovingKinds
        <3>1. to = op.path /\ Exists(View, to)
            BY <1>3, <2>3 DEF Destination, RemovingKinds, Admitted, CreatingKinds, IsDir, Exists,
                              Dir, Nothing
        <3>2. QED BY <1>1, <1>4, <2>1, <3>1 DEF TreeShaped
    <2>4. QED BY <2>2, <2>3
<1>9. op.kind = "write" => Exists(View, op.path) /\ ~IsDir(View, op.path)
    BY DEF WorkInv, ProgressInv, CanStage, RemovingKinds
<1>10. /\ Destination(r) # Root => IsDir(Shown, Parent(Destination(r)))
       /\ r.kind = "write" => Exists(Shown, r.path) /\ ~IsDir(Shown, r.path)
    <2>1. to # Root => Parent(to) \in Paths
        BY <1>1, ParentBeneath
    <2>2. QED BY <1>1, <1>5, <1>8, <1>9, <2>1 DEF IsDir, Exists
<1> HIDE DEF r, to
<1>11. QED BY <1>2, <1>6, <1>7, <1>10, AbstractStep

(* A mutation goes on and what callers see stays.                                      *)
LEMMA GoesOn ==
    ASSUME ShownInv, ShownInv', mode = "serving", pc # "idle", mode' = "serving", pc' # "idle",
           old' = old, new' = new, Effective' <=> Effective
    PROVE  Shown' = Shown
BY DEF ShownInv

(* A caller is answered what it sees.                                                  *)
LEMMA Answers ==
    ASSUME Unrefused, ShownInv, ShownInv', OutcomeInv', SettledInv',
           mode = "serving", pc # "idle", mode' = "serving", pc' = "idle",
           old' = old, new' = new, result' = IF Effective THEN "ok" ELSE "error"
    PROVE  Shown' = Shown
BY DEF ShownInv, OutcomeInv, SettledInv

(* While none is under way, rows and layers tell what callers see.                     *)
LEMMA Rests ==
    ASSUME ShownInv, ShownInv', ~(mode = "serving" /\ pc # "idle"),
           ~(mode' = "serving" /\ pc' # "idle"), new' = new, PublishingRows' = PublishingRows,
           PublishingRows = {} => upper' = upper /\ tombDB' = tombDB
    PROVE  Shown' = Shown
<1>1. PublishingRows = {} => StoredView' = StoredView
    BY DEF StoredView, VisibleIn
<1>2. QED BY <1>1 DEF ShownInv, ShapeOf

(* Every step is one of the abstract Workspace, or leaves what callers see alone.      *)
LEMMA ViewStep ==
    ASSUME Unrefused, TypeOK, OperationInv, StageInv, TombstonesAgree, RowInv, ProgressInv, TreeInv,
           WorkInv, RunningInv, OutcomeInv, SettledInv, ShownInv, DiskInv,
           OutcomeInv', SettledInv', ShownInv', [Next]_vars
    PROVE  Shown' = Shown \/ Abstract!Next
<1> USE NoOpFields DEF At, Recovering, storage, metadata, history, Unrefused, Fault
<1>1. ASSUME NEW dir \in Paths, ReadDir(dir)
      PROVE  Shown' = Shown \/ Abstract!Next
    <2>1. PublishingRows' = PublishingRows
        BY <1>1 DEF ReadDir, PublishingRows
    <2>2. QED BY <1>1, <2>1, Rests DEF ReadDir
<1>2. ASSUME NEW r \in Requests, BeginMutation(r)
      PROVE  Shown' = Shown \/ Abstract!Next
    <2>1. PublishingRows = {} /\ StoredView = View
        BY <1>2, NothingPending, ServedView DEF BeginMutation
    <2>2. Shown = ShapeOf(View)
        BY <1>2, <2>1 DEF ShownInv, BeginMutation
    <2>3. Shown' = old'
        BY <1>2 DEF ShownInv, BeginMutation, Effective
    <2>4. QED BY <1>2, <2>2, <2>3 DEF BeginMutation
<1>3. CASE create_missing_upper_parent_directories
    <2>1. ~Effective
        BY <1>3 DEF Effective, create_missing_upper_parent_directories
    <2>2. CASE pc' = "idle"
        <3>1. result' = "error" /\ old' = old /\ new' = new
            BY <1>3, <2>2 DEF create_missing_upper_parent_directories, Reply
        <3>2. QED
            BY <1>3, <2>1, <2>2, <3>1, Answers DEF create_missing_upper_parent_directories
    <2>3. CASE pc' # "idle"
        <3>1. old' = old /\ new' = new /\ pc' \in {"parents", "syncparents", "journal"}
            BY <1>3, <2>3 DEF create_missing_upper_parent_directories, Reply
        <3>2. QED
            BY <1>3, <2>1, <3>1, GoesOn DEF create_missing_upper_parent_directories, Effective
    <2>4. QED BY <2>2, <2>3
<1>3s. CASE sync_copied_directory
    <2>1. old' = old /\ new' = new /\ pc' = "parents" /\ ~Effective
        BY <1>3s DEF sync_copied_directory, Effective
    <2>2. QED BY <1>3s, <2>1, GoesOn DEF sync_copied_directory, Effective
<1>4. CASE begin_recovery_operation
    <2>1. ~Effective
        BY <1>4 DEF Effective, begin_recovery_operation
    <2>2. CASE pc' = "idle"
        <3>1. result' = "error" /\ old' = old /\ new' = new
            BY <1>4, <2>2 DEF begin_recovery_operation, Reply
        <3>2. QED BY <1>4, <2>1, <2>2, <3>1, Answers DEF begin_recovery_operation
    <2>3. CASE pc' # "idle"
        <3>1. old' = old /\ new' = new /\ pc' \in {"phase", "prepare"}
            BY <1>4, <2>3 DEF begin_recovery_operation, Reply
        <3>2. QED BY <1>4, <2>1, <3>1, GoesOn DEF begin_recovery_operation, Effective
    <2>4. QED BY <2>2, <2>3
<1>5. CASE prepare_stage
    BY <1>5, GoesOn DEF prepare_stage, Effective
<1>6. CASE flush_stage
    BY <1>6, GoesOn DEF flush_stage, Effective
<1>7. CASE set_recovery_operation_phase
    <2>1. pc' = "source" => op'.kind # "rename"
        BY <1>7 DEF set_recovery_operation_phase, RemovingKinds
    <2>2. QED BY <1>7, <2>1, GoesOn DEF set_recovery_operation_phase, Effective
<1>8. CASE publish_staged_operation
    <2>1. CASE pc' = "sync"
        <3>1. Shown' = new'
            BY <1>8, <2>1 DEF ShownInv, publish_staged_operation, Effective
        <3>2. QED BY <1>8, <3>1, TakesEffect DEF publish_staged_operation
    <2>2. CASE pc' = "discard"
        BY <1>8, <2>2, GoesOn DEF publish_staged_operation, Effective
    <2>3. QED BY <1>8, <2>1, <2>2 DEF publish_staged_operation
<1>9. CASE sync_destination
    BY <1>9, GoesOn DEF sync_destination, Effective
<1>10. CASE remove_upper_source
    <2>1. /\ mode' = "serving" /\ old' = old /\ new' = new /\ op' = op
          /\ pc' \in {"source", "syncsource", "finish"}
        BY <1>10 DEF remove_upper_source
    <2>2. CASE op.kind = "rename"
        BY <1>10, <2>1, <2>2, GoesOn DEF remove_upper_source, Effective
    <2>3. CASE op.kind # "rename" /\ pc' = "source"
        BY <1>10, <2>1, <2>3, GoesOn DEF remove_upper_source, Effective
    <2>4. CASE op.kind # "rename" /\ pc' # "source"
        <3>1. op.kind \in RemovingKinds
            BY <1>10, <2>4 DEF remove_upper_source, ProgressInv, LeavingKinds
        <3>2. Shown' = new
            BY <2>1, <2>4 DEF ShownInv, Effective
        <3>3. QED BY <1>10, <3>1, <3>2, TakesEffect DEF remove_upper_source
    <2>5. QED BY <2>2, <2>3, <2>4
<1>11. CASE sync_source
    BY <1>11, GoesOn DEF sync_source, Effective
<1>12. CASE finish_recovery_operation
    BY <1>12, Answers DEF finish_recovery_operation, Reply, Effective
<1>13. CASE discard_stage
    BY <1>13, GoesOn DEF discard_stage, Effective
<1>14. CASE abandon_recovery_operation
    BY <1>14, Answers DEF abandon_recovery_operation, Reply, Effective
<1>15. CASE Crash
    <2>1. /\ mode' = "down" /\ tombDB' = tombDB
          /\ old' = old /\ new' = new /\ PublishingRows' = PublishingRows
        BY <1>15 DEF Crash, PublishingRows
    <2>2. CASE ~(mode = "serving" /\ pc # "idle")
        BY <1>15, <2>1, <2>2, UnpublishedKept, Rests
    <2>3. CASE mode = "serving" /\ pc # "idle" /\ PublishingRows = {}
        <3>1. ~Effective
            BY <2>3, OwnRow DEF Effective, Published, PublishingRows
        <3>2. Shown = old /\ Shown' = ShapeOf(StoredView)'
            BY <2>1, <2>3, <3>1 DEF ShownInv
        <3>3. ShapeOf(StoredView)' = ShapeOf(StoredView) /\ StoredView = View
            BY <1>15, <2>3, UnpublishedKept, ServedView
        <3>4. BeforeEffect /\ result = "running" /\ clean
            BY <2>3, <3>1 DEF TypeOK, Effective, BeforeEffect, Unpublished, Published, ProgressInv,
                              LeavingKinds, RunningInv, SettledInv
        <3>5. QED BY <3>2, <3>3, <3>4 DEF RunningInv
    <2>4. CASE mode = "serving" /\ pc # "idle" /\ PublishingRows # {}
        <3>1. Shown' = new
            BY <2>1, <2>4 DEF ShownInv
        <3>2. CASE Effective
            BY <2>4, <3>1, <3>2 DEF ShownInv
        <3>3. CASE ~Effective
            <4>1. PICK row \in journal : row.phase = "publishing" /\ row.id = op.id
                BY <2>4 DEF PublishingRows, RunningInv, SettledInv
            <4>2. op.id \in Ids
                BY <4>1 DEF TypeOK, Rows
            <4>3. pc \notin {"parents", "syncparents", "journal"}
                BY <2>4, <4>2, NoOpStage DEF StageInv, OnlyOwnStage
            <4>4. pc \notin {"prepare", "flush", "phase", "discard", "abandon"}
                BY <2>4, PreparedAlone DEF SettledInv
            <4>5. pc = "publish" \/ (pc = "source" /\ op.kind \in RemovingKinds)
                BY <2>4, <3>3, <4>3, <4>4 DEF TypeOK, Steps, Effective, ProgressInv, LeavingKinds
            <4>6. QED BY <2>4, <3>1, <4>5, TakesEffect
        <3>4. QED BY <3>2, <3>3
    <2>5. QED BY <2>2, <2>3, <2>4
<1>16. CASE Restart
    BY <1>16, Rests DEF Restart, PublishingRows
<1>17. CASE recover_next_operation
    <2>1. PublishingRows' = PublishingRows /\ upper' = upper /\ tombDB' = tombDB
        BY <1>17, RecoverEffect DEF PublishingRows
    <2>2. mode = "recovering" /\ mode' # "serving"
        BY <1>17, RecoverEffect
    <2>3. QED BY <1>17, <2>1, <2>2, Rests DEF recover_next_operation, RecoverySame
<1>18. CASE recover_rollback
    <2>1. \A row \in journal : row.id = op.id => row.phase # "publishing"
        BY <1>18, OwnRow DEF recover_rollback
    <2>2. PublishingRows' = PublishingRows
        BY <1>18, <2>1 DEF recover_rollback, PublishingRows
    <2>3. QED BY <1>18, <2>2, Rests DEF recover_rollback, RecoverySame
<1>19. CASE publish_staged_entry
    <2>1. PublishingRows' = PublishingRows
        BY <1>19 DEF publish_staged_entry, Refuse, PublishingRows
    <2>2. PublishingRows # {}
        BY <1>19, OwnRow DEF publish_staged_entry, Published, PublishingRows
    <2>3. mode = "recovering" /\ mode' # "serving" /\ new' = new
        BY <1>19 DEF publish_staged_entry, Refuse, RecoverySame
    <2>4. QED BY <2>1, <2>2, <2>3, Rests
<1>20. CASE recover_sync
    <2>1. PublishingRows' = PublishingRows
        BY <1>20 DEF recover_sync, Refuse, PublishingRows
    <2>2. PublishingRows # {}
        BY <1>20, OwnRow DEF recover_sync, Published, PublishingRows
    <2>3. mode = "recovering" /\ mode' # "serving" /\ new' = new
        BY <1>20 DEF recover_sync, Refuse, RecoverySame
    <2>4. QED BY <2>1, <2>2, <2>3, Rests
<1>21. CASE remove_upper_entry
    <2>1. PublishingRows' = PublishingRows
        BY <1>21 DEF remove_upper_entry, Refuse, PublishingRows
    <2>2. PublishingRows # {}
        BY <1>21, OwnRow DEF remove_upper_entry, Published, PublishingRows
    <2>3. mode = "recovering" /\ mode' # "serving" /\ new' = new
        BY <1>21 DEF remove_upper_entry, Refuse, RecoverySame
    <2>4. QED BY <2>1, <2>2, <2>3, Rests
<1>22. CASE recover_sync_source
    <2>1. PublishingRows' = PublishingRows
        BY <1>22 DEF recover_sync_source, Refuse, PublishingRows
    <2>2. PublishingRows # {}
        BY <1>22, OwnRow DEF recover_sync_source, Published, PublishingRows
    <2>3. mode = "recovering" /\ mode' # "serving" /\ new' = new
        BY <1>22 DEF recover_sync_source, Refuse, RecoverySame
    <2>4. QED BY <2>1, <2>2, <2>3, Rests
<1>23. CASE recover_finish
    <2>0. result # "error"
        BY <1>23, OwnRow DEF recover_finish, Published, PublishingRows, SettledInv
    <2>1. PICK row \in journal : /\ row.id = op.id /\ SameWork(row, op)
                                 /\ PublishingRows = {row} /\ ShapeOf(Settled(row)) = new
        BY <1>23, <2>0, RecoveredOutcome DEF recover_finish, RunningInv, SettledInv, Published
    <2>2. op.kind \in Kinds
        BY <1>23 DEF recover_finish, OperationInv
    <2>3. ShapeOf(StoredView)' = new
        BY <1>23, <2>1, <2>2, FinishSettles DEF recover_finish
    <2>4. PublishingRows' = {}
        BY <1>23, <2>1 DEF recover_finish, PublishingRows
    <2>5. Shown = new
        BY <1>23, <2>1 DEF recover_finish, ShownInv
    <2>6. Shown' = ShapeOf(StoredView)'
        BY <1>23, <2>4 DEF recover_finish, ShownInv
    <2>7. QED BY <2>3, <2>5, <2>6
<1>24. CASE recover_error
    BY <1>24, Rests DEF recover_error, Refuse, PublishingRows
<1>25. CASE open_workspace
    BY <1>25, Rests DEF open_workspace, PublishingRows
<1>26. CASE UNCHANGED vars
    <2>1. SettledView' = SettledView
        BY <1>26 DEF vars, SettledView, Decided, Settled, Overlay, VisibleIn
    <2>2. QED BY <2>1 DEF Shown, ShapeOf
<1>27. QED
    BY <1>1, <1>2, <1>3, <1>3s, <1>4, <1>5, <1>6, <1>7, <1>8, <1>9, <1>10, <1>11, <1>12, <1>13,
       <1>14, <1>15, <1>16, <1>17, <1>18, <1>19, <1>20, <1>21, <1>22, <1>23, <1>24, <1>25, <1>26
       DEF Next, Mutation, recover_interrupted_operations
-----------------------------------------------------------------------------
(* The result. *)

(* A new Workspace shows the Base state.                                               *)
LEMMA InitialView ==
    ASSUME Init
    PROVE  ShapeOf(StoredView) = ShapeOf(Base)
<1>1. OutcomeInv /\ result = "ok" /\ clean /\ new = ShapeOf(Base)
    BY InitCrash DEF CInv, Init
<1>2. QED BY <1>1 DEF OutcomeInv

(* The invariant of the refinement holds under its conditions.                         *)
LEMMA RefinementInvariance ==
    ASSUME Unrefused
    PROVE  Spec => []RefinementInv
<1>1. Spec => []((IInv /\ SInv) /\ TombstonesAgree /\ CInv /\ DiskInv)
    <2>1. Ordinary
        BY DEF Unrefused
    <2>2. QED BY <2>1, CrashInvariance
<1>2. Init => SettledInv
    BY DEF Init, SettledInv
<1>3. ASSUME (IInv /\ SInv) /\ TombstonesAgree /\ CInv /\ DiskInv, SettledInv, [Next]_vars
      PROVE  SettledInv'
    BY <1>3, SettledStep DEF IInv, SInv, CInv
<1>4. QED BY <1>1, <1>2, <1>3, PTL DEF Spec, RefinementInv

(* The engine with its journal, stages, tombstones and recovery implements the         *)
(* abstract Workspace, whose mutations each happen in one step: callers, crashes,      *)
(* restarts and errors never show anything between two states of WorkspaceView.        *)
THEOREM EngineImplementsView ==
    ASSUME Unrefused
    PROVE  Spec => ImplementsView
<1>1. RefinementInv => ShownInv
    BY ShownIs DEF RefinementInv, IInv, CInv
<1>2. Init => Abstract!Init
    <2>1. ASSUME Init
          PROVE  Shown = ShapeOf(Base)
        <3>1. SettledView = StoredView
            BY <2>1 DEF Init, SettledView, StoredView
        <3>2. QED BY <2>1, <3>1, InitialView DEF Shown
    <2>2. QED BY <2>1 DEF Abstract!Init, Shown
<1>3. ASSUME RefinementInv, RefinementInv', ShownInv, ShownInv', [Next]_vars
      PROVE  [Abstract!Next]_(ShapeOf(SettledView))
    <2>1. /\ TypeOK /\ OperationInv /\ StageInv /\ TombstonesAgree /\ RowInv /\ ProgressInv
          /\ TreeInv /\ WorkInv /\ RunningInv /\ OutcomeInv /\ SettledInv
          /\ DiskInv /\ OutcomeInv' /\ SettledInv'
        BY <1>3 DEF RefinementInv, IInv, SInv, CInv
    <2>2. Shown' = Shown \/ Abstract!Next
        BY <1>3, <2>1, ViewStep
    <2>3. QED BY <2>2 DEF Shown
<1>4. QED
    BY <1>1, <1>2, <1>3, RefinementInvariance, PTL DEF Spec, ImplementsView, Abstract!Spec
=============================================================================
