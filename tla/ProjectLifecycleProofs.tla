----------------------- MODULE ProjectLifecycleProofs -----------------------
(***************************************************************************)
(* Machine-checked proofs about ProjectLifecycle, for every set of          *)
(* Workspaces and branches and every pattern of errors and crashes.         *)
(*                                                                         *)
(* None of the properties is inductive.  All of them need to know which     *)
(* thread may be where (OperandInv, ModeInv), that a thread's step has a    *)
(* journal row of its own (RowInv) and that a lifecycle state that is not   *)
(* final has the row that settles it (StateInv, PendingInv).  On that rest  *)
(*   - ServedIsComplete and AcknowledgedIsServed: CompleteInv follows a     *)
(*     creation through what each of its steps has made, AckedInv says that *)
(*     a success once reported stays Active;                                *)
(*   - KeptBranchesSurvive: KeptInv, a rollback deletes a branch only while *)
(*     it is not yet the user's;                                            *)
(*   - NothingLeaks: WorktreeInv and BranchInv, whatever Git keeps for a    *)
(*     Workspace that is not Active has a row whose recovery, or a thread   *)
(*     whose next steps, will remove it;                                    *)
(*   - FreshWorkspaceShowsBase: StorageInv and TombInv, the same of the     *)
(*     directories, the files in them and the tombstones.                   *)
(***************************************************************************)
EXTENDS ProjectLifecycle, TLAPS

Building == {"storage", "add", "redirect", "index", "pointer", "active"}
CreateSteps == {"record", "settle"} \cup Building
UndoSteps == {"undo_git", "undo_branch", "undo_storage", "undo_state"}
RemoveSteps == {"git", "reclaim_storage", "tombstones", "reclaimed"}

CreateRows == {row \in rows : row.kind = "workspace_create"}
RemoveRows == {row \in rows : row.kind = "workspace_remove"}
FileRows == {row \in rows : row.kind \in FileKinds}

(* The steps of the control server, of recovery and of a FUSE thread have    *)
(* the operands they use, and a thread without a step has none.              *)
OperandInv ==
    /\ IF ctl.pc = "idle" THEN ctl = NoCtl ELSE ctl.w \in Workspaces /\ ctl.id \in Ids
    /\ ctl.pc \in CreateSteps \cup UndoSteps => ctl.branch \in Branches
    /\ \A row \in CreateRows : row.branch \in Branches
    /\ IF fuse.pc = "idle" THEN fuse = NoFuse ELSE fuse.w \in Workspaces
        /\ fuse.kind \in FileKinds
    /\ IF fuse.pc \in {"phase", "publish", "finish"} THEN fuse.id \in Ids ELSE fuse.id = 0

(* Which threads there are in which mode. *)
ModeInv ==
    /\ mode # "serving" => engines = {} /\ reclaimers = {} /\ fuse = NoFuse
    /\ mode \in {"down", "refused"} => ctl = NoCtl
    /\ mode = "recovering" => ctl.pc \in {"idle", "undo_row"} \cup UndoSteps \cup RemoveSteps
    /\ mode = "serving" => ctl.pc \notin RemoveSteps

(* Journal identifiers are unique, and each thread's step has its own row.   *)
RowInv ==
    /\ \A row \in rows : row.id < nextId
    /\ \A row, other \in rows : row.id = other.id => row = other
    /\ ctl.pc \in CreateSteps \cup UndoSteps =>
          \E row \in CreateRows : row.id = ctl.id /\ row.w = ctl.w /\ row.branch = ctl.branch
    /\ ctl.pc \in {"removed"} \cup RemoveSteps =>
          \E row \in RemoveRows : row.id = ctl.id /\ row.w = ctl.w
    /\ ctl.pc = "undo_row" => \E row \in CreateRows \cup RemoveRows : row.id = ctl.id
        /\ row.w = ctl.w
    /\ \A t \in reclaimers : \E row \in RemoveRows : row.id = t.id /\ row.w = t.w
    /\ \A t, u \in reclaimers : t.id = u.id => t = u
    /\ \A t \in reclaimers : t.id # ctl.id
    /\ fuse.pc \in {"phase", "publish", "finish"} =>
          \E row \in FileRows : row.id = fuse.id /\ row.w = fuse.w

(* The lifecycle state of the Workspace that a thread works on. *)
StateInv ==
    /\ ctl.pc = "record" => State(ctl.w) \in {"none", "Reclaimed"}
    /\ ctl.pc \in Building => record[ctl.w] = [state |-> "Creating", branch |-> ctl.branch]
    /\ ctl.pc = "settle" => record[ctl.w] = [state |-> "Active", branch |-> ctl.branch]
    /\ ctl.pc = "removed" => State(ctl.w) = "Active"
    /\ ctl.pc \in UndoSteps \cup RemoveSteps => State(ctl.w) # "Active"
    /\ ctl.pc \in UndoSteps /\ mode = "serving" => State(ctl.w) = "Creating"
    /\ ctl.pc = "undo_row" => State(ctl.w) \in {"none", "Active", "Reclaimed"}
                                \/ (mode = "serving" /\ State(ctl.w) = "Creating"
                                    /\ "undo_state" \in faults)
    /\ \A t \in reclaimers : t.pc # "undo_row" =>
          /\ State(t.w) = "Removed"
          /\ \A u \in reclaimers : u.w = t.w /\ u.pc # "undo_row" => u = t
    /\ \A w \in engines : State(w) = "Active"

(* Every pending state has the row that will settle it, and at most one      *)
(* creation of a name is pending.  The errors of an undo break either.       *)
PendingInv ==
    /\ "undo_row" \notin faults =>
          /\ \A row, other \in CreateRows : row.w = other.w => row = other
          /\ \A row \in CreateRows : State(row.w) # "Removed" /\ row.w \notin engines
          /\ mode = "serving" => \A row \in CreateRows :
                row.id = ctl.id \/ State(row.w) \in {"Active", "Creating"}
    /\ "undo_state" \notin faults =>
          \A w \in Workspaces : State(w) = "Creating" => \E row \in CreateRows : row.w = w
    /\ \A w \in Workspaces : State(w) = "Removed" =>
          \E row \in RemoveRows : row.w = w
              /\ \A t \in reclaimers : t.id = row.id => t.pc # "undo_row"

(* An Active Workspace is complete, and a creation has made what its step    *)
(* builds on.                                                                *)
CompleteInv ==
    /\ \A t \in worktrees : t.branch \in branches
    /\ \A w \in Workspaces : State(w) = "Active" =>
          /\ {"upper", "git"} \subseteq dirs[w]
          /\ [w |-> w, at |-> "mount", branch |-> record[w].branch] \in worktrees
    /\ ctl.pc \in Building \ {"storage"} => "upper" \in dirs[ctl.w]
    /\ ctl.pc = "redirect" => [w |-> ctl.w, at |-> "staging",
        branch |-> ctl.branch] \in worktrees
    /\ ctl.pc \in {"index", "pointer", "active"} =>
          [w |-> ctl.w, at |-> "mount", branch |-> ctl.branch] \in worktrees
    /\ ctl.pc = "active" => "git" \in dirs[ctl.w]

AckedInv ==
    /\ \A w \in acked : State(w) = "Active"
    /\ mode = "serving" => acked \subseteq engines

(* The branch of a pending creation belongs to the user only once the        *)
(* Workspace is Active.                                                      *)
KeptInv ==
    ~ReuseBranches /\ Sound({"storage", "undo_row"}) =>
        /\ kept \subseteq branches
        /\ \A row \in CreateRows : row.branch \in kept => State(row.w) = "Active"
        /\ mode = "serving" => \A row \in CreateRows : row.id = ctl.id \/ State(row.w) = "Active"
        /\ ctl.pc \in {"record", "storage", "add"} => ctl.branch \notin branches

(* A registration without an Active Workspace has a row to remove it. *)
WorktreeInv ==
    Sound(LeavingFaults) =>
        /\ \A t, u \in worktrees : t.w = u.w \/ t.branch = u.branch => t = u
        /\ \A t \in worktrees :
             \/ State(t.w) = "Active"
             \/ /\ State(t.w) = "Removed" /\ t.at = "mount"
                /\ \A r \in reclaimers : r.w = t.w => r.pc \in {"git", "undo_row"}
                /\ ctl.pc \in RemoveSteps /\ ctl.w = t.w => ctl.pc = "git"
             \/ \E row \in CreateRows :
                  /\ row.w = t.w
                  /\ mode = "serving" => row.id = ctl.id
                  /\ row.id = ctl.id => ctl.pc \in {"redirect", "index", "pointer", "active",
                      "undo_git"}
                                        \/ (mode = "recovering" /\ ctl.pc = "undo_storage")
        /\ mode = "recovering" /\ ctl.pc \in {"undo_branch", "undo_state"} =>
             \A t \in worktrees : t.w # ctl.w
        /\ mode = "serving" /\ ctl.pc = "undo_git" =>
             [w |-> ctl.w, at |-> "mount", branch |-> ctl.branch] \in worktrees
        /\ mode = "serving"
            /\ ctl.pc = "undo_branch" => \A t \in worktrees : t.branch # ctl.branch

(* A branch nobody owns has a row to delete it. *)
BranchInv ==
    /\ UserBranches \subseteq kept
    /\ ctl.pc = "settle" => ctl.branch \in kept
    /\ Sound(LeavingFaults) =>
        \A b \in branches \ kept : \E row \in CreateRows :
          /\ row.branch = b /\ State(row.w) # "Active"
          /\ mode = "serving" => row.id = ctl.id
          /\ row.id = ctl.id => ctl.pc \in {"redirect", "index", "pointer", "active",
              "undo_git", "undo_branch"}
                                \/ (mode = "recovering" /\ ctl.pc = "undo_storage")

Bare(w) ==
    /\ "undo_storage" \notin faults => dirs[w] \cap {"upper", "git"} = {}
    /\ \A f \in files : f.w # w

(* Storage of a Workspace that is not Active has a row to remove it. *)
StorageInv ==
    /\ \A f \in files : f.id < nextId /\ \A row \in rows : row.id = f.id => row.w = f.w
    /\ late = {} =>
        /\ \A w \in Workspaces : State(w) \in {"none", "Reclaimed"} => Bare(w)
        /\ \A w \in Workspaces : State(w) = "Creating" =>
             Bare(w) \/ \E row \in CreateRows : row.w = w
        /\ ctl.pc = "undo_row" /\ State(ctl.w) = "Creating" => Bare(ctl.w)
        /\ \A f \in files : State(f.w) \in {"Active", "Removed"}
        /\ fuse.pc # "idle" => fuse.w \in engines
        /\ \A t \in reclaimers : t.pc \in {"tombstones", "reclaimed"} => Bare(t.w)
        /\ ctl.pc \in {"tombstones", "reclaimed", "undo_state", "storage"} => Bare(ctl.w)
        /\ mode = "recovering" /\ ctl.pc \in {"undo_git", "undo_branch"} => Bare(ctl.w)

(* No tombstone outlives its Workspace.  Where the row of an old creation    *)
(* is left, recovery may release the name first, and completes the removal.  *)
TombInv ==
    late = {} /\ Sound({"sync"}) =>
        /\ \A w \in tombs :
             \/ State(w) \in {"Active", "Removed"}
             \/ /\ mode # "serving" /\ State(w) = "Reclaimed"
                /\ \E row \in RemoveRows :
                     row.w = w /\ (row.id = ctl.id => ctl.pc \notin {"reclaimed", "undo_row"})
        /\ \A t \in reclaimers : t.pc = "reclaimed" => t.w \notin tombs
        /\ ctl.pc = "reclaimed" => ctl.w \notin tombs
        /\ \A row \in FileRows : State(row.w) = "Active"
        /\ mode = "serving" => \A row \in FileRows : row.id = fuse.id

IInv ==
    /\ TypeOK /\ OperandInv /\ ModeInv /\ RowInv /\ StateInv /\ PendingInv /\ CompleteInv
    /\ AckedInv /\ KeptInv /\ WorktreeInv /\ BranchInv /\ StorageInv /\ TombInv

-----------------------------------------------------------------------------
FuseType ==
    [pc : FuseSteps, w : Workspaces \cup {"none"}, kind : FileKinds \cup {"none"},
        id : 0..MaxOps]

(* What fuse_journal does while there are identifiers left. *)
LEMMA FuseJournalled ==
    ASSUME TypeOK, OperandInv, fuse_journal, nextId =< MaxOps
    PROVE  /\ nextId \in Ids /\ nextId' = nextId + 1
           /\ fuse.w \in Workspaces /\ fuse.kind \in FileKinds
           /\ rows' = rows \cup {[id |-> nextId, kind |-> fuse.kind, w |-> fuse.w,
                                  branch |-> NoBranch, phase |-> "prepared"]}
           /\ fuse' \in FuseType /\ fuse'.pc = "phase" /\ fuse'.w = fuse.w
           /\ fuse'.kind = fuse.kind /\ fuse'.id = nextId
<1>1. nextId \in Ids /\ fuse.w \in Workspaces /\ fuse.kind \in FileKinds
    BY LifecycleBounds DEF TypeOK, OperandInv, fuse_journal, Ids
<1>2. fuse \in FuseType /\ nextId \in 0..MaxOps /\ "phase" \in FuseSteps
    BY <1>1 DEF TypeOK, FuseType, Ids, FuseSteps
<1>3. fuse' = [fuse EXCEPT !.pc = "phase", !.id = nextId]
    BY DEF fuse_journal
<1>4. fuse' \in FuseType /\ fuse'.pc = "phase" /\ fuse'.w = fuse.w
           /\ fuse'.kind = fuse.kind /\ fuse'.id = nextId
    BY ONLY <1>2, <1>3 DEF FuseType
<1>5. QED BY <1>1, <1>4 DEF fuse_journal

(* A row added with the next identifier leaves identifiers unique. *)
LEMMA FreshRow ==
    ASSUME TypeOK, RowInv, NEW new, new.id = nextId, rows' = rows \cup {new},
        nextId' = nextId + 1
    PROVE  /\ (\A row \in rows : row.id < nextId)'
           /\ (\A row, other \in rows : row.id = other.id => row = other)'
           /\ \A row \in rows : row.id # nextId
<1>1. nextId \in Int /\ \A row \in rows : row.id \in Int /\ row.id < nextId
    BY LifecycleBounds DEF TypeOK, RowInv, Ids
<1>2. \A row \in rows : row.id # nextId
    BY <1>1
<1>3. \A row \in rows' : row.id < nextId'
    BY <1>1
<1>4. \A row, other \in rows' : row.id = other.id => row = other
    BY <1>2 DEF RowInv
<1>5. QED BY <1>2, <1>3, <1>4

(* What a change of one Workspace's state leaves alone. *)
LEMMA StateUpdate ==
    ASSUME TypeOK, NEW w \in Workspaces, NEW s, record' = [record EXCEPT ![w].state = s]
    PROVE  /\ record'[w] = [state |-> s, branch |-> record[w].branch]
           /\ \A v \in Workspaces \ {w} : record'[v] = record[v]
<1>1. record \in [Workspaces -> [state : States, branch : Branches \cup {NoBranch}]]
    BY DEF TypeOK
<1>2. record'[w] = [record[w] EXCEPT !.state = s]
    /\ \A v \in Workspaces \ {w} : record'[v] = record[v]
    BY <1>1
<1>3. record[w] \in [state : States, branch : Branches \cup {NoBranch}]
    BY <1>1
<1>4. [record[w] EXCEPT !.state = s] = [state |-> s, branch |-> record[w].branch]
    BY ONLY <1>3
<1>5. QED BY <1>2, <1>4

-----------------------------------------------------------------------------
(* The steps of a reclaimer, one by one. *)

(* The reclaimer t goes on to step s. *)
Advanced(t, s) == (reclaimers \ {t}) \cup {[w |-> t.w, id |-> t.id, pc |-> s]}

GitReclaimed(t) ==
    /\ t.pc = "git" /\ reclaimers' = Advanced(t, "reclaim_storage")
    /\ \E gone \in OneOf(AtMount(t.w)) : worktrees' = worktrees \ gone
    /\ UNCHANGED <<rows, dirs, files, tombs, record, faults>>
StorageReclaimed(t) ==
    /\ t.pc = "reclaim_storage" /\ reclaimers' = Advanced(t, "tombstones")
    /\ dirs' = [dirs EXCEPT ![t.w] = {}] /\ files' = {f \in files : f.w # t.w}
    /\ UNCHANGED <<rows, worktrees, tombs, record, faults>>
TombstonesReclaimed(t) ==
    /\ t.pc = "tombstones" /\ reclaimers' = Advanced(t, "reclaimed")
    /\ tombs' = tombs \ {t.w}
    /\ UNCHANGED <<rows, worktrees, dirs, files, record, faults>>
NameReleased(t) ==
    /\ t.pc = "reclaimed" /\ reclaimers' = Advanced(t, "undo_row")
    /\ record' = [record EXCEPT ![t.w].state = "Reclaimed"]
    /\ UNCHANGED <<rows, worktrees, dirs, files, tombs, faults>>
RowForgotten(t) ==
    /\ t.pc = "undo_row" /\ reclaimers' = reclaimers \ {t}
    /\ rows' = Without(t.id)
    /\ UNCHANGED <<worktrees, dirs, files, tombs, record, faults>>
GivesUp(t) ==
    /\ reclaimers' = reclaimers \ {t} /\ faults' = faults \cup {"reclaim"}
    /\ UNCHANGED <<rows, worktrees, dirs, files, tombs, record>>

(* A step of a reclaimer is a step of one removal. *)
LEMMA ReclaimerEffect ==
    ASSUME TypeOK, NEW t \in reclaimers, start_workspace_reclamation(t)
    PROVE  /\ t.w \in Workspaces /\ t.id \in Ids /\ t.pc \in ReclaimSteps /\ mode = "serving"
           /\ UNCHANGED <<nextId, branches, engines, ctl, fuse, mode, crashes, acked, kept,
               late>>
           /\ \/ GitReclaimed(t) \/ StorageReclaimed(t) \/ TombstonesReclaimed(t)
              \/ NameReleased(t) \/ RowForgotten(t) \/ GivesUp(t)
<1>1. t \in [w : Workspaces, id : Ids, pc : ReclaimSteps]
    BY DEF TypeOK
<1>2. \A s : [t EXCEPT !.pc = s] = [w |-> t.w, id |-> t.id, pc |-> s]
    BY ONLY <1>1
<1>3. mode = "serving"
      /\ UNCHANGED <<nextId, branches, engines, ctl, fuse, mode, crashes, acked, kept, late>>
    BY DEF start_workspace_reclamation, history
<1>4. CASE /\ t.pc # "undo_row"
           /\ reclaim(t.w, t.pc)
           /\ reclaimers' = (reclaimers \ {t}) \cup {[t EXCEPT !.pc = NextReclaimStep[t.pc]]}
           /\ UNCHANGED <<rows, faults>>
    <2>1. /\ NextReclaimStep["git"] = "reclaim_storage"
          /\ NextReclaimStep["reclaim_storage"] = "tombstones"
          /\ NextReclaimStep["tombstones"] = "reclaimed"
          /\ NextReclaimStep["reclaimed"] = "undo_row"
        BY DEF NextReclaimStep
    <2>2. reclaimers' = Advanced(t, NextReclaimStep[t.pc])
        BY <1>2, <1>4 DEF Advanced
    <2>3. QED
        BY ONLY <1>1, <1>3, <1>4, <2>1, <2>2
           DEF reclaim, GitReclaimed, StorageReclaimed, TombstonesReclaimed, NameReleased
<1>5. CASE t.pc = "undo_row" /\ rows' = Without(t.id) /\ reclaimers' = reclaimers \ {t}
           /\ UNCHANGED <<worktrees, dirs, files, tombs, record, faults>>
    BY <1>1, <1>3, <1>5 DEF RowForgotten
<1>6. CASE Fault("reclaim") /\ reclaimers' = reclaimers \ {t}
           /\ UNCHANGED <<worktrees, dirs, files, tombs, record, rows>>
    BY <1>1, <1>3, <1>6 DEF Fault, GivesUp
<1>7. QED BY <1>4, <1>5, <1>6 DEF start_workspace_reclamation

-----------------------------------------------------------------------------
(* Every step keeps the types. *)
LEMMA TypeStep ==
    TypeOK /\ OperandInv /\ [Next]_vars => TypeOK'
<1> SUFFICES ASSUME TypeOK, OperandInv, [Next]_vars PROVE TypeOK'
    OBVIOUS
<1> USE BranchesAssumption, LifecycleBounds
    DEF TypeOK, OperandInv, database, repository, history, NoCtl, NoFuse, State, Ids, States,
        FileKinds,
        ControlSteps, ReclaimSteps, FuseSteps, CreateSteps, UndoSteps, Building, CreateRows
<1>1. CASE \E w \in Workspaces, b \in Branches : begin_create(w, b)
    BY <1>1 DEF begin_create, Control, ControlSame
<1>2. CASE save_creating
    BY <1>2 DEF save_creating, Control, ControlSame, Goto, Fault
<1>3. CASE create_storage
    BY <1>3 DEF create_storage, Control, ControlSame, Goto, Fault
<1>4. CASE worktree_add
    BY <1>4 DEF worktree_add, Control, ControlSame, Goto, Fault
<1>5. CASE redirect_gitdir
    BY <1>5 DEF redirect_gitdir, Control, ControlSame, Goto, Fault
<1>6. CASE populate_index
    BY <1>6 DEF populate_index, Control, ControlSame, Goto, Fault
<1>7. CASE write_git_pointer
    BY <1>7 DEF write_git_pointer, Control, ControlSame, Goto, Fault
<1>8. CASE save_active
    BY <1>8 DEF save_active, Control, ControlSame, Goto, Fault
<1>9. CASE emplace_engine
    <2>1. rows' \subseteq rows /\ engines' \subseteq engines \cup {ctl.w}
        /\ acked' \subseteq acked \cup {ctl.w}
             /\ faults' \subseteq FaultPoints /\ ctl' = NoCtl /\ ctl.w \in Workspaces
        BY <1>9 DEF emplace_engine, Control, Fault, Without
    <2>2. QED BY <1>9, <2>1 DEF emplace_engine, ControlSame
<1>10. CASE rollback_worktree
    BY <1>10 DEF rollback_worktree, Undoing, UndoSame, Goto, Fault
<1>11. CASE rollback_branch
    BY <1>11 DEF rollback_branch, Undoing, UndoSame, Goto, Fault
<1>12. CASE undo_storage
    BY <1>12 DEF undo_storage, Undoing, UndoSame, Goto, Fault
<1>13. CASE undo_state
    BY <1>13 DEF undo_state, Undoing, UndoSame, Goto, Fault
<1>14. CASE undo_row
    <2>1. rows' \subseteq rows /\ faults' \subseteq FaultPoints /\ ctl' = NoCtl
        BY <1>14 DEF undo_row, Without, Fault
    <2>2. QED BY <1>14, <2>1 DEF undo_row, UndoSame
<1>15. CASE \E w \in Workspaces : begin_remove(w)
    BY <1>15 DEF begin_remove, Control, ControlSame
<1>16. CASE commit_removed
    BY <1>16 DEF commit_removed, Control, Goto, Fault
<1>17. CASE Reclamation
    BY <1>17, SMTT(30) DEF Reclamation, start_workspace_reclamation, reclaim, NextReclaimStep, Without,
       Fault
<1>18. CASE \E w \in Workspaces, k \in Mutations : find_active_workspace_engine(w, k)
    BY <1>18 DEF find_active_workspace_engine, FuseSame
<1>19. CASE fuse_journal
    <2>1. CASE nextId =< MaxOps
        BY <1>19, <2>1, FuseJournalled DEF fuse_journal, FuseSame, FuseType
    <2>2. CASE ~(nextId =< MaxOps)
        BY <1>19, <2>2 DEF fuse_journal, FuseSame
    <2>3. QED BY <2>1, <2>2
<1>20. CASE fuse_stage
    <2>1. fuse.w \in Workspaces /\ fuse.id \in Ids
        BY <1>20 DEF fuse_stage
    <2>2. dirs' \in [Workspaces -> SUBSET {"upper", "git", "recovery"}]
          /\ files' \subseteq [w : Workspaces, id : Ids, in : {"recovery", "upper"}]
        BY <1>20, <2>1 DEF fuse_stage
    <2>3. rows' \subseteq [id : Ids, kind : {"workspace_create",
        "workspace_remove"} \cup FileKinds,
                           w : Workspaces, branch : Branches \cup {NoBranch},
                           phase : {"prepared", "publishing"}]
        BY <1>20 DEF fuse_stage
    <2>4. fuse' \in FuseType
        BY <1>20 DEF fuse_stage, FuseType
    <2>5. QED BY <1>20, <2>2, <2>3, <2>4 DEF fuse_stage, FuseSame, FuseType
<1>21. CASE fuse_publish
    BY <1>21 DEF fuse_publish, FuseSame, Moved, Unstaged, Without
<1>22. CASE fuse_finish
    <2>1. rows' \subseteq rows /\ faults' \subseteq FaultPoints /\ fuse' = NoFuse
        /\ fuse.w \in Workspaces
        BY <1>22 DEF fuse_finish, Fault, Without
    <2>2. tombs' \subseteq Workspaces /\ dirs' \in [Workspaces -> SUBSET {"upper", "git",
        "recovery"}]
        BY <1>22, <2>1 DEF fuse_finish
    <2>3. QED BY <1>22, <2>1, <2>2 DEF fuse_finish, FuseSame
<1>23. CASE Crash
    BY <1>23 DEF Crash
<1>24. CASE Restart
    BY <1>24 DEF Restart
<1>25. CASE recover_next_operation
    BY <1>25, SMTT(30) DEF recover_next_operation, recover_create, recover_remove, recover_file, Refuse,
       RecoverySame, Without, Moved, Unstaged
<1>26. CASE recover_reclamation
    BY <1>26, SMTT(30) DEF recover_reclamation, reclaim, NextReclaimStep, Goto, RecoverySame
<1>27. CASE open_configured_project
    BY <1>27 DEF open_configured_project
<1>28. CASE recover_error
    BY <1>28 DEF recover_error, Refuse, RecoverySame, Fault
<1>29. CASE UNCHANGED vars
    BY <1>29 DEF vars
<1>30. QED
    BY <1>1, <1>2, <1>3, <1>4, <1>5, <1>6, <1>7, <1>8, <1>9, <1>10, <1>11, <1>12, <1>13, <1>14,
       <1>15, <1>16, <1>17, <1>18, <1>19, <1>20, <1>21, <1>22, <1>23, <1>24, <1>25, <1>26,
       <1>27, <1>28, <1>29
       DEF Next, create_workspace, Undo, FileMutation, recover_interrupted_operations

(* Every step leaves each thread the operands its next step uses. *)
LEMMA OperandStep ==
    TypeOK /\ OperandInv /\ [Next]_vars => OperandInv'
<1> SUFFICES ASSUME TypeOK, OperandInv, [Next]_vars PROVE OperandInv'
    OBVIOUS
<1> USE BranchesAssumption, LifecycleBounds
    DEF TypeOK, database, repository, history, NoCtl, NoFuse, State, Ids, States, FileKinds,
        ControlSteps, ReclaimSteps, FuseSteps, CreateSteps, UndoSteps, RemoveSteps, Building,
            CreateRows, RemoveRows, FileRows, OperandInv
<1>1. CASE \E w \in Workspaces, b \in Branches : begin_create(w, b)
    BY <1>1 DEF begin_create, Control, ControlSame
<1>2. CASE save_creating
    BY <1>2 DEF save_creating, Control, ControlSame, Goto, Fault
<1>3. CASE create_storage
    BY <1>3 DEF create_storage, Control, ControlSame, Goto, Fault
<1>4. CASE worktree_add
    BY <1>4 DEF worktree_add, Control, ControlSame, Goto, Fault
<1>5. CASE redirect_gitdir
    BY <1>5 DEF redirect_gitdir, Control, ControlSame, Goto, Fault
<1>6. CASE populate_index
    BY <1>6 DEF populate_index, Control, ControlSame, Goto, Fault
<1>7. CASE write_git_pointer
    BY <1>7 DEF write_git_pointer, Control, ControlSame, Goto, Fault
<1>8. CASE save_active
    BY <1>8 DEF save_active, Control, ControlSame, Goto, Fault
<1>9. CASE emplace_engine
    BY <1>9 DEF emplace_engine, Control, ControlSame, Fault, Without
<1>10. CASE rollback_worktree
    BY <1>10 DEF rollback_worktree, Undoing, UndoSame, Goto, Fault
<1>11. CASE rollback_branch
    BY <1>11 DEF rollback_branch, Undoing, UndoSame, Goto, Fault
<1>12. CASE undo_storage
    BY <1>12 DEF undo_storage, Undoing, UndoSame, Goto, Fault
<1>13. CASE undo_state
    BY <1>13 DEF undo_state, Undoing, UndoSame, Goto, Fault
<1>14. CASE undo_row
    BY <1>14 DEF undo_row, Undoing, UndoSame, Without, Fault
<1>15. CASE \E w \in Workspaces : begin_remove(w)
    BY <1>15 DEF begin_remove, Control, ControlSame
<1>16. CASE commit_removed
    BY <1>16 DEF commit_removed, Control, Goto, Fault
<1>17. CASE Reclamation
    BY <1>17 DEF Reclamation, start_workspace_reclamation, reclaim, NextReclaimStep, Without,
       Fault
<1>18. CASE \E w \in Workspaces, k \in Mutations : find_active_workspace_engine(w, k)
    BY <1>18 DEF find_active_workspace_engine, FuseSame
<1>19. CASE fuse_journal
    <2>1. CASE nextId =< MaxOps
        BY <1>19, <2>1, FuseJournalled DEF fuse_journal, FuseSame, FuseType
    <2>2. CASE ~(nextId =< MaxOps)
        BY <1>19, <2>2 DEF fuse_journal, FuseSame
    <2>3. QED BY <2>1, <2>2
<1>20. CASE fuse_stage
    BY <1>20 DEF fuse_stage, FuseSame
<1>21. CASE fuse_publish
    BY <1>21 DEF fuse_publish, FuseSame, Moved, Unstaged, Without
<1>22. CASE fuse_finish
    BY <1>22 DEF fuse_finish, FuseSame, Without, Fault
<1>23. CASE Crash
    BY <1>23 DEF Crash
<1>24. CASE Restart
    BY <1>24 DEF Restart
<1>25. CASE recover_next_operation
    BY <1>25 DEF recover_next_operation, recover_create, recover_remove, recover_file, Refuse,
       RecoverySame, Without, Moved, Unstaged
<1>26. CASE recover_reclamation
    BY <1>26 DEF recover_reclamation, reclaim, NextReclaimStep, Goto, RecoverySame
<1>27. CASE open_configured_project
    BY <1>27 DEF open_configured_project
<1>28. CASE recover_error
    BY <1>28 DEF recover_error, Refuse, RecoverySame, Fault
<1>29. CASE UNCHANGED vars
    BY <1>29 DEF vars
<1>30. QED
    BY <1>1, <1>2, <1>3, <1>4, <1>5, <1>6, <1>7, <1>8, <1>9, <1>10, <1>11, <1>12, <1>13, <1>14,
       <1>15, <1>16, <1>17, <1>18, <1>19, <1>20, <1>21, <1>22, <1>23, <1>24, <1>25, <1>26,
       <1>27, <1>28, <1>29
       DEF Next, create_workspace, Undo, FileMutation, recover_interrupted_operations

(* Every step keeps the threads apart by mode. *)
LEMMA ModeStep ==
    TypeOK /\ OperandInv /\ ModeInv /\ [Next]_vars => ModeInv'
<1> SUFFICES ASSUME TypeOK, OperandInv, ModeInv, [Next]_vars PROVE ModeInv'
    OBVIOUS
<1> USE BranchesAssumption, LifecycleBounds
    DEF TypeOK, database, repository, history, NoCtl, NoFuse, State, Ids, States, FileKinds,
        ControlSteps, ReclaimSteps, FuseSteps, CreateSteps, UndoSteps, RemoveSteps, Building,
            CreateRows, RemoveRows, FileRows, OperandInv, ModeInv
<1>1. CASE \E w \in Workspaces, b \in Branches : begin_create(w, b)
    BY <1>1 DEF begin_create, Control, ControlSame
<1>2. CASE save_creating
    BY <1>2 DEF save_creating, Control, ControlSame, Goto, Fault
<1>3. CASE create_storage
    BY <1>3 DEF create_storage, Control, ControlSame, Goto, Fault
<1>4. CASE worktree_add
    BY <1>4 DEF worktree_add, Control, ControlSame, Goto, Fault
<1>5. CASE redirect_gitdir
    BY <1>5 DEF redirect_gitdir, Control, ControlSame, Goto, Fault
<1>6. CASE populate_index
    BY <1>6 DEF populate_index, Control, ControlSame, Goto, Fault
<1>7. CASE write_git_pointer
    BY <1>7 DEF write_git_pointer, Control, ControlSame, Goto, Fault
<1>8. CASE save_active
    BY <1>8 DEF save_active, Control, ControlSame, Goto, Fault
<1>9. CASE emplace_engine
    BY <1>9 DEF emplace_engine, Control, ControlSame, Fault, Without
<1>10. CASE rollback_worktree
    BY <1>10 DEF rollback_worktree, Undoing, UndoSame, Goto, Fault
<1>11. CASE rollback_branch
    BY <1>11 DEF rollback_branch, Undoing, UndoSame, Goto, Fault
<1>12. CASE undo_storage
    BY <1>12 DEF undo_storage, Undoing, UndoSame, Goto, Fault
<1>13. CASE undo_state
    BY <1>13 DEF undo_state, Undoing, UndoSame, Goto, Fault
<1>14. CASE undo_row
    BY <1>14 DEF undo_row, Undoing, UndoSame, Without, Fault
<1>15. CASE \E w \in Workspaces : begin_remove(w)
    BY <1>15 DEF begin_remove, Control, ControlSame
<1>16. CASE commit_removed
    BY <1>16 DEF commit_removed, Control, Goto, Fault
<1>17. CASE Reclamation
    BY <1>17 DEF Reclamation, start_workspace_reclamation, reclaim, NextReclaimStep, Without,
       Fault
<1>18. CASE \E w \in Workspaces, k \in Mutations : find_active_workspace_engine(w, k)
    BY <1>18 DEF find_active_workspace_engine, FuseSame
<1>19. CASE fuse_journal
    BY <1>19 DEF fuse_journal, FuseSame
<1>20. CASE fuse_stage
    BY <1>20 DEF fuse_stage, FuseSame
<1>21. CASE fuse_publish
    BY <1>21 DEF fuse_publish, FuseSame, Moved, Unstaged, Without
<1>22. CASE fuse_finish
    BY <1>22 DEF fuse_finish, FuseSame, Without, Fault
<1>23. CASE Crash
    BY <1>23 DEF Crash
<1>24. CASE Restart
    BY <1>24 DEF Restart
<1>25. CASE recover_next_operation
    BY <1>25 DEF recover_next_operation, recover_create, recover_remove, recover_file, Refuse,
       RecoverySame, Without, Moved, Unstaged
<1>26. CASE recover_reclamation
    BY <1>26 DEF recover_reclamation, reclaim, NextReclaimStep, Goto, RecoverySame
<1>27. CASE open_configured_project
    BY <1>27 DEF open_configured_project
<1>28. CASE recover_error
    BY <1>28 DEF recover_error, Refuse, RecoverySame, Fault
<1>29. CASE UNCHANGED vars
    BY <1>29 DEF vars
<1>30. QED
    BY <1>1, <1>2, <1>3, <1>4, <1>5, <1>6, <1>7, <1>8, <1>9, <1>10, <1>11, <1>12, <1>13, <1>14,
       <1>15, <1>16, <1>17, <1>18, <1>19, <1>20, <1>21, <1>22, <1>23, <1>24, <1>25, <1>26,
       <1>27, <1>28, <1>29
       DEF Next, create_workspace, Undo, FileMutation, recover_interrupted_operations

(* Every step keeps identifiers unique and each thread's row in the journal. *)
LEMMA RowStep ==
    TypeOK /\ OperandInv /\ ModeInv /\ RowInv /\ [Next]_vars => RowInv'
<1> SUFFICES ASSUME TypeOK, OperandInv, ModeInv, RowInv, [Next]_vars PROVE RowInv'
    OBVIOUS
<1> USE BranchesAssumption, LifecycleBounds
    DEF TypeOK, database, repository, history, NoCtl, NoFuse, State, Ids, States, FileKinds,
        ControlSteps, ReclaimSteps, FuseSteps, CreateSteps, UndoSteps, RemoveSteps, Building,
            CreateRows, RemoveRows, FileRows, OperandInv, ModeInv, RowInv
<1>1. CASE \E w \in Workspaces, b \in Branches : begin_create(w, b)
    <2>1. PICK w \in Workspaces, b \in Branches : begin_create(w, b)
        BY <1>1
    <2> DEFINE new == [id |-> nextId, kind |-> "workspace_create", w |-> w, branch |-> b,
                       phase |-> "prepared"]
    <2>2. /\ rows' = rows \cup {new} /\ nextId' = nextId + 1
          /\ ctl' = [pc |-> "record", w |-> w, branch |-> b, id |-> nextId]
          /\ UNCHANGED <<reclaimers, fuse>>
        BY <2>1 DEF begin_create, ControlSame
    <2>3. /\ CreateRows' = CreateRows \cup {new} /\ RemoveRows' = RemoveRows
        /\ FileRows' = FileRows
          /\ new.id = nextId /\ new.w = w /\ new.branch = b
        BY <2>2
    <2> HIDE DEF new
    <2>4. /\ (\A row \in rows : row.id < nextId)'
          /\ (\A row, other \in rows : row.id = other.id => row = other)'
          /\ \A row \in rows : row.id # nextId
        BY <2>2, <2>3, FreshRow
    <2>5. \A t \in reclaimers : t.id # nextId
        BY <2>4
    <2> HIDE DEF TypeOK, OperandInv, ModeInv, CreateRows, RemoveRows, FileRows
    <2>6. QED BY <2>2, <2>3, <2>4, <2>5
<1>2. CASE save_creating
    BY <1>2 DEF save_creating, Control, ControlSame, Goto, Fault
<1>3. CASE create_storage
    BY <1>3 DEF create_storage, Control, ControlSame, Goto, Fault
<1>4. CASE worktree_add
    BY <1>4 DEF worktree_add, Control, ControlSame, Goto, Fault
<1>5. CASE redirect_gitdir
    BY <1>5 DEF redirect_gitdir, Control, ControlSame, Goto, Fault
<1>6. CASE populate_index
    BY <1>6 DEF populate_index, Control, ControlSame, Goto, Fault
<1>7. CASE write_git_pointer
    BY <1>7 DEF write_git_pointer, Control, ControlSame, Goto, Fault
<1>8. CASE save_active
    BY <1>8 DEF save_active, Control, ControlSame, Goto, Fault
<1>9. CASE emplace_engine
    BY <1>9 DEF emplace_engine, Control, ControlSame, Fault, Without
<1>10. CASE rollback_worktree
    BY <1>10 DEF rollback_worktree, Undoing, UndoSame, Goto, Fault
<1>11. CASE rollback_branch
    BY <1>11 DEF rollback_branch, Undoing, UndoSame, Goto, Fault
<1>12. CASE undo_storage
    BY <1>12 DEF undo_storage, Undoing, UndoSame, Goto, Fault
<1>13. CASE undo_state
    BY <1>13 DEF undo_state, Undoing, UndoSame, Goto, Fault
<1>14. CASE undo_row
    BY <1>14 DEF undo_row, Undoing, UndoSame, Without, Fault
<1>15. CASE \E w \in Workspaces : begin_remove(w)
    <2>1. PICK w \in Workspaces : begin_remove(w)
        BY <1>15
    <2> DEFINE new == [id |-> nextId, kind |-> "workspace_remove", w |-> w, branch |-> NoBranch,
                       phase |-> "prepared"]
    <2>2. /\ rows' = rows \cup {new} /\ nextId' = nextId + 1
          /\ ctl' = [pc |-> "removed", w |-> w, branch |-> NoBranch, id |-> nextId]
          /\ UNCHANGED <<reclaimers, fuse>>
        BY <2>1 DEF begin_remove, ControlSame
    <2>3. /\ CreateRows' = CreateRows /\ RemoveRows' = RemoveRows \cup {new}
        /\ FileRows' = FileRows
          /\ new.id = nextId /\ new.w = w /\ new.branch = NoBranch
        BY <2>2
    <2> HIDE DEF new
    <2>4. /\ (\A row \in rows : row.id < nextId)'
          /\ (\A row, other \in rows : row.id = other.id => row = other)'
          /\ \A row \in rows : row.id # nextId
        BY <2>2, <2>3, FreshRow
    <2>5. \A t \in reclaimers : t.id # nextId
        BY <2>4
    <2> HIDE DEF TypeOK, OperandInv, ModeInv, CreateRows, RemoveRows, FileRows
    <2>6. QED BY <2>2, <2>3, <2>4, <2>5
<1>16. CASE commit_removed
    BY <1>16, SMTT(30) DEF commit_removed, Control, Goto, Fault
<1>17. CASE Reclamation
    <2>1. PICK t \in reclaimers : start_workspace_reclamation(t)
        BY <1>17 DEF Reclamation
    <2>2. UNCHANGED <<nextId, ctl, fuse>> /\ t.id \in Ids /\ t.w \in Workspaces
        BY <2>1 DEF start_workspace_reclamation
    <2>3. CASE t.pc # "undo_row" /\ UNCHANGED rows
               /\ reclaimers' = (reclaimers \ {t}) \cup {[t EXCEPT !.pc = NextReclaimStep[t.pc]]}
        BY <2>2, <2>3
    <2>4. CASE rows' = Without(t.id) /\ reclaimers' = reclaimers \ {t}
        BY <2>2, <2>4 DEF Without
    <2>5. CASE UNCHANGED rows /\ reclaimers' = reclaimers \ {t}
        BY <2>2, <2>5
    <2>6. QED BY <2>1, <2>3, <2>4, <2>5 DEF start_workspace_reclamation
<1>18. CASE \E w \in Workspaces, k \in Mutations : find_active_workspace_engine(w, k)
    BY <1>18 DEF find_active_workspace_engine, FuseSame
<1>19. CASE fuse_journal
    <2>1. CASE nextId =< MaxOps
        <3> DEFINE new == [id |-> nextId, kind |-> fuse.kind, w |-> fuse.w, branch |-> NoBranch,
                           phase |-> "prepared"]
        <3>1. /\ rows' = rows \cup {new} /\ nextId' = nextId + 1
              /\ UNCHANGED <<reclaimers, ctl>>
              /\ fuse'.id = nextId /\ fuse'.w = fuse.w /\ fuse.kind \in FileKinds
            BY <1>19, <2>1, FuseJournalled DEF fuse_journal, FuseSame
        <3>2. /\ CreateRows' = CreateRows /\ RemoveRows' = RemoveRows
            /\ FileRows' = FileRows \cup {new}
              /\ new.id = nextId /\ new.w = fuse.w
            BY <3>1
        <3> HIDE DEF new
        <3>3. /\ (\A row \in rows : row.id < nextId)'
              /\ (\A row, other \in rows : row.id = other.id => row = other)'
            BY <3>1, <3>2, FreshRow
        <3> HIDE DEF TypeOK, OperandInv, ModeInv, CreateRows, RemoveRows, FileRows
        <3>4. QED BY <3>1, <3>2, <3>3
    <2>2. CASE ~(nextId =< MaxOps)
        BY <1>19, <2>2 DEF fuse_journal, FuseSame
    <2>3. QED BY <2>1, <2>2
<1>20. CASE fuse_stage
    <2> DEFINE Put(row) == IF row.id = fuse.id THEN [row EXCEPT !.phase = "publishing"] ELSE row
    <2>1. rows' = {Put(row) : row \in rows} /\ UNCHANGED <<reclaimers, ctl, nextId>>
        BY <1>20 DEF fuse_stage, FuseSame
    <2>2. \A row \in rows : Put(row).id = row.id /\ Put(row).w = row.w
        /\ Put(row).kind = row.kind
                            /\ Put(row).branch = row.branch
        OBVIOUS
    <2>3. fuse'.pc = "publish" /\ fuse'.id = fuse.id /\ fuse'.w = fuse.w /\ fuse.pc = "phase"
        BY <1>20 DEF fuse_stage
    <2> HIDE DEF Put
    <2>4. QED BY <2>1, <2>2, <2>3
<1>21. CASE fuse_publish
    BY <1>21 DEF fuse_publish, FuseSame, Moved, Unstaged, Without
<1>22. CASE fuse_finish
    BY <1>22 DEF fuse_finish, FuseSame, Without, Fault
<1>23. CASE Crash
    BY <1>23 DEF Crash
<1>24. CASE Restart
    BY <1>24 DEF Restart
<1>25. CASE recover_next_operation
    BY <1>25 DEF recover_next_operation, recover_create, recover_remove, recover_file, Refuse,
       RecoverySame, Without, Moved, Unstaged
<1>26. CASE recover_reclamation
    BY <1>26 DEF recover_reclamation, reclaim, NextReclaimStep, Goto, RecoverySame
<1>27. CASE open_configured_project
    BY <1>27 DEF open_configured_project
<1>28. CASE recover_error
    BY <1>28 DEF recover_error, Refuse, RecoverySame, Fault
<1>29. CASE UNCHANGED vars
    BY <1>29 DEF vars
<1>30. QED
    BY <1>1, <1>2, <1>3, <1>4, <1>5, <1>6, <1>7, <1>8, <1>9, <1>10, <1>11, <1>12, <1>13, <1>14,
       <1>15, <1>16, <1>17, <1>18, <1>19, <1>20, <1>21, <1>22, <1>23, <1>24, <1>25, <1>26,
       <1>27, <1>28, <1>29
       DEF Next, create_workspace, Undo, FileMutation, recover_interrupted_operations

(* Every step keeps the state of the Workspace each thread works on: the control *)
(* server and the reclaimers never meet in one Workspace that is not settled. *)
LEMMA StateStep ==
    TypeOK /\ OperandInv /\ ModeInv /\ RowInv /\ StateInv /\ PendingInv
        /\ [Next]_vars => StateInv'
<1> SUFFICES ASSUME TypeOK, OperandInv, ModeInv, RowInv, StateInv, PendingInv,
            [Next]_vars PROVE StateInv'
    OBVIOUS
<1> USE BranchesAssumption, LifecycleBounds
    DEF TypeOK, database, repository, history, NoCtl, NoFuse, State, Ids, States, FileKinds,
        ControlSteps, ReclaimSteps, FuseSteps, CreateSteps, UndoSteps, RemoveSteps, Building,
            CreateRows, RemoveRows, FileRows, OperandInv, ModeInv, RowInv, StateInv, PendingInv
<1>1. CASE \E w \in Workspaces, b \in Branches : begin_create(w, b)
    BY <1>1 DEF begin_create, Control, ControlSame
<1>2. CASE save_creating
    BY <1>2, SMTT(30) DEF save_creating, Control, ControlSame, Goto, Fault
<1>3. CASE create_storage
    BY <1>3 DEF create_storage, Control, ControlSame, Goto, Fault
<1>4. CASE worktree_add
    BY <1>4 DEF worktree_add, Control, ControlSame, Goto, Fault
<1>5. CASE redirect_gitdir
    BY <1>5 DEF redirect_gitdir, Control, ControlSame, Goto, Fault
<1>6. CASE populate_index
    BY <1>6 DEF populate_index, Control, ControlSame, Goto, Fault
<1>7. CASE write_git_pointer
    BY <1>7 DEF write_git_pointer, Control, ControlSame, Goto, Fault
<1>8. CASE save_active
    <2>1. ctl'.w = ctl.w /\ ctl'.id = ctl.id /\ ctl'.branch = ctl.branch /\ ctl.w \in Workspaces
          /\ ctl.pc = "active" /\ mode = "serving" /\ UNCHANGED <<rows, reclaimers, engines,
              mode, fuse, late, tombs>>
        BY <1>8 DEF save_active, Goto, Control, ControlSame
    <2>2. CASE record' = [record EXCEPT ![ctl.w].state = "Active"] /\ ctl'.pc = "settle"
        /\ UNCHANGED faults
        <3>1. /\ record'[ctl.w] = [state |-> "Active", branch |-> record[ctl.w].branch]
              /\ \A v \in Workspaces \ {ctl.w} : record'[v] = record[v]
            BY <2>1, <2>2, StateUpdate
        <3>2. QED BY <2>1, <2>2, <3>1
    <2>3. CASE UNCHANGED record /\ ctl'.pc = "undo_git" /\ faults' = faults \cup {"active"}
        BY <2>1, <2>3
    <2>4. QED BY <1>8, <2>2, <2>3 DEF save_active, Goto, Fault
<1>9. CASE emplace_engine
    BY <1>9 DEF emplace_engine, Control, ControlSame, Fault, Without
<1>10. CASE rollback_worktree
    BY <1>10 DEF rollback_worktree, Undoing, UndoSame, Goto, Fault
<1>11. CASE rollback_branch
    BY <1>11 DEF rollback_branch, Undoing, UndoSame, Goto, Fault
<1>12. CASE undo_storage
    BY <1>12 DEF undo_storage, Undoing, UndoSame, Goto, Fault
<1>13. CASE undo_state
    BY <1>13 DEF undo_state, Undoing, UndoSame, Goto, Fault
<1>14. CASE undo_row
    BY <1>14 DEF undo_row, Undoing, UndoSame, Without, Fault
<1>15. CASE \E w \in Workspaces : begin_remove(w)
    BY <1>15 DEF begin_remove, Control, ControlSame
<1>16. CASE commit_removed
    BY <1>16 DEF commit_removed, Control, Goto, Fault
<1>17. CASE Reclamation
    <2>1. PICK t \in reclaimers : start_workspace_reclamation(t)
        BY <1>17 DEF Reclamation
    <2>2. /\ t.w \in Workspaces /\ t.id \in Ids /\ t.pc \in ReclaimSteps /\ mode = "serving"
          /\ UNCHANGED <<nextId, branches, engines, ctl, fuse, mode, crashes, acked, kept,
              late>>
        BY <2>1, ReclaimerEffect
    <2>3. CASE GitReclaimed(t)
        BY <2>2, <2>3 DEF GitReclaimed, Advanced
    <2>4. CASE StorageReclaimed(t)
        BY <2>2, <2>4 DEF StorageReclaimed, Advanced
    <2>5. CASE TombstonesReclaimed(t)
        BY <2>2, <2>5 DEF TombstonesReclaimed, Advanced
    <2>6. CASE NameReleased(t)
        BY <2>2, <2>6 DEF NameReleased, Advanced
    <2>7. CASE RowForgotten(t)
        BY <2>2, <2>7 DEF RowForgotten, Without
    <2>8. CASE GivesUp(t)
        BY <2>2, <2>8 DEF GivesUp
    <2>9. QED BY <2>1, <2>3, <2>4, <2>5, <2>6, <2>7, <2>8, ReclaimerEffect
<1>18. CASE \E w \in Workspaces, k \in Mutations : find_active_workspace_engine(w, k)
    BY <1>18 DEF find_active_workspace_engine, FuseSame
<1>19. CASE fuse_journal
    BY <1>19 DEF fuse_journal, FuseSame
<1>20. CASE fuse_stage
    BY <1>20 DEF fuse_stage, FuseSame
<1>21. CASE fuse_publish
    BY <1>21 DEF fuse_publish, FuseSame, Moved, Unstaged, Without
<1>22. CASE fuse_finish
    BY <1>22 DEF fuse_finish, FuseSame, Without, Fault
<1>23. CASE Crash
    BY <1>23 DEF Crash
<1>24. CASE Restart
    BY <1>24 DEF Restart
<1>25. CASE recover_next_operation
    BY <1>25 DEF recover_next_operation, recover_create, recover_remove, recover_file, Refuse,
       RecoverySame, Without, Moved, Unstaged
<1>26. CASE recover_reclamation
    BY <1>26 DEF recover_reclamation, reclaim, NextReclaimStep, Goto, RecoverySame
<1>27. CASE open_configured_project
    BY <1>27 DEF open_configured_project
<1>28. CASE recover_error
    BY <1>28 DEF recover_error, Refuse, RecoverySame, Fault
<1>29. CASE UNCHANGED vars
    BY <1>29 DEF vars
<1>30. QED
    BY <1>1, <1>2, <1>3, <1>4, <1>5, <1>6, <1>7, <1>8, <1>9, <1>10, <1>11, <1>12, <1>13, <1>14,
       <1>15, <1>16, <1>17, <1>18, <1>19, <1>20, <1>21, <1>22, <1>23, <1>24, <1>25, <1>26,
       <1>27, <1>28, <1>29
       DEF Next, create_workspace, Undo, FileMutation, recover_interrupted_operations

(* No step loses the row of a pending creation or removal. *)
LEMMA PendingStep ==
    TypeOK /\ OperandInv /\ ModeInv /\ RowInv /\ StateInv /\ PendingInv
        /\ [Next]_vars => PendingInv'
<1> SUFFICES ASSUME TypeOK, OperandInv, ModeInv, RowInv, StateInv, PendingInv,
            [Next]_vars PROVE PendingInv'
    OBVIOUS
<1> USE BranchesAssumption, LifecycleBounds
    DEF TypeOK, database, repository, history, NoCtl, NoFuse, State, Ids, States, FileKinds,
        ControlSteps, ReclaimSteps, FuseSteps, CreateSteps, UndoSteps, RemoveSteps, Building,
            CreateRows, RemoveRows, FileRows, OperandInv, ModeInv, RowInv, StateInv, PendingInv
<1>1. CASE \E w \in Workspaces, b \in Branches : begin_create(w, b)
    BY <1>1 DEF begin_create, Control, ControlSame
<1>2. CASE save_creating
    <2>1. ctl'.w = ctl.w /\ ctl'.id = ctl.id /\ ctl'.branch = ctl.branch /\ ctl.w \in Workspaces
          /\ ctl.pc = "record" /\ mode = "serving" /\ UNCHANGED <<rows, reclaimers, engines,
              mode, fuse, late, tombs>>
        BY <1>2 DEF save_creating, Goto, Control, ControlSame
    <2>2. CASE record' = [record EXCEPT ![ctl.w] = [state |-> "Creating",
        branch |-> ctl.branch]]
               /\ ctl'.pc = "storage" /\ UNCHANGED faults
        <3>1. /\ record'[ctl.w] = [state |-> "Creating", branch |-> ctl.branch]
              /\ \A v \in Workspaces \ {ctl.w} : record'[v] = record[v]
            BY <2>1, <2>2
        <3>2. QED BY <2>1, <2>2, <3>1
    <2>3. CASE UNCHANGED record /\ ctl'.pc = "undo_row" /\ faults' = faults \cup {"record"}
        BY <2>1, <2>3
    <2>4. QED BY <1>2, <2>2, <2>3 DEF save_creating, Goto, Fault
<1>3. CASE create_storage
    BY <1>3 DEF create_storage, Control, ControlSame, Goto, Fault
<1>4. CASE worktree_add
    BY <1>4 DEF worktree_add, Control, ControlSame, Goto, Fault
<1>5. CASE redirect_gitdir
    BY <1>5 DEF redirect_gitdir, Control, ControlSame, Goto, Fault
<1>6. CASE populate_index
    BY <1>6 DEF populate_index, Control, ControlSame, Goto, Fault
<1>7. CASE write_git_pointer
    BY <1>7 DEF write_git_pointer, Control, ControlSame, Goto, Fault
<1>8. CASE save_active
    <2>1. ctl'.w = ctl.w /\ ctl'.id = ctl.id /\ ctl'.branch = ctl.branch /\ ctl.w \in Workspaces
          /\ ctl.pc = "active" /\ mode = "serving" /\ UNCHANGED <<rows, reclaimers, engines,
              mode, fuse, late, tombs>>
        BY <1>8 DEF save_active, Goto, Control, ControlSame
    <2>2. CASE record' = [record EXCEPT ![ctl.w].state = "Active"] /\ ctl'.pc = "settle"
        /\ UNCHANGED faults
        <3>1. /\ record'[ctl.w] = [state |-> "Active", branch |-> record[ctl.w].branch]
              /\ \A v \in Workspaces \ {ctl.w} : record'[v] = record[v]
            BY <2>1, <2>2, StateUpdate
        <3>2. QED BY <2>1, <2>2, <3>1
    <2>3. CASE UNCHANGED record /\ ctl'.pc = "undo_git" /\ faults' = faults \cup {"active"}
        BY <2>1, <2>3
    <2>4. QED BY <1>8, <2>2, <2>3 DEF save_active, Goto, Fault
<1>9. CASE emplace_engine
    BY <1>9 DEF emplace_engine, Control, ControlSame, Fault, Without
<1>10. CASE rollback_worktree
    BY <1>10 DEF rollback_worktree, Undoing, UndoSame, Goto, Fault
<1>11. CASE rollback_branch
    BY <1>11 DEF rollback_branch, Undoing, UndoSame, Goto, Fault
<1>12. CASE undo_storage
    BY <1>12 DEF undo_storage, Undoing, UndoSame, Goto, Fault
<1>13. CASE undo_state
    BY <1>13 DEF undo_state, Undoing, UndoSame, Goto, Fault
<1>14. CASE undo_row
    BY <1>14 DEF undo_row, Undoing, UndoSame, Without, Fault
<1>15. CASE \E w \in Workspaces : begin_remove(w)
    BY <1>15 DEF begin_remove, Control, ControlSame
<1>16. CASE commit_removed
    <2>1. ctl.w \in Workspaces /\ ctl.id \in Ids /\ ctl.pc = "removed" /\ mode = "serving"
          /\ UNCHANGED <<rows, nextId, tombs, dirs, files, branches, worktrees, fuse, mode,
              crashes, kept>>
        BY <1>16 DEF commit_removed, Control
    <2>2. CASE /\ ctl.w \in engines
               /\ record' = [record EXCEPT ![ctl.w].state = "Removed"]
               /\ engines' = engines \ {ctl.w}
               /\ reclaimers' = reclaimers \cup {[w |-> ctl.w, id |-> ctl.id, pc |-> "git"]}
               /\ late' = late \cup ({ctl.w} \cap {fuse.w})
               /\ ctl' = NoCtl /\ UNCHANGED faults
        <3>1. /\ record'[ctl.w] = [state |-> "Removed", branch |-> record[ctl.w].branch]
              /\ \A v \in Workspaces \ {ctl.w} : record'[v] = record[v]
            BY <2>1, <2>2, StateUpdate
        <3>2. ("undo_state" \notin faults =>
                 \A w \in Workspaces : State(w) = "Creating" =>
                    \E row \in CreateRows : row.w = w)'
            BY <2>1, <2>2, <3>1
        <3>3. (\A w \in Workspaces : State(w) = "Removed" =>
                 \E row \in RemoveRows : row.w = w
                     /\ \A t \in reclaimers : t.id = row.id => t.pc # "undo_row")'
            BY <2>1, <2>2, <3>1
        <3>4. CASE "undo_row" \in faults
            BY <2>2, <3>2, <3>3, <3>4
        <3>5. CASE "undo_row" \notin faults
            <4>1. \A row \in CreateRows : row.w # ctl.w /\ row.w \in Workspaces /\ row.id # ctl.id
                BY <2>1, <2>2, <3>5
            <4>2. QED BY <2>1, <2>2, <3>1, <3>2, <3>3, <3>5, <4>1
        <3>6. QED BY <3>4, <3>5
    <2>3. CASE /\ ctl' = [ctl EXCEPT !.pc = "undo_row"] /\ faults \subseteq faults'
               /\ UNCHANGED <<record, engines, reclaimers, late>>
        BY <2>1, <2>3
    <2>4. QED BY <1>16, <2>2, <2>3 DEF commit_removed, Goto, Fault
<1>17. CASE Reclamation
    <2>1. PICK t \in reclaimers : start_workspace_reclamation(t)
        BY <1>17 DEF Reclamation
    <2>2. /\ t.w \in Workspaces /\ t.id \in Ids /\ t.pc \in ReclaimSteps /\ mode = "serving"
          /\ UNCHANGED <<nextId, branches, engines, ctl, fuse, mode, crashes, acked, kept,
              late>>
        BY <2>1, ReclaimerEffect
    <2>3. CASE GitReclaimed(t)
        BY <2>2, <2>3 DEF GitReclaimed, Advanced
    <2>4. CASE StorageReclaimed(t)
        BY <2>2, <2>4 DEF StorageReclaimed, Advanced
    <2>5. CASE TombstonesReclaimed(t)
        BY <2>2, <2>5 DEF TombstonesReclaimed, Advanced
    <2>6. CASE NameReleased(t)
        BY <2>2, <2>6 DEF NameReleased, Advanced
    <2>7. CASE RowForgotten(t)
        BY <2>2, <2>7 DEF RowForgotten, Without
    <2>8. CASE GivesUp(t)
        BY <2>2, <2>8 DEF GivesUp
    <2>9. QED BY <2>1, <2>3, <2>4, <2>5, <2>6, <2>7, <2>8, ReclaimerEffect
<1>18. CASE \E w \in Workspaces, k \in Mutations : find_active_workspace_engine(w, k)
    BY <1>18 DEF find_active_workspace_engine, FuseSame
<1>19. CASE fuse_journal
    BY <1>19 DEF fuse_journal, FuseSame
<1>20. CASE fuse_stage
    BY <1>20, SMTT(30) DEF fuse_stage, FuseSame
<1>21. CASE fuse_publish
    <2>1. rows' = rows \/ (rows' = Without(fuse.id) /\ fuse.pc = "publish")
        BY <1>21 DEF fuse_publish
    <2>2. CreateRows' = CreateRows /\ RemoveRows' = RemoveRows
        BY <2>1 DEF Without
    <2>3. UNCHANGED <<record, engines, reclaimers, ctl, mode, faults>>
        BY <1>21 DEF fuse_publish, FuseSame
    <2> HIDE DEF CreateRows, RemoveRows
    <2>4. QED BY <2>2, <2>3
<1>22. CASE fuse_finish
    BY <1>22, SMTT(30) DEF fuse_finish, FuseSame, Without, Fault
<1>23. CASE Crash
    BY <1>23 DEF Crash
<1>24. CASE Restart
    BY <1>24 DEF Restart
<1>25. CASE recover_next_operation
    BY <1>25 DEF recover_next_operation, recover_create, recover_remove, recover_file, Refuse,
       RecoverySame, Without, Moved, Unstaged
<1>26. CASE recover_reclamation
    <2>1. /\ ctl.w \in Workspaces /\ ctl.id \in Ids /\ ctl'.w = ctl.w /\ ctl'.id = ctl.id
          /\ mode = "recovering" /\ UNCHANGED <<mode, rows, branches, faults, engines,
              reclaimers, fuse, late>>
        BY <1>26 DEF recover_reclamation, RecoverySame, Goto
    <2>2. CASE ctl.pc = "reclaimed" /\ ctl'.pc = "undo_row"
               /\ record' = [record EXCEPT ![ctl.w].state = "Reclaimed"] /\ UNCHANGED tombs
        <3>1. /\ record'[ctl.w] = [state |-> "Reclaimed", branch |-> record[ctl.w].branch]
              /\ \A v \in Workspaces \ {ctl.w} : record'[v] = record[v]
            BY <2>1, <2>2, StateUpdate
        <3>2. QED BY <2>1, <2>2, <3>1
    <2>3. CASE ctl.pc # "reclaimed" /\ ctl'.pc \in {"reclaim_storage", "tombstones",
        "reclaimed"}
               /\ UNCHANGED record /\ tombs' \subseteq tombs
                   /\ (ctl'.pc = "reclaimed" => ctl.w \notin tombs')
        BY <2>1, <2>3
    <2>4. QED BY <1>26, <2>2, <2>3 DEF recover_reclamation, reclaim, NextReclaimStep, Goto
<1>27. CASE open_configured_project
    BY <1>27 DEF open_configured_project
<1>28. CASE recover_error
    BY <1>28 DEF recover_error, Refuse, RecoverySame, Fault
<1>29. CASE UNCHANGED vars
    BY <1>29 DEF vars
<1>30. QED
    BY <1>1, <1>2, <1>3, <1>4, <1>5, <1>6, <1>7, <1>8, <1>9, <1>10, <1>11, <1>12, <1>13, <1>14,
       <1>15, <1>16, <1>17, <1>18, <1>19, <1>20, <1>21, <1>22, <1>23, <1>24, <1>25, <1>26,
       <1>27, <1>28, <1>29
       DEF Next, create_workspace, Undo, FileMutation, recover_interrupted_operations

(* No step takes anything away from an Active Workspace. *)
LEMMA CompleteStep ==
    TypeOK /\ OperandInv /\ ModeInv /\ RowInv /\ StateInv /\ CompleteInv
        /\ [Next]_vars => CompleteInv'
<1> SUFFICES ASSUME TypeOK, OperandInv, ModeInv, RowInv, StateInv, CompleteInv,
            [Next]_vars PROVE CompleteInv'
    OBVIOUS
<1> USE BranchesAssumption, LifecycleBounds
    DEF TypeOK, database, repository, history, NoCtl, NoFuse, State, Ids, States, FileKinds,
        ControlSteps, ReclaimSteps, FuseSteps, CreateSteps, UndoSteps, RemoveSteps, Building,
            CreateRows, RemoveRows, FileRows, OperandInv, ModeInv, RowInv, StateInv,
            CompleteInv, CheckedOut, CanAdd, AtMount, AtStage, OneOf
<1>1. CASE \E w \in Workspaces, b \in Branches : begin_create(w, b)
    BY <1>1 DEF begin_create, Control, ControlSame
<1>2. CASE save_creating
    BY <1>2 DEF save_creating, Control, ControlSame, Goto, Fault
<1>3. CASE create_storage
    <2>1. ctl.w \in Workspaces /\ ctl.pc = "storage" /\ mode = "serving"
          /\ UNCHANGED <<record, rows, nextId, tombs, files, branches, worktrees, engines,
                         reclaimers, fuse, mode, acked, kept, late>>
        BY <1>3 DEF create_storage, Control, ControlSame
    <2>2. /\ \A v \in Workspaces \ {ctl.w} : dirs'[v] = dirs[v]
          /\ dirs[ctl.w] \subseteq dirs'[ctl.w]
          /\ \/ ctl' = [ctl EXCEPT !.pc = "add"] /\ "upper" \in dirs'[ctl.w]
             \/ ctl' = [ctl EXCEPT !.pc = "undo_state"] /\ UNCHANGED dirs
             \/ ctl' = NoCtl
        BY <1>3, <2>1 DEF create_storage, Goto
    <2>3. QED BY <2>1, <2>2
<1>4. CASE worktree_add
    BY <1>4 DEF worktree_add, Control, ControlSame, Goto, Fault
<1>5. CASE redirect_gitdir
    BY <1>5 DEF redirect_gitdir, Control, ControlSame, Goto, Fault
<1>6. CASE populate_index
    BY <1>6 DEF populate_index, Control, ControlSame, Goto, Fault
<1>7. CASE write_git_pointer
    <2>1. ctl.w \in Workspaces /\ ctl.pc = "pointer" /\ mode = "serving"
          /\ UNCHANGED <<record, rows, nextId, files, branches, worktrees, engines, reclaimers,
              fuse,
                         mode, late>>
        BY <1>7 DEF write_git_pointer, Control, ControlSame
    <2>2. /\ \A v \in Workspaces \ {ctl.w} : dirs'[v] = dirs[v]
          /\ dirs[ctl.w] \subseteq dirs'[ctl.w]
          /\ ctl'.w = ctl.w /\ ctl'.id = ctl.id /\ ctl'.branch = ctl.branch
          /\ \/ ctl'.pc = "active" /\ "git" \in dirs'[ctl.w]
             \/ ctl'.pc = "undo_git"
        BY <1>7, <2>1 DEF write_git_pointer, Goto
    <2>3. QED BY <2>1, <2>2
<1>8. CASE save_active
    BY <1>8 DEF save_active, Control, ControlSame, Goto, Fault
<1>9. CASE emplace_engine
    BY <1>9 DEF emplace_engine, Control, ControlSame, Fault, Without
<1>10. CASE rollback_worktree
    BY <1>10 DEF rollback_worktree, Undoing, UndoSame, Goto, Fault
<1>11. CASE rollback_branch
    BY <1>11 DEF rollback_branch, Undoing, UndoSame, Goto, Fault
<1>12. CASE undo_storage
    BY <1>12 DEF undo_storage, Undoing, UndoSame, Goto, Fault
<1>13. CASE undo_state
    BY <1>13 DEF undo_state, Undoing, UndoSame, Goto, Fault
<1>14. CASE undo_row
    BY <1>14 DEF undo_row, Undoing, UndoSame, Without, Fault
<1>15. CASE \E w \in Workspaces : begin_remove(w)
    BY <1>15 DEF begin_remove, Control, ControlSame
<1>16. CASE commit_removed
    BY <1>16 DEF commit_removed, Control, Goto, Fault
<1>17. CASE Reclamation
    <2>1. PICK t \in reclaimers : start_workspace_reclamation(t)
        BY <1>17 DEF Reclamation
    <2>2. /\ t.w \in Workspaces /\ t.id \in Ids /\ t.pc \in ReclaimSteps /\ mode = "serving"
          /\ UNCHANGED <<nextId, branches, engines, ctl, fuse, mode, crashes, acked, kept,
              late>>
        BY <2>1, ReclaimerEffect
    <2>3. CASE GitReclaimed(t)
        BY <2>2, <2>3 DEF OneOf, AtMount, GitReclaimed, Advanced
    <2>4. CASE StorageReclaimed(t)
        BY <2>2, <2>4 DEF StorageReclaimed, Advanced
    <2>5. CASE TombstonesReclaimed(t)
        BY <2>2, <2>5 DEF TombstonesReclaimed, Advanced
    <2>6. CASE NameReleased(t)
        BY <2>2, <2>6 DEF NameReleased, Advanced
    <2>7. CASE RowForgotten(t)
        BY <2>2, <2>7 DEF RowForgotten, Without
    <2>8. CASE GivesUp(t)
        BY <2>2, <2>8 DEF GivesUp
    <2>9. QED BY <2>1, <2>3, <2>4, <2>5, <2>6, <2>7, <2>8, ReclaimerEffect
<1>18. CASE \E w \in Workspaces, k \in Mutations : find_active_workspace_engine(w, k)
    BY <1>18 DEF find_active_workspace_engine, FuseSame
<1>19. CASE fuse_journal
    BY <1>19 DEF fuse_journal, FuseSame
<1>20. CASE fuse_stage
    BY <1>20, SMTT(30) DEF fuse_stage, FuseSame
<1>21. CASE fuse_publish
    BY <1>21 DEF fuse_publish, FuseSame, Moved, Unstaged, Without
<1>22. CASE fuse_finish
    BY <1>22, SMTT(30) DEF fuse_finish, FuseSame, Without, Fault
<1>23. CASE Crash
    BY <1>23 DEF Crash
<1>24. CASE Restart
    BY <1>24 DEF Restart
<1>25. CASE recover_next_operation
    BY <1>25 DEF recover_next_operation, recover_create, recover_remove, recover_file, Refuse,
       RecoverySame, Without, Moved, Unstaged
<1>26. CASE recover_reclamation
    BY <1>26 DEF recover_reclamation, reclaim, NextReclaimStep, Goto, RecoverySame
<1>27. CASE open_configured_project
    BY <1>27 DEF open_configured_project
<1>28. CASE recover_error
    BY <1>28 DEF recover_error, Refuse, RecoverySame, Fault
<1>29. CASE UNCHANGED vars
    BY <1>29 DEF vars
<1>30. QED
    BY <1>1, <1>2, <1>3, <1>4, <1>5, <1>6, <1>7, <1>8, <1>9, <1>10, <1>11, <1>12, <1>13, <1>14,
       <1>15, <1>16, <1>17, <1>18, <1>19, <1>20, <1>21, <1>22, <1>23, <1>24, <1>25, <1>26,
       <1>27, <1>28, <1>29
       DEF Next, create_workspace, Undo, FileMutation, recover_interrupted_operations

(* No step but its removal takes an acknowledged Workspace out of service. *)
LEMMA AckedStep ==
    TypeOK /\ OperandInv /\ ModeInv /\ StateInv /\ AckedInv /\ [Next]_vars => AckedInv'
<1> SUFFICES ASSUME TypeOK, OperandInv, ModeInv, StateInv, AckedInv, [Next]_vars PROVE AckedInv'
    OBVIOUS
<1> USE BranchesAssumption, LifecycleBounds
    DEF TypeOK, database, repository, history, NoCtl, NoFuse, State, Ids, States, FileKinds,
        ControlSteps, ReclaimSteps, FuseSteps, CreateSteps, UndoSteps, RemoveSteps, Building,
            CreateRows, RemoveRows, FileRows, OperandInv, ModeInv, StateInv, AckedInv
<1>1. CASE \E w \in Workspaces, b \in Branches : begin_create(w, b)
    BY <1>1 DEF begin_create, Control, ControlSame
<1>2. CASE save_creating
    BY <1>2 DEF save_creating, Control, ControlSame, Goto, Fault
<1>3. CASE create_storage
    BY <1>3 DEF create_storage, Control, ControlSame, Goto, Fault
<1>4. CASE worktree_add
    BY <1>4 DEF worktree_add, Control, ControlSame, Goto, Fault
<1>5. CASE redirect_gitdir
    BY <1>5 DEF redirect_gitdir, Control, ControlSame, Goto, Fault
<1>6. CASE populate_index
    BY <1>6 DEF populate_index, Control, ControlSame, Goto, Fault
<1>7. CASE write_git_pointer
    BY <1>7 DEF write_git_pointer, Control, ControlSame, Goto, Fault
<1>8. CASE save_active
    BY <1>8 DEF save_active, Control, ControlSame, Goto, Fault
<1>9. CASE emplace_engine
    BY <1>9 DEF emplace_engine, Control, ControlSame, Fault, Without
<1>10. CASE rollback_worktree
    BY <1>10 DEF rollback_worktree, Undoing, UndoSame, Goto, Fault
<1>11. CASE rollback_branch
    BY <1>11 DEF rollback_branch, Undoing, UndoSame, Goto, Fault
<1>12. CASE undo_storage
    BY <1>12 DEF undo_storage, Undoing, UndoSame, Goto, Fault
<1>13. CASE undo_state
    BY <1>13 DEF undo_state, Undoing, UndoSame, Goto, Fault
<1>14. CASE undo_row
    BY <1>14 DEF undo_row, Undoing, UndoSame, Without, Fault
<1>15. CASE \E w \in Workspaces : begin_remove(w)
    BY <1>15 DEF begin_remove, Control, ControlSame
<1>16. CASE commit_removed
    BY <1>16 DEF commit_removed, Control, Goto, Fault
<1>17. CASE Reclamation
    BY <1>17 DEF Reclamation, start_workspace_reclamation, reclaim, NextReclaimStep, Without,
       Fault
<1>18. CASE \E w \in Workspaces, k \in Mutations : find_active_workspace_engine(w, k)
    BY <1>18 DEF find_active_workspace_engine, FuseSame
<1>19. CASE fuse_journal
    BY <1>19 DEF fuse_journal, FuseSame
<1>20. CASE fuse_stage
    BY <1>20 DEF fuse_stage, FuseSame
<1>21. CASE fuse_publish
    BY <1>21 DEF fuse_publish, FuseSame, Moved, Unstaged, Without
<1>22. CASE fuse_finish
    BY <1>22 DEF fuse_finish, FuseSame, Without, Fault
<1>23. CASE Crash
    BY <1>23 DEF Crash
<1>24. CASE Restart
    BY <1>24 DEF Restart
<1>25. CASE recover_next_operation
    BY <1>25 DEF recover_next_operation, recover_create, recover_remove, recover_file, Refuse,
       RecoverySame, Without, Moved, Unstaged
<1>26. CASE recover_reclamation
    BY <1>26 DEF recover_reclamation, reclaim, NextReclaimStep, Goto, RecoverySame
<1>27. CASE open_configured_project
    BY <1>27 DEF open_configured_project
<1>28. CASE recover_error
    BY <1>28 DEF recover_error, Refuse, RecoverySame, Fault
<1>29. CASE UNCHANGED vars
    BY <1>29 DEF vars
<1>30. QED
    BY <1>1, <1>2, <1>3, <1>4, <1>5, <1>6, <1>7, <1>8, <1>9, <1>10, <1>11, <1>12, <1>13, <1>14,
       <1>15, <1>16, <1>17, <1>18, <1>19, <1>20, <1>21, <1>22, <1>23, <1>24, <1>25, <1>26,
       <1>27, <1>28, <1>29
       DEF Next, create_workspace, Undo, FileMutation, recover_interrupted_operations

(* No step deletes a branch the user owns. *)
LEMMA KeptStep ==
    TypeOK /\ OperandInv /\ ModeInv /\ RowInv /\ StateInv /\ PendingInv /\ CompleteInv
        /\ KeptInv /\ [Next]_vars => KeptInv'
<1> SUFFICES ASSUME TypeOK, OperandInv, ModeInv, RowInv, StateInv, PendingInv, CompleteInv,
            KeptInv, [Next]_vars PROVE KeptInv'
    OBVIOUS
<1> USE BranchesAssumption, LifecycleBounds
    DEF TypeOK, database, repository, history, NoCtl, NoFuse, State, Ids, States, FileKinds,
        ControlSteps, ReclaimSteps, FuseSteps, CreateSteps, UndoSteps, RemoveSteps, Building,
            CreateRows, RemoveRows, FileRows, OperandInv, ModeInv, RowInv, StateInv,
            PendingInv, CompleteInv, KeptInv, Sound, CheckedOut, CanAdd, AtMount, AtStage
<1>1. CASE \E w \in Workspaces, b \in Branches : begin_create(w, b)
    BY <1>1 DEF begin_create, Control, ControlSame
<1>2. CASE save_creating
    BY <1>2 DEF save_creating, Control, ControlSame, Goto, Fault
<1>3. CASE create_storage
    BY <1>3 DEF create_storage, Control, ControlSame, Goto, Fault
<1>4. CASE worktree_add
    BY <1>4 DEF worktree_add, Control, ControlSame, Goto, Fault
<1>5. CASE redirect_gitdir
    BY <1>5 DEF redirect_gitdir, Control, ControlSame, Goto, Fault
<1>6. CASE populate_index
    BY <1>6 DEF populate_index, Control, ControlSame, Goto, Fault
<1>7. CASE write_git_pointer
    BY <1>7 DEF write_git_pointer, Control, ControlSame, Goto, Fault
<1>8. CASE save_active
    <2>1. ctl'.w = ctl.w /\ ctl'.id = ctl.id /\ ctl'.branch = ctl.branch /\ ctl.w \in Workspaces
          /\ ctl.pc = "active" /\ mode = "serving" /\ faults \subseteq faults'
          /\ UNCHANGED <<rows, reclaimers, engines, mode, fuse, late, branches, worktrees>>
        BY <1>8 DEF save_active, Goto, Control, ControlSame, Fault
    <2>2. CASE record' = [record EXCEPT ![ctl.w].state = "Active"] /\ ctl'.pc = "settle"
        /\ UNCHANGED faults
        /\ kept' = kept \cup {ctl.branch}
        <3>1. /\ record'[ctl.w] = [state |-> "Active", branch |-> record[ctl.w].branch]
              /\ \A v \in Workspaces \ {ctl.w} : record'[v] = record[v]
            BY <2>1, <2>2, StateUpdate
        <3>2. QED BY <2>1, <2>2, <3>1
    <2>3. CASE UNCHANGED <<record, kept>> /\ ctl'.pc = "undo_git"
               /\ faults' = faults \cup {"active"}
        BY <2>1, <2>3
    <2>4. QED BY <1>8, <2>2, <2>3 DEF save_active, Goto, Fault
<1>9. CASE emplace_engine
    BY <1>9 DEF emplace_engine, Control, ControlSame, Fault, Without
<1>10. CASE rollback_worktree
    BY <1>10 DEF rollback_worktree, Undoing, UndoSame, Goto, Fault
<1>11. CASE rollback_branch
    BY <1>11 DEF rollback_branch, Undoing, UndoSame, Goto, Fault
<1>12. CASE undo_storage
    BY <1>12 DEF undo_storage, Undoing, UndoSame, Goto, Fault
<1>13. CASE undo_state
    BY <1>13 DEF undo_state, Undoing, UndoSame, Goto, Fault
<1>14. CASE undo_row
    BY <1>14 DEF undo_row, Undoing, UndoSame, Without, Fault
<1>15. CASE \E w \in Workspaces : begin_remove(w)
    BY <1>15 DEF begin_remove, Control, ControlSame
<1>16. CASE commit_removed
    BY <1>16, SMTT(30) DEF commit_removed, Control, Goto, Fault
<1>17. CASE Reclamation
    <2>1. PICK t \in reclaimers : start_workspace_reclamation(t)
        BY <1>17 DEF Reclamation
    <2>2. /\ t.w \in Workspaces /\ t.id \in Ids /\ t.pc \in ReclaimSteps /\ mode = "serving"
          /\ UNCHANGED <<nextId, branches, engines, ctl, fuse, mode, crashes, acked, kept,
              late>>
        BY <2>1, ReclaimerEffect
    <2>3. CASE GitReclaimed(t)
        BY <2>2, <2>3 DEF GitReclaimed, Advanced
    <2>4. CASE StorageReclaimed(t)
        BY <2>2, <2>4 DEF StorageReclaimed, Advanced
    <2>5. CASE TombstonesReclaimed(t)
        BY <2>2, <2>5 DEF TombstonesReclaimed, Advanced
    <2>6. CASE NameReleased(t)
        BY <2>2, <2>6 DEF NameReleased, Advanced
    <2>7. CASE RowForgotten(t)
        BY <2>2, <2>7 DEF RowForgotten, Without
    <2>8. CASE GivesUp(t)
        BY <2>2, <2>8 DEF GivesUp
    <2>9. QED BY <2>1, <2>3, <2>4, <2>5, <2>6, <2>7, <2>8, ReclaimerEffect
<1>18. CASE \E w \in Workspaces, k \in Mutations : find_active_workspace_engine(w, k)
    BY <1>18 DEF find_active_workspace_engine, FuseSame
<1>19. CASE fuse_journal
    BY <1>19 DEF fuse_journal, FuseSame
<1>20. CASE fuse_stage
    BY <1>20 DEF fuse_stage, FuseSame
<1>21. CASE fuse_publish
    BY <1>21 DEF fuse_publish, FuseSame, Moved, Unstaged, Without
<1>22. CASE fuse_finish
    BY <1>22 DEF fuse_finish, FuseSame, Without, Fault
<1>23. CASE Crash
    BY <1>23 DEF Crash
<1>24. CASE Restart
    BY <1>24 DEF Restart
<1>25. CASE recover_next_operation
    BY <1>25 DEF recover_next_operation, recover_create, recover_remove, recover_file, Refuse,
       RecoverySame, Without, Moved, Unstaged
<1>26. CASE recover_reclamation
    BY <1>26 DEF recover_reclamation, reclaim, NextReclaimStep, Goto, RecoverySame
<1>27. CASE open_configured_project
    BY <1>27 DEF open_configured_project
<1>28. CASE recover_error
    BY <1>28 DEF recover_error, Refuse, RecoverySame, Fault
<1>29. CASE UNCHANGED vars
    BY <1>29 DEF vars
<1>30. QED
    BY <1>1, <1>2, <1>3, <1>4, <1>5, <1>6, <1>7, <1>8, <1>9, <1>10, <1>11, <1>12, <1>13, <1>14,
       <1>15, <1>16, <1>17, <1>18, <1>19, <1>20, <1>21, <1>22, <1>23, <1>24, <1>25, <1>26,
       <1>27, <1>28, <1>29
       DEF Next, create_workspace, Undo, FileMutation, recover_interrupted_operations

(* No step leaves a registration behind without a row that removes it. *)
LEMMA WorktreeStep ==
    TypeOK /\ OperandInv /\ ModeInv /\ RowInv /\ StateInv /\ PendingInv /\ CompleteInv
        /\ WorktreeInv /\ [Next]_vars => WorktreeInv'
<1> SUFFICES ASSUME TypeOK, OperandInv, ModeInv, RowInv, StateInv, PendingInv, CompleteInv,
            WorktreeInv, [Next]_vars PROVE WorktreeInv'
    OBVIOUS
<1> USE BranchesAssumption, LifecycleBounds
    DEF TypeOK, database, repository, history, NoCtl, NoFuse, State, Ids, States, FileKinds,
        ControlSteps, ReclaimSteps, FuseSteps, CreateSteps, UndoSteps, RemoveSteps, Building,
            CreateRows, RemoveRows, FileRows, OperandInv, ModeInv, RowInv, StateInv,
            PendingInv, CompleteInv, WorktreeInv, Sound, LeavingFaults, CheckedOut, CanAdd, AtMount, AtStage,
            OneOf
<1>1. CASE \E w \in Workspaces, b \in Branches : begin_create(w, b)
    BY <1>1 DEF begin_create, Control, ControlSame
<1>2. CASE save_creating
    BY <1>2 DEF save_creating, Control, ControlSame, Goto, Fault
<1>3. CASE create_storage
    BY <1>3 DEF create_storage, Control, ControlSame, Goto, Fault
<1>4. CASE worktree_add
    BY <1>4, SMTT(30) DEF worktree_add, Control, ControlSame, Goto, Fault
<1>5. CASE redirect_gitdir
    <2>1. ctl.w \in Workspaces /\ ctl.pc = "redirect" /\ mode = "serving" /\ ctl'.w = ctl.w
          /\ ctl'.id = ctl.id /\ ctl'.branch = ctl.branch
          /\ UNCHANGED <<record, rows, reclaimers, mode>>
        BY <1>5 DEF redirect_gitdir, Control, ControlSame, Goto
    <2>2. CASE "redirect" \in faults'
        BY <2>2
    <2>3. CASE ctl'.pc = "index" /\ UNCHANGED faults
               /\ worktrees' = {IF t.w = ctl.w /\ t.branch = ctl.branch
                                THEN [t EXCEPT !.at = "mount"] ELSE t : t \in worktrees}
        <3> DEFINE Put(t) == IF t.w = ctl.w
            /\ t.branch = ctl.branch THEN [t EXCEPT !.at = "mount"] ELSE t
        <3>1. worktrees' = {Put(t) : t \in worktrees}
            BY <2>3
        <3>2. \A t \in worktrees : Put(t).w = t.w /\ Put(t).branch = t.branch
            /\ (t.w # ctl.w => Put(t) = t)
            OBVIOUS
        <3> HIDE DEF Put
        <3>3. QED BY <2>1, <2>3, <3>1, <3>2
    <2>4. QED BY <1>5, <2>2, <2>3 DEF redirect_gitdir, Goto, Fault
<1>6. CASE populate_index
    BY <1>6 DEF populate_index, Control, ControlSame, Goto, Fault
<1>7. CASE write_git_pointer
    BY <1>7 DEF write_git_pointer, Control, ControlSame, Goto, Fault
<1>8. CASE save_active
    <2>1. ctl'.w = ctl.w /\ ctl'.id = ctl.id /\ ctl'.branch = ctl.branch /\ ctl.w \in Workspaces
          /\ ctl.pc = "active" /\ mode = "serving" /\ faults \subseteq faults'
          /\ UNCHANGED <<rows, reclaimers, engines, mode, fuse, late, branches, worktrees>>
        BY <1>8 DEF save_active, Goto, Control, ControlSame, Fault
    <2>2. CASE record' = [record EXCEPT ![ctl.w].state = "Active"] /\ ctl'.pc = "settle"
        /\ UNCHANGED faults
        <3>1. /\ record'[ctl.w] = [state |-> "Active", branch |-> record[ctl.w].branch]
              /\ \A v \in Workspaces \ {ctl.w} : record'[v] = record[v]
            BY <2>1, <2>2, StateUpdate
        <3>2. QED BY <2>1, <2>2, <3>1
    <2>3. CASE UNCHANGED <<record, kept>> /\ ctl'.pc = "undo_git"
               /\ faults' = faults \cup {"active"}
        BY <2>1, <2>3
    <2>4. QED BY <1>8, <2>2, <2>3 DEF save_active, Goto, Fault
<1>9. CASE emplace_engine
    BY <1>9 DEF emplace_engine, Control, ControlSame, Fault, Without
<1>10. CASE rollback_worktree
    BY <1>10 DEF rollback_worktree, Undoing, UndoSame, Goto, Fault
<1>11. CASE rollback_branch
    BY <1>11 DEF rollback_branch, Undoing, UndoSame, Goto, Fault
<1>12. CASE undo_storage
    BY <1>12 DEF undo_storage, Undoing, UndoSame, Goto, Fault
<1>13. CASE undo_state
    <2>1. ctl'.w = ctl.w /\ ctl'.id = ctl.id /\ ctl'.branch = ctl.branch /\ ctl.w \in Workspaces
          /\ ctl.pc = "undo_state" /\ ctl'.pc = "undo_row" /\ faults \subseteq faults'
          /\ UNCHANGED <<rows, reclaimers, engines, mode, fuse, late, branches, worktrees>>
        BY <1>13 DEF undo_state, Undoing, UndoSame, Goto, Fault
    <2>2. CASE record' = [record EXCEPT ![ctl.w].state = "Reclaimed"] /\ UNCHANGED faults
        <3>1. /\ record'[ctl.w] = [state |-> "Reclaimed", branch |-> record[ctl.w].branch]
              /\ \A v \in Workspaces \ {ctl.w} : record'[v] = record[v]
            BY <2>1, <2>2, StateUpdate
        <3>2. QED BY <2>1, <2>2, <3>1
    <2>3. CASE UNCHANGED record
               /\ (UNCHANGED faults \/ faults' = faults \cup {"undo_state"})
        BY <2>1, <2>3
    <2>4. QED BY <1>13, <2>2, <2>3 DEF undo_state, Fault
<1>14. CASE undo_row
    BY <1>14 DEF undo_row, Undoing, UndoSame, Without, Fault
<1>15. CASE \E w \in Workspaces : begin_remove(w)
    BY <1>15 DEF begin_remove, Control, ControlSame
<1>16. CASE commit_removed
    <2>1. ctl.w \in Workspaces /\ ctl.id \in Ids /\ ctl.pc = "removed" /\ mode = "serving"
          /\ UNCHANGED <<rows, nextId, tombs, dirs, files, branches, worktrees, fuse, mode,
              crashes, kept>>
        BY <1>16 DEF commit_removed, Control
    <2>2. CASE /\ ctl.w \in engines
               /\ record' = [record EXCEPT ![ctl.w].state = "Removed"]
               /\ engines' = engines \ {ctl.w}
               /\ reclaimers' = reclaimers \cup {[w |-> ctl.w, id |-> ctl.id, pc |-> "git"]}
               /\ late' = late \cup ({ctl.w} \cap {fuse.w})
               /\ ctl' = NoCtl /\ UNCHANGED faults
        <3>1. /\ record'[ctl.w] = [state |-> "Removed", branch |-> record[ctl.w].branch]
              /\ \A v \in Workspaces \ {ctl.w} : record'[v] = record[v]
            BY <2>1, <2>2, StateUpdate
        <3>2. State(ctl.w) = "Active" /\ \A r \in reclaimers : r.pc # "undo_row" => r.w # ctl.w
            BY <2>1
        <3>3. Sound(LeavingFaults) =>
                \A t \in worktrees : t.w = ctl.w => t.at = "mount"
            <4>1. [w |-> ctl.w, at |-> "mount", branch |-> record[ctl.w].branch] \in worktrees
                BY <2>1, <3>2
            <4>2. QED BY <4>1
        <3>4. QED BY <2>1, <2>2, <3>1, <3>2, <3>3
    <2>3. CASE /\ ctl' = [ctl EXCEPT !.pc = "undo_row"] /\ faults \subseteq faults'
               /\ UNCHANGED <<record, engines, reclaimers, late>>
        BY <2>1, <2>3
    <2>4. QED BY <1>16, <2>2, <2>3 DEF commit_removed, Goto, Fault
<1>17. CASE Reclamation
    <2>1. PICK t \in reclaimers : start_workspace_reclamation(t)
        BY <1>17 DEF Reclamation
    <2>2. /\ t.w \in Workspaces /\ t.id \in Ids /\ t.pc \in ReclaimSteps /\ mode = "serving"
          /\ UNCHANGED <<nextId, branches, engines, ctl, fuse, mode, crashes, acked, kept,
              late>>
        BY <2>1, ReclaimerEffect
    <2>3. CASE GitReclaimed(t)
        BY <2>2, <2>3 DEF OneOf, AtMount, GitReclaimed, Advanced
    <2>4. CASE StorageReclaimed(t)
        BY <2>2, <2>4 DEF StorageReclaimed, Advanced
    <2>5. CASE TombstonesReclaimed(t)
        BY <2>2, <2>5 DEF TombstonesReclaimed, Advanced
    <2>6. CASE NameReleased(t)
        BY <2>2, <2>6 DEF NameReleased, Advanced
    <2>7. CASE RowForgotten(t)
        BY <2>2, <2>7 DEF RowForgotten, Without
    <2>8. CASE GivesUp(t)
        BY <2>2, <2>8 DEF GivesUp
    <2>9. QED BY <2>1, <2>3, <2>4, <2>5, <2>6, <2>7, <2>8, ReclaimerEffect
<1>18. CASE \E w \in Workspaces, k \in Mutations : find_active_workspace_engine(w, k)
    BY <1>18 DEF find_active_workspace_engine, FuseSame
<1>19. CASE fuse_journal
    BY <1>19 DEF fuse_journal, FuseSame
<1>20. CASE fuse_stage
    BY <1>20 DEF fuse_stage, FuseSame
<1>21. CASE fuse_publish
    BY <1>21 DEF fuse_publish, FuseSame, Moved, Unstaged, Without
<1>22. CASE fuse_finish
    BY <1>22 DEF fuse_finish, FuseSame, Without, Fault
<1>23. CASE Crash
    BY <1>23 DEF Crash
<1>24. CASE Restart
    BY <1>24 DEF Restart
<1>25. CASE recover_next_operation
    BY <1>25 DEF recover_next_operation, recover_create, recover_remove, recover_file, Refuse,
       RecoverySame, Without, Moved, Unstaged
<1>26. CASE recover_reclamation
    BY <1>26 DEF recover_reclamation, reclaim, NextReclaimStep, Goto, RecoverySame
<1>27. CASE open_configured_project
    BY <1>27 DEF open_configured_project
<1>28. CASE recover_error
    BY <1>28 DEF recover_error, Refuse, RecoverySame, Fault
<1>29. CASE UNCHANGED vars
    BY <1>29 DEF vars
<1>30. QED
    BY <1>1, <1>2, <1>3, <1>4, <1>5, <1>6, <1>7, <1>8, <1>9, <1>10, <1>11, <1>12, <1>13, <1>14,
       <1>15, <1>16, <1>17, <1>18, <1>19, <1>20, <1>21, <1>22, <1>23, <1>24, <1>25, <1>26,
       <1>27, <1>28, <1>29
       DEF Next, create_workspace, Undo, FileMutation, recover_interrupted_operations

(* No step leaves a branch behind without a row that deletes it. *)
LEMMA BranchStep ==
    TypeOK /\ OperandInv /\ ModeInv /\ RowInv /\ StateInv /\ PendingInv /\ CompleteInv
        /\ WorktreeInv /\ BranchInv /\ [Next]_vars => BranchInv'
<1> SUFFICES ASSUME TypeOK, OperandInv, ModeInv, RowInv, StateInv, PendingInv, CompleteInv,
            WorktreeInv, BranchInv, [Next]_vars PROVE BranchInv'
    OBVIOUS
<1> USE BranchesAssumption, LifecycleBounds
    DEF TypeOK, database, repository, history, NoCtl, NoFuse, State, Ids, States, FileKinds,
        ControlSteps, ReclaimSteps, FuseSteps, CreateSteps, UndoSteps, RemoveSteps, Building,
            CreateRows, RemoveRows, FileRows, OperandInv, ModeInv, RowInv, StateInv,
            PendingInv, CompleteInv, WorktreeInv, BranchInv, Sound, LeavingFaults, CheckedOut, CanAdd
<1>1. CASE \E w \in Workspaces, b \in Branches : begin_create(w, b)
    BY <1>1 DEF begin_create, Control, ControlSame
<1>2. CASE save_creating
    BY <1>2 DEF save_creating, Control, ControlSame, Goto, Fault
<1>3. CASE create_storage
    BY <1>3 DEF create_storage, Control, ControlSame, Goto, Fault
<1>4. CASE worktree_add
    <2>1. ctl'.w = ctl.w /\ ctl'.id = ctl.id /\ ctl'.branch = ctl.branch /\ ctl.w \in Workspaces
          /\ ctl.pc = "add" /\ mode = "serving" /\ faults \subseteq faults'
          /\ ctl'.pc \in {"redirect", "undo_storage"}
          /\ UNCHANGED <<record, rows, mode, kept>>
        BY <1>4 DEF worktree_add, Goto, Control, ControlSame, Fault
    <2>2. State(ctl.w) = "Creating"
          /\ \E row \in CreateRows : row.id = ctl.id /\ row.w = ctl.w /\ row.branch = ctl.branch
        BY <2>1
    <2>3. CASE "add" \in faults'
        BY <2>1, <2>3
    <2>4. CASE ctl'.pc = "redirect" /\ branches' = branches \cup {ctl.branch} /\ UNCHANGED faults
        BY <2>1, <2>2, <2>4
    <2>5. CASE ~CanAdd(ctl.w, ctl.branch) /\ branches' = branches \cup {ctl.branch}
               /\ ctl'.pc = "undo_storage" /\ UNCHANGED faults
        <3>1. Sound(LeavingFaults) => AtStage(ctl.w) = {}
            BY <2>1, <2>2 DEF AtStage
        <3>2. Sound(LeavingFaults) => branches' = branches
            BY <2>5, <3>1
        <3>3. QED BY <2>1, <2>5, <3>2
    <2>6. QED BY <1>4, <2>3, <2>4, <2>5 DEF worktree_add, Goto, Fault
<1>5. CASE redirect_gitdir
    BY <1>5 DEF redirect_gitdir, Control, ControlSame, Goto, Fault
<1>6. CASE populate_index
    BY <1>6 DEF populate_index, Control, ControlSame, Goto, Fault
<1>7. CASE write_git_pointer
    BY <1>7 DEF write_git_pointer, Control, ControlSame, Goto, Fault
<1>8. CASE save_active
    BY <1>8 DEF save_active, Control, ControlSame, Goto, Fault
<1>9. CASE emplace_engine
    BY <1>9 DEF emplace_engine, Control, ControlSame, Fault, Without
<1>10. CASE rollback_worktree
    BY <1>10 DEF rollback_worktree, Undoing, UndoSame, Goto, Fault
<1>11. CASE rollback_branch
    BY <1>11 DEF rollback_branch, Undoing, UndoSame, Goto, Fault
<1>12. CASE undo_storage
    BY <1>12 DEF undo_storage, Undoing, UndoSame, Goto, Fault
<1>13. CASE undo_state
    <2>1. ctl'.w = ctl.w /\ ctl'.id = ctl.id /\ ctl'.branch = ctl.branch /\ ctl.w \in Workspaces
          /\ ctl.pc = "undo_state" /\ ctl'.pc = "undo_row" /\ faults \subseteq faults'
          /\ UNCHANGED <<rows, reclaimers, engines, mode, fuse, late, branches, worktrees, kept>>
        BY <1>13 DEF undo_state, Undoing, UndoSame, Goto, Fault
    <2>2. CASE record' = [record EXCEPT ![ctl.w].state = "Reclaimed"] /\ UNCHANGED faults
        <3>1. /\ record'[ctl.w] = [state |-> "Reclaimed", branch |-> record[ctl.w].branch]
              /\ \A v \in Workspaces \ {ctl.w} : record'[v] = record[v]
            BY <2>1, <2>2, StateUpdate
        <3>2. QED BY <2>1, <2>2, <3>1
    <2>3. CASE UNCHANGED record
               /\ (UNCHANGED faults \/ faults' = faults \cup {"undo_state"})
        BY <2>1, <2>3
    <2>4. QED BY <1>13, <2>2, <2>3 DEF undo_state, Fault
<1>14. CASE undo_row
    BY <1>14 DEF undo_row, Undoing, UndoSame, Without, Fault
<1>15. CASE \E w \in Workspaces : begin_remove(w)
    BY <1>15 DEF begin_remove, Control, ControlSame
<1>16. CASE commit_removed
    <2>1. ctl.w \in Workspaces /\ ctl.id \in Ids /\ ctl.pc = "removed" /\ mode = "serving"
          /\ UNCHANGED <<rows, nextId, tombs, dirs, files, branches, worktrees, fuse, mode,
              crashes, kept>>
        BY <1>16 DEF commit_removed, Control
    <2>2. CASE /\ ctl.w \in engines
               /\ record' = [record EXCEPT ![ctl.w].state = "Removed"]
               /\ engines' = engines \ {ctl.w}
               /\ reclaimers' = reclaimers \cup {[w |-> ctl.w, id |-> ctl.id, pc |-> "git"]}
               /\ late' = late \cup ({ctl.w} \cap {fuse.w})
               /\ ctl' = NoCtl /\ UNCHANGED faults
        <3>1. /\ record'[ctl.w] = [state |-> "Removed", branch |-> record[ctl.w].branch]
              /\ \A v \in Workspaces \ {ctl.w} : record'[v] = record[v]
            BY <2>1, <2>2, StateUpdate
        <3>2. QED BY <2>1, <2>2, <3>1
    <2>3. CASE /\ ctl' = [ctl EXCEPT !.pc = "undo_row"] /\ faults \subseteq faults'
               /\ UNCHANGED <<record, engines, reclaimers, late>>
        BY <2>1, <2>3
    <2>4. QED BY <1>16, <2>2, <2>3 DEF commit_removed, Goto, Fault
<1>17. CASE Reclamation
    <2>1. PICK t \in reclaimers : start_workspace_reclamation(t)
        BY <1>17 DEF Reclamation
    <2>2. /\ t.w \in Workspaces /\ t.id \in Ids /\ t.pc \in ReclaimSteps /\ mode = "serving"
          /\ UNCHANGED <<nextId, branches, engines, ctl, fuse, mode, crashes, acked, kept,
              late>>
        BY <2>1, ReclaimerEffect
    <2>3. CASE GitReclaimed(t)
        BY <2>2, <2>3 DEF GitReclaimed, Advanced
    <2>4. CASE StorageReclaimed(t)
        BY <2>2, <2>4 DEF StorageReclaimed, Advanced
    <2>5. CASE TombstonesReclaimed(t)
        BY <2>2, <2>5 DEF TombstonesReclaimed, Advanced
    <2>6. CASE NameReleased(t)
        BY <2>2, <2>6 DEF NameReleased, Advanced
    <2>7. CASE RowForgotten(t)
        BY <2>2, <2>7 DEF RowForgotten, Without
    <2>8. CASE GivesUp(t)
        BY <2>2, <2>8 DEF GivesUp
    <2>9. QED BY <2>1, <2>3, <2>4, <2>5, <2>6, <2>7, <2>8, ReclaimerEffect
<1>18. CASE \E w \in Workspaces, k \in Mutations : find_active_workspace_engine(w, k)
    BY <1>18 DEF find_active_workspace_engine, FuseSame
<1>19. CASE fuse_journal
    BY <1>19 DEF fuse_journal, FuseSame
<1>20. CASE fuse_stage
    <2> DEFINE Put(row) == IF row.id = fuse.id THEN [row EXCEPT !.phase = "publishing"] ELSE row
    <2>1. rows' = {Put(row) : row \in rows}
          /\ UNCHANGED <<record, branches, worktrees, ctl, mode, kept, faults>>
        BY <1>20 DEF fuse_stage, FuseSame
    <2>2. \A row \in rows : Put(row).id = row.id /\ Put(row).w = row.w
        /\ Put(row).kind = row.kind
                            /\ Put(row).branch = row.branch
        OBVIOUS
    <2> HIDE DEF Put
    <2>3. QED BY <2>1, <2>2
<1>21. CASE fuse_publish
    BY <1>21 DEF fuse_publish, FuseSame, Moved, Unstaged, Without
<1>22. CASE fuse_finish
    BY <1>22 DEF fuse_finish, FuseSame, Without, Fault
<1>23. CASE Crash
    BY <1>23 DEF Crash
<1>24. CASE Restart
    BY <1>24 DEF Restart
<1>25. CASE recover_next_operation
    BY <1>25 DEF recover_next_operation, recover_create, recover_remove, recover_file, Refuse,
       RecoverySame, Without, Moved, Unstaged
<1>26. CASE recover_reclamation
    BY <1>26, SMTT(30) DEF recover_reclamation, reclaim, NextReclaimStep, Goto, RecoverySame
<1>27. CASE open_configured_project
    BY <1>27 DEF open_configured_project
<1>28. CASE recover_error
    BY <1>28 DEF recover_error, Refuse, RecoverySame, Fault
<1>29. CASE UNCHANGED vars
    BY <1>29 DEF vars
<1>30. QED
    BY <1>1, <1>2, <1>3, <1>4, <1>5, <1>6, <1>7, <1>8, <1>9, <1>10, <1>11, <1>12, <1>13, <1>14,
       <1>15, <1>16, <1>17, <1>18, <1>19, <1>20, <1>21, <1>22, <1>23, <1>24, <1>25, <1>26,
       <1>27, <1>28, <1>29
       DEF Next, create_workspace, Undo, FileMutation, recover_interrupted_operations

(* No step leaves storage behind without a row that removes it. *)
LEMMA StorageStep ==
    TypeOK /\ OperandInv /\ ModeInv /\ RowInv /\ StateInv /\ PendingInv /\ StorageInv
        /\ [Next]_vars => StorageInv'
<1> SUFFICES ASSUME TypeOK, OperandInv, ModeInv, RowInv, StateInv, PendingInv, StorageInv,
            [Next]_vars PROVE StorageInv'
    OBVIOUS
<1> USE BranchesAssumption, LifecycleBounds
    DEF TypeOK, database, repository, history, NoCtl, NoFuse, State, Ids, States, FileKinds,
        ControlSteps, ReclaimSteps, FuseSteps, CreateSteps, UndoSteps, RemoveSteps, Building,
            CreateRows, RemoveRows, FileRows, OperandInv, ModeInv, RowInv, StateInv,
            PendingInv, StorageInv, Bare
<1>1. CASE \E w \in Workspaces, b \in Branches : begin_create(w, b)
    BY <1>1 DEF begin_create, Control, ControlSame
<1>2. CASE save_creating
    BY <1>2, SMTT(30) DEF save_creating, Control, ControlSame, Goto, Fault
<1>3. CASE create_storage
    <2>1. ctl.w \in Workspaces /\ ctl.pc = "storage" /\ mode = "serving"
          /\ UNCHANGED <<record, rows, nextId, tombs, files, branches, worktrees, engines,
                         reclaimers, fuse, mode, acked, kept, late>>
        BY <1>3 DEF create_storage, Control, ControlSame
    <2>2. /\ \A v \in Workspaces \ {ctl.w} : dirs'[v] = dirs[v]
          /\ dirs[ctl.w] \subseteq dirs'[ctl.w]
          /\ \/ ctl' = [ctl EXCEPT !.pc = "add"] /\ "upper" \in dirs'[ctl.w]
             \/ ctl' = [ctl EXCEPT !.pc = "undo_state"] /\ UNCHANGED dirs
             \/ ctl' = NoCtl
          /\ faults' = faults \/ faults' = faults \cup {"storage"}
        BY <1>3, <2>1 DEF create_storage, Goto, Fault
    <2>3. State(ctl.w) = "Creating" /\ (late = {} => Bare(ctl.w))
        BY <2>1
    <2>4. \A v \in Workspaces \ {ctl.w} : Bare(v)' = Bare(v)
        BY <2>1, <2>2
    <2>5. UNCHANGED dirs => \A v \in Workspaces : Bare(v)' = Bare(v)
        BY <2>1, <2>2
    <2>6. ctl'.pc \in {"add", "undo_state", "idle"}
        /\ (ctl'.pc = "undo_state" => ctl'.w = ctl.w /\ UNCHANGED dirs)
        BY <2>2
    <2> HIDE DEF Bare
    <2>7. QED BY <2>1, <2>3, <2>4, <2>5, <2>6
<1>4. CASE worktree_add
    BY <1>4 DEF worktree_add, Control, ControlSame, Goto, Fault
<1>5. CASE redirect_gitdir
    BY <1>5 DEF redirect_gitdir, Control, ControlSame, Goto, Fault
<1>6. CASE populate_index
    <2>1. ctl.pc = "index" /\ ctl'.pc \in {"pointer", "undo_storage"} /\ mode = "serving"
          /\ UNCHANGED <<record, rows, nextId, files, engines, reclaimers, fuse, mode, late>>
        BY <1>6 DEF populate_index, Control, ControlSame, Goto
    <2>2. \A w \in Workspaces : Bare(w) => Bare(w)'
        BY <1>6 DEF populate_index, ControlSame, Fault
    <2> HIDE DEF Bare
    <2>3. QED BY <2>1, <2>2
<1>7. CASE write_git_pointer
    <2>1. ctl.w \in Workspaces /\ ctl.pc = "pointer" /\ mode = "serving"
          /\ UNCHANGED <<record, rows, nextId, files, branches, worktrees, engines, reclaimers,
              fuse,
                         mode, late>>
        BY <1>7 DEF write_git_pointer, Control, ControlSame
    <2>2. /\ \A v \in Workspaces \ {ctl.w} : dirs'[v] = dirs[v]
          /\ dirs[ctl.w] \subseteq dirs'[ctl.w]
          /\ ctl'.w = ctl.w /\ ctl'.id = ctl.id /\ ctl'.branch = ctl.branch
          /\ \/ ctl'.pc = "active" /\ "git" \in dirs'[ctl.w]
             \/ ctl'.pc = "undo_git"
          /\ faults \subseteq faults'
        BY <1>7, <2>1 DEF write_git_pointer, Goto, Fault
    <2>3. QED BY <2>1, <2>2
<1>8. CASE save_active
    <2>1. ctl'.w = ctl.w /\ ctl'.id = ctl.id /\ ctl'.branch = ctl.branch /\ ctl.w \in Workspaces
          /\ ctl.pc = "active" /\ mode = "serving" /\ faults \subseteq faults'
          /\ UNCHANGED <<rows, reclaimers, engines, mode, fuse, late, dirs, files, nextId>>
        BY <1>8 DEF save_active, Goto, Control, ControlSame, Fault
    <2>2. CASE record' = [record EXCEPT ![ctl.w].state = "Active"] /\ ctl'.pc = "settle"
        /\ UNCHANGED faults
        <3>1. /\ record'[ctl.w] = [state |-> "Active", branch |-> record[ctl.w].branch]
              /\ \A v \in Workspaces \ {ctl.w} : record'[v] = record[v]
            BY <2>1, <2>2, StateUpdate
        <3>2. QED BY <2>1, <2>2, <3>1
    <2>3. CASE UNCHANGED <<record, kept>> /\ ctl'.pc = "undo_git"
               /\ faults' = faults \cup {"active"}
        BY <2>1, <2>3
    <2>4. QED BY <1>8, <2>2, <2>3 DEF save_active, Goto, Fault
<1>9. CASE emplace_engine
    BY <1>9 DEF emplace_engine, Control, ControlSame, Fault, Without
<1>10. CASE rollback_worktree
    BY <1>10 DEF rollback_worktree, Undoing, UndoSame, Goto, Fault
<1>11. CASE rollback_branch
    BY <1>11 DEF rollback_branch, Undoing, UndoSame, Goto, Fault
<1>12. CASE undo_storage
    <2>1. /\ ctl.w \in Workspaces /\ ctl.pc = "undo_storage" /\ files' \subseteq files
          /\ ctl'.w = ctl.w /\ ctl'.id = ctl.id
          /\ ctl'.pc = (IF mode = "serving" THEN "undo_state" ELSE "undo_git")
          /\ mode = "serving" => State(ctl.w) = "Creating"
          /\ UNCHANGED <<record, rows, nextId, engines, reclaimers, fuse, mode, late>>
        BY <1>12 DEF undo_storage, Undoing, UndoSame, Goto
    <2>2. \A w \in Workspaces : Bare(w) => Bare(w)'
        BY <1>12, <2>1 DEF undo_storage, Fault
    <2>3. \/ dirs'[ctl.w] \cap {"upper", "git"} = {}
          \/ mode = "serving" /\ "undo_storage" \in faults'
        BY <1>12, <2>1 DEF undo_storage, Fault
    <2>4. late = {} => \A f \in files' : f.w # ctl.w
        <3>1. CASE mode = "serving"
            BY <2>1, <3>1
        <3>2. CASE mode # "serving"
            BY <1>12, <3>2 DEF undo_storage, Fault
        <3>3. QED BY <3>1, <3>2
    <2>5. late = {} => Bare(ctl.w)'
        BY <2>1, <2>3, <2>4
    <2>6. mode \in {"serving", "recovering"}
        BY <1>12 DEF undo_storage, Undoing
    <2>7. CreateRows' = CreateRows
        BY <2>1
    <2>8. (\A f \in files : f.id < nextId /\ \A row \in rows : row.id = f.id => row.w = f.w)'
        BY <2>1
    <2>9. late = {} => \A f \in files' : State(f.w) \in {"Active", "Removed"}
        BY <2>1
    <2>10. \A t \in reclaimers : t.w \in Workspaces
        OBVIOUS
    <2> HIDE DEF Bare, CreateRows
    <2>11. late = {} =>
            /\ \A w \in Workspaces : State(w) \in {"none", "Reclaimed"} => Bare(w)'
            /\ \A w \in Workspaces : State(w) = "Creating" =>
                 Bare(w)' \/ \E row \in CreateRows : row.w = w
            /\ \A t \in reclaimers : t.pc \in {"tombstones", "reclaimed"} => Bare(t.w)'
        BY <2>2, <2>10
    <2>12. /\ late = {} => (fuse.pc # "idle" => fuse.w \in engines)
           /\ ctl'.pc \in {"undo_state", "undo_git"}
        BY <2>1
    <2> HIDE DEF TypeOK, OperandInv, ModeInv, RowInv, StateInv, PendingInv
    <2>13. QED BY <2>1, <2>5, <2>6, <2>7, <2>8, <2>9, <2>11, <2>12
<1>13. CASE undo_state
    <2>1. ctl'.w = ctl.w /\ ctl'.id = ctl.id /\ ctl.w \in Workspaces
          /\ ctl.pc = "undo_state" /\ ctl'.pc = "undo_row"
          /\ UNCHANGED <<rows, nextId, files, reclaimers, engines, mode, fuse, late>>
        BY <1>13 DEF undo_state, Undoing, UndoSame, Goto
    <2>2. \A w \in Workspaces : Bare(w) => Bare(w)'
        BY <1>13 DEF undo_state, UndoSame, Fault
    <2>3. late = {} => Bare(ctl.w) /\ \A f \in files : f.w # ctl.w
        BY <2>1
    <2>4. /\ \A v \in Workspaces \ {ctl.w} : record'[v] = record[v]
          /\ record'[ctl.w].state = "Reclaimed" \/ UNCHANGED record
        <3>1. CASE record' = [record EXCEPT ![ctl.w].state = "Reclaimed"]
            BY <2>1, <3>1, StateUpdate
        <3>2. QED BY <1>13, <3>1 DEF undo_state
    <2> HIDE DEF Bare
    <2>5. QED BY <2>1, <2>2, <2>3, <2>4
<1>14. CASE undo_row
    BY <1>14 DEF undo_row, Undoing, UndoSame, Without, Fault
<1>15. CASE \E w \in Workspaces : begin_remove(w)
    BY <1>15 DEF begin_remove, Control, ControlSame
<1>16. CASE commit_removed
    <2>1. ctl.w \in Workspaces /\ ctl.id \in Ids /\ ctl.pc = "removed" /\ mode = "serving"
          /\ UNCHANGED <<rows, nextId, tombs, dirs, files, branches, worktrees, fuse, mode,
              crashes, kept>>
        BY <1>16 DEF commit_removed, Control
    <2>2. CASE /\ ctl.w \in engines
               /\ record' = [record EXCEPT ![ctl.w].state = "Removed"]
               /\ engines' = engines \ {ctl.w}
               /\ reclaimers' = reclaimers \cup {[w |-> ctl.w, id |-> ctl.id, pc |-> "git"]}
               /\ late' = late \cup ({ctl.w} \cap {fuse.w})
               /\ ctl' = NoCtl /\ UNCHANGED faults
        <3>1. /\ record'[ctl.w] = [state |-> "Removed", branch |-> record[ctl.w].branch]
              /\ \A v \in Workspaces \ {ctl.w} : record'[v] = record[v]
            BY <2>1, <2>2, StateUpdate
        <3>2. State(ctl.w) = "Active" /\ \A r \in reclaimers : r.pc # "undo_row" => r.w # ctl.w
            BY <2>1
        <3>3. late' = {} => late = {} /\ fuse.w # ctl.w
            BY <2>1, <2>2, ZenonT(30)
        <3>4. late' = {} => (fuse.pc # "idle" => fuse.w \in engines')
            BY <2>2, <3>3
        <3>5. \A w \in Workspaces : Bare(w)' = Bare(w)
            BY <2>1, <2>2
        <3>6. UNCHANGED <<CreateRows, files>>
            BY <2>1
        <3> HIDE DEF Bare, CreateRows
        <3>7. QED BY <2>1, <2>2, <3>1, <3>2, <3>3, <3>4, <3>5, <3>6
    <2>3. CASE /\ ctl' = [ctl EXCEPT !.pc = "undo_row"] /\ faults \subseteq faults'
               /\ UNCHANGED <<record, engines, reclaimers, late>>
        BY <2>1, <2>3
    <2>4. QED BY <1>16, <2>2, <2>3 DEF commit_removed, Goto, Fault
<1>17. CASE Reclamation
    <2>1. PICK t \in reclaimers : start_workspace_reclamation(t)
        BY <1>17 DEF Reclamation
    <2>2. /\ t.w \in Workspaces /\ t.id \in Ids /\ t.pc \in ReclaimSteps /\ mode = "serving"
          /\ UNCHANGED <<nextId, branches, engines, ctl, fuse, mode, crashes, acked, kept,
              late>>
        BY <2>1, ReclaimerEffect
    <2>3. CASE GitReclaimed(t)
        BY <2>2, <2>3 DEF GitReclaimed, Advanced
    <2>4. CASE StorageReclaimed(t)
        BY <2>2, <2>4 DEF StorageReclaimed, Advanced
    <2>5. CASE TombstonesReclaimed(t)
        BY <2>2, <2>5 DEF TombstonesReclaimed, Advanced
    <2>6. CASE NameReleased(t)
        <3>1. /\ record'[t.w] = [state |-> "Reclaimed", branch |-> record[t.w].branch]
              /\ \A v \in Workspaces \ {t.w} : record'[v] = record[v]
            BY <2>2, <2>6, StateUpdate DEF NameReleased
        <3>2. \A w \in Workspaces : Bare(w)' = Bare(w)
            BY <2>6 DEF NameReleased
        <3>3. State(t.w) = "Removed" /\ (late = {} => Bare(t.w))
            BY <2>6 DEF NameReleased
        <3>4. late = {} => \A f \in files : f.w # t.w
            BY <3>3
        <3> HIDE DEF Bare
        <3>5. QED BY <2>2, <2>6, <3>1, <3>2, <3>3, <3>4 DEF NameReleased, Advanced
    <2>7. CASE RowForgotten(t)
        BY <2>2, <2>7 DEF RowForgotten, Without
    <2>8. CASE GivesUp(t)
        BY <2>2, <2>8 DEF GivesUp
    <2>9. QED BY <2>1, <2>3, <2>4, <2>5, <2>6, <2>7, <2>8, ReclaimerEffect
<1>18. CASE \E w \in Workspaces, k \in Mutations : find_active_workspace_engine(w, k)
    BY <1>18 DEF find_active_workspace_engine, FuseSame
<1>19. CASE fuse_journal
    <2>1. CASE nextId =< MaxOps
        BY <1>19, <2>1, FuseJournalled DEF fuse_journal, FuseSame, FuseType
    <2>2. CASE ~(nextId =< MaxOps)
        BY <1>19, <2>2 DEF fuse_journal, FuseSame
    <2>3. QED BY <2>1, <2>2
<1>20. CASE fuse_stage
    <2>1. /\ fuse.pc = "phase" /\ fuse.w \in Workspaces /\ mode = "serving"
          /\ fuse'.w = fuse.w /\ fuse'.pc # "idle"
          /\ UNCHANGED <<record, nextId, engines, reclaimers, ctl, mode, late, faults>>
        BY <1>20 DEF fuse_stage, FuseSame
    <2>2. /\ \A w \in Workspaces : dirs'[w] \cap {"upper", "git"} = dirs[w] \cap {"upper", "git"}
          /\ \A f \in files' : f \in files \/ (f.w = fuse.w /\ f.id = fuse.id)
          /\ files \subseteq files'
        BY <1>20, <2>1 DEF fuse_stage
    <2>3. /\ \A row \in rows' : \E old \in rows : old.id = row.id /\ old.w = row.w
          /\ CreateRows' = CreateRows
        <3> DEFINE Put(row) == IF row.id = fuse.id THEN [row EXCEPT !.phase = "publishing"] ELSE row
        <3>1. rows' = {Put(row) : row \in rows}
            BY <1>20 DEF fuse_stage
        <3>2. \A row \in rows : Put(row).id = row.id /\ Put(row).w = row.w
                  /\ Put(row).kind = row.kind
                  /\ (row.kind = "workspace_create" => Put(row) = row)
            BY <2>1
        <3> HIDE DEF Put
        <3>3. QED BY <3>1, <3>2
    <2>4. /\ late = {} => fuse.w \in engines /\ State(fuse.w) = "Active"
          /\ fuse.id < nextId /\ \A row \in rows : row.id = fuse.id => row.w = fuse.w
        BY <2>1
    <2>5. \A w \in Workspaces : State(w) # "Active" /\ late = {} /\ Bare(w) => Bare(w)'
        BY <2>1, <2>2, <2>4
    <2>6. (\A f \in files : f.id < nextId /\ \A row \in rows : row.id = f.id => row.w = f.w)'
        BY <2>1, <2>2, <2>3, <2>4
    <2>7. late = {} => \A f \in files' : State(f.w) \in {"Active", "Removed"}
        BY <2>2, <2>4
    <2> HIDE DEF Bare, CreateRows
    <2>8. QED BY <2>1, <2>3, <2>4, <2>5, <2>6, <2>7
<1>21. CASE fuse_publish
    <2>1. /\ fuse.pc = "publish" /\ fuse.w \in Workspaces /\ mode = "serving"
          /\ UNCHANGED <<record, nextId, dirs, engines, reclaimers, ctl, mode, late, faults>>
        BY <1>21 DEF fuse_publish, FuseSame
    <2>2. /\ rows' \subseteq rows
          /\ fuse'.pc = "idle" \/ fuse'.w = fuse.w
          /\ files' = Moved(fuse.id, "upper") \/ files' \subseteq files
        BY <1>21 DEF fuse_publish, Without, Unstaged
    <2>3. \A f \in files' : \E g \in files : g.id = f.id /\ g.w = f.w
        BY <2>2 DEF Moved
    <2>4. \A w \in Workspaces : Bare(w) => Bare(w)'
        BY <2>1, <2>3
    <2>5. CreateRows' = CreateRows
        BY <2>1, <1>21 DEF fuse_publish, Without
    <2>6. (\A f \in files : f.id < nextId /\ \A row \in rows : row.id = f.id => row.w = f.w)'
        BY <2>1, <2>2, <2>3
    <2>7. late = {} => \A f \in files' : State(f.w) \in {"Active", "Removed"}
        BY <2>3
    <2> HIDE DEF Bare, CreateRows
    <2>8. QED BY <2>1, <2>2, <2>4, <2>5, <2>6, <2>7
<1>22. CASE fuse_finish
    BY <1>22, SMTT(30) DEF fuse_finish, FuseSame, Without, Fault
<1>23. CASE Crash
    BY <1>23 DEF Crash
<1>24. CASE Restart
    BY <1>24 DEF Restart
<1>25. CASE recover_next_operation
    BY <1>25 DEF recover_next_operation, recover_create, recover_remove, recover_file, Refuse,
       RecoverySame, Without, Moved, Unstaged
<1>26. CASE recover_reclamation
    BY <1>26 DEF recover_reclamation, reclaim, NextReclaimStep, Goto, RecoverySame
<1>27. CASE open_configured_project
    BY <1>27 DEF open_configured_project
<1>28. CASE recover_error
    BY <1>28 DEF recover_error, Refuse, RecoverySame, Fault
<1>29. CASE UNCHANGED vars
    BY <1>29 DEF vars
<1>30. QED
    BY <1>1, <1>2, <1>3, <1>4, <1>5, <1>6, <1>7, <1>8, <1>9, <1>10, <1>11, <1>12, <1>13, <1>14,
       <1>15, <1>16, <1>17, <1>18, <1>19, <1>20, <1>21, <1>22, <1>23, <1>24, <1>25, <1>26,
       <1>27, <1>28, <1>29
       DEF Next, create_workspace, Undo, FileMutation, recover_interrupted_operations

(* No step leaves a tombstone behind in a released name. *)
LEMMA TombStep ==
    TypeOK /\ OperandInv /\ ModeInv /\ RowInv /\ StateInv /\ PendingInv /\ StorageInv
        /\ TombInv /\ [Next]_vars => TombInv'
<1> SUFFICES ASSUME TypeOK, OperandInv, ModeInv, RowInv, StateInv, PendingInv, StorageInv,
            TombInv, [Next]_vars PROVE TombInv'
    OBVIOUS
<1> USE BranchesAssumption, LifecycleBounds
    DEF TypeOK, database, repository, history, NoCtl, NoFuse, State, Ids, States, FileKinds,
        ControlSteps, ReclaimSteps, FuseSteps, CreateSteps, UndoSteps, RemoveSteps, Building,
            CreateRows, RemoveRows, FileRows, OperandInv, ModeInv, RowInv, StateInv,
            PendingInv, StorageInv, TombInv, Sound
<1>1. CASE \E w \in Workspaces, b \in Branches : begin_create(w, b)
    BY <1>1 DEF begin_create, Control, ControlSame
<1>2. CASE save_creating
    <2>1. ctl'.w = ctl.w /\ ctl'.id = ctl.id /\ ctl'.branch = ctl.branch /\ ctl.w \in Workspaces
          /\ ctl.pc = "record" /\ mode = "serving" /\ UNCHANGED <<rows, reclaimers, engines,
              mode, fuse, late, tombs>>
        BY <1>2 DEF save_creating, Goto, Control, ControlSame
    <2>2. CASE record' = [record EXCEPT ![ctl.w] = [state |-> "Creating",
        branch |-> ctl.branch]]
               /\ ctl'.pc = "storage" /\ UNCHANGED faults
        <3>1. /\ record'[ctl.w] = [state |-> "Creating", branch |-> ctl.branch]
              /\ \A v \in Workspaces \ {ctl.w} : record'[v] = record[v]
            BY <2>1, <2>2
        <3>2. QED BY <2>1, <2>2, <3>1
    <2>3. CASE UNCHANGED record /\ ctl'.pc = "undo_row" /\ faults' = faults \cup {"record"}
        BY <2>1, <2>3
    <2>4. QED BY <1>2, <2>2, <2>3 DEF save_creating, Goto, Fault
<1>3. CASE create_storage
    BY <1>3 DEF create_storage, Control, ControlSame, Goto, Fault
<1>4. CASE worktree_add
    BY <1>4 DEF worktree_add, Control, ControlSame, Goto, Fault
<1>5. CASE redirect_gitdir
    BY <1>5 DEF redirect_gitdir, Control, ControlSame, Goto, Fault
<1>6. CASE populate_index
    BY <1>6 DEF populate_index, Control, ControlSame, Goto, Fault
<1>7. CASE write_git_pointer
    BY <1>7 DEF write_git_pointer, Control, ControlSame, Goto, Fault
<1>8. CASE save_active
    <2>1. ctl'.w = ctl.w /\ ctl'.id = ctl.id /\ ctl'.branch = ctl.branch /\ ctl.w \in Workspaces
          /\ ctl.pc = "active" /\ mode = "serving" /\ UNCHANGED <<rows, reclaimers, engines,
              mode, fuse, late, tombs>>
        BY <1>8 DEF save_active, Goto, Control, ControlSame
    <2>2. CASE record' = [record EXCEPT ![ctl.w].state = "Active"] /\ ctl'.pc = "settle"
        /\ UNCHANGED faults
        <3>1. /\ record'[ctl.w] = [state |-> "Active", branch |-> record[ctl.w].branch]
              /\ \A v \in Workspaces \ {ctl.w} : record'[v] = record[v]
            BY <2>1, <2>2, StateUpdate
        <3>2. QED BY <2>1, <2>2, <3>1
    <2>3. CASE UNCHANGED record /\ ctl'.pc = "undo_git" /\ faults' = faults \cup {"active"}
        BY <2>1, <2>3
    <2>4. QED BY <1>8, <2>2, <2>3 DEF save_active, Goto, Fault
<1>9. CASE emplace_engine
    BY <1>9 DEF emplace_engine, Control, ControlSame, Fault, Without
<1>10. CASE rollback_worktree
    BY <1>10 DEF rollback_worktree, Undoing, UndoSame, Goto, Fault
<1>11. CASE rollback_branch
    BY <1>11 DEF rollback_branch, Undoing, UndoSame, Goto, Fault
<1>12. CASE undo_storage
    BY <1>12 DEF undo_storage, Undoing, UndoSame, Goto, Fault
<1>13. CASE undo_state
    <2>1. ctl'.w = ctl.w /\ ctl'.id = ctl.id /\ ctl'.branch = ctl.branch /\ ctl.w \in Workspaces
          /\ ctl.pc = "undo_state" /\ ctl'.pc = "undo_row" /\ faults \subseteq faults'
          /\ UNCHANGED <<rows, reclaimers, engines, mode, fuse, late, tombs>>
        BY <1>13 DEF undo_state, Undoing, UndoSame, Goto, Fault
    <2>2. CASE record' = [record EXCEPT ![ctl.w].state = "Reclaimed"] /\ UNCHANGED faults
        <3>1. /\ record'[ctl.w] = [state |-> "Reclaimed", branch |-> record[ctl.w].branch]
              /\ \A v \in Workspaces \ {ctl.w} : record'[v] = record[v]
            BY <2>1, <2>2, StateUpdate
        <3>2. QED BY <2>1, <2>2, <3>1
    <2>3. CASE UNCHANGED record
               /\ (UNCHANGED faults \/ faults' = faults \cup {"undo_state"})
        BY <2>1, <2>3
    <2>4. QED BY <1>13, <2>2, <2>3 DEF undo_state, Fault
<1>14. CASE undo_row
    BY <1>14 DEF undo_row, Undoing, UndoSame, Without, Fault
<1>15. CASE \E w \in Workspaces : begin_remove(w)
    BY <1>15 DEF begin_remove, Control, ControlSame
<1>16. CASE commit_removed
    <2>1. ctl.w \in Workspaces /\ ctl.id \in Ids /\ ctl.pc = "removed" /\ mode = "serving"
          /\ UNCHANGED <<rows, nextId, tombs, dirs, files, branches, worktrees, fuse, mode,
              crashes, kept>>
        BY <1>16 DEF commit_removed, Control
    <2>2. CASE /\ ctl.w \in engines
               /\ record' = [record EXCEPT ![ctl.w].state = "Removed"]
               /\ engines' = engines \ {ctl.w}
               /\ reclaimers' = reclaimers \cup {[w |-> ctl.w, id |-> ctl.id, pc |-> "git"]}
               /\ late' = late \cup ({ctl.w} \cap {fuse.w})
               /\ ctl' = NoCtl /\ UNCHANGED faults
        <3>1. /\ record'[ctl.w] = [state |-> "Removed", branch |-> record[ctl.w].branch]
              /\ \A v \in Workspaces \ {ctl.w} : record'[v] = record[v]
            BY <2>1, <2>2, StateUpdate
        <3>2. late' = {} => late = {} /\ fuse.w # ctl.w
            BY <2>1, <2>2, ZenonT(30)
        <3>3. late' = {} /\ Sound({"sync"}) => \A row \in FileRows : row.w # ctl.w
            BY <2>1, <3>2
        <3>4. QED BY <2>1, <2>2, <3>1, <3>2, <3>3
    <2>3. CASE /\ ctl' = [ctl EXCEPT !.pc = "undo_row"] /\ faults \subseteq faults'
               /\ UNCHANGED <<record, engines, reclaimers, late>>
        BY <2>1, <2>3
    <2>4. QED BY <1>16, <2>2, <2>3 DEF commit_removed, Goto, Fault
<1>17. CASE Reclamation
    <2>1. PICK t \in reclaimers : start_workspace_reclamation(t)
        BY <1>17 DEF Reclamation
    <2>2. /\ t.w \in Workspaces /\ t.id \in Ids /\ t.pc \in ReclaimSteps /\ mode = "serving"
          /\ UNCHANGED <<nextId, branches, engines, ctl, fuse, mode, crashes, acked, kept,
              late>>
        BY <2>1, ReclaimerEffect
    <2>3. CASE GitReclaimed(t)
        BY <2>2, <2>3 DEF GitReclaimed, Advanced
    <2>4. CASE StorageReclaimed(t)
        BY <2>2, <2>4 DEF StorageReclaimed, Advanced
    <2>5. CASE TombstonesReclaimed(t)
        BY <2>2, <2>5 DEF TombstonesReclaimed, Advanced
    <2>6. CASE NameReleased(t)
        BY <2>2, <2>6 DEF NameReleased, Advanced
    <2>7. CASE RowForgotten(t)
        BY <2>2, <2>7 DEF RowForgotten, Without
    <2>8. CASE GivesUp(t)
        BY <2>2, <2>8 DEF GivesUp
    <2>9. QED BY <2>1, <2>3, <2>4, <2>5, <2>6, <2>7, <2>8, ReclaimerEffect
<1>18. CASE \E w \in Workspaces, k \in Mutations : find_active_workspace_engine(w, k)
    BY <1>18 DEF find_active_workspace_engine, FuseSame
<1>19. CASE fuse_journal
    <2>1. CASE nextId =< MaxOps
        BY <1>19, <2>1, FuseJournalled DEF fuse_journal, FuseSame, FuseType
    <2>2. CASE ~(nextId =< MaxOps)
        BY <1>19, <2>2 DEF fuse_journal, FuseSame
    <2>3. QED BY <2>1, <2>2
<1>20. CASE fuse_stage
    BY <1>20 DEF fuse_stage, FuseSame
<1>21. CASE fuse_publish
    BY <1>21 DEF fuse_publish, FuseSame, Moved, Unstaged, Without
<1>22. CASE fuse_finish
    BY <1>22 DEF fuse_finish, FuseSame, Without, Fault
<1>23. CASE Crash
    BY <1>23 DEF Crash
<1>24. CASE Restart
    BY <1>24 DEF Restart
<1>25. CASE recover_next_operation
    BY <1>25 DEF recover_next_operation, recover_create, recover_remove, recover_file, Refuse,
       RecoverySame, Without, Moved, Unstaged
<1>26. CASE recover_reclamation
    <2>1. /\ ctl.w \in Workspaces /\ ctl.id \in Ids /\ ctl'.w = ctl.w /\ ctl'.id = ctl.id
          /\ mode = "recovering" /\ UNCHANGED <<mode, rows, branches, faults, engines,
              reclaimers, fuse, late>>
        BY <1>26 DEF recover_reclamation, RecoverySame, Goto
    <2>2. CASE ctl.pc = "reclaimed" /\ ctl'.pc = "undo_row"
               /\ record' = [record EXCEPT ![ctl.w].state = "Reclaimed"] /\ UNCHANGED tombs
        <3>1. /\ record'[ctl.w] = [state |-> "Reclaimed", branch |-> record[ctl.w].branch]
              /\ \A v \in Workspaces \ {ctl.w} : record'[v] = record[v]
            BY <2>1, <2>2, StateUpdate
        <3>2. QED BY <2>1, <2>2, <3>1
    <2>3. CASE ctl.pc # "reclaimed" /\ ctl'.pc \in {"reclaim_storage", "tombstones",
        "reclaimed"}
               /\ UNCHANGED record /\ tombs' \subseteq tombs
                   /\ (ctl'.pc = "reclaimed" => ctl.w \notin tombs')
        BY <2>1, <2>3
    <2>4. QED BY <1>26, <2>2, <2>3 DEF recover_reclamation, reclaim, NextReclaimStep, Goto
<1>27. CASE open_configured_project
    BY <1>27 DEF open_configured_project
<1>28. CASE recover_error
    BY <1>28 DEF recover_error, Refuse, RecoverySame, Fault
<1>29. CASE UNCHANGED vars
    BY <1>29 DEF vars
<1>30. QED
    BY <1>1, <1>2, <1>3, <1>4, <1>5, <1>6, <1>7, <1>8, <1>9, <1>10, <1>11, <1>12, <1>13, <1>14,
       <1>15, <1>16, <1>17, <1>18, <1>19, <1>20, <1>21, <1>22, <1>23, <1>24, <1>25, <1>26,
       <1>27, <1>28, <1>29
       DEF Next, create_workspace, Undo, FileMutation, recover_interrupted_operations

-----------------------------------------------------------------------------
(* A new Project satisfies the inductive invariant. *)
LEMMA InitInv == Init => IInv
<1> SUFFICES ASSUME Init PROVE IInv
    OBVIOUS
<1> USE BranchesAssumption, LifecycleBounds
    DEF Init, NoCtl, NoFuse, CreateRows, RemoveRows, FileRows, State, Building, CreateSteps,
        UndoSteps,
        RemoveSteps, Ids
<1>1. TypeOK
    BY DEF TypeOK, States, ControlSteps, FuseSteps, FileKinds
<1>2. OperandInv /\ ModeInv /\ RowInv
    BY DEF OperandInv, ModeInv, RowInv
<1>3. StateInv /\ PendingInv /\ CompleteInv /\ AckedInv
    BY DEF StateInv, PendingInv, CompleteInv, AckedInv
<1>4. KeptInv /\ WorktreeInv /\ BranchInv
    BY DEF KeptInv, WorktreeInv, BranchInv
<1>5. StorageInv /\ TombInv
    BY DEF StorageInv, TombInv, Bare
<1>6. QED BY <1>1, <1>2, <1>3, <1>4, <1>5 DEF IInv

(* The inductive invariant holds in every reachable state. *)
THEOREM Invariance == Spec => []IInv
<1>1. IInv /\ [Next]_vars => IInv'
    BY TypeStep, OperandStep, ModeStep, RowStep, StateStep, PendingStep, CompleteStep,
       AckedStep,
       KeptStep, WorktreeStep, BranchStep, StorageStep, TombStep DEF IInv
<1>2. QED BY InitInv, <1>1, PTL DEF Spec

(* Every variable keeps its type. *)
THEOREM TypeCorrect == Spec => []TypeOK
<1>1. IInv => TypeOK
    BY DEF IInv
<1>2. QED BY Invariance, <1>1, PTL

(* A Workspace that is served has its upper tree, its .git pointer, its      *)
(* registration and its branch, whatever else is created, rolled back or     *)
(* reclaimed meanwhile, and whatever failed before.                          *)
THEOREM ServedComplete == Spec => []ServedIsComplete
<1>1. IInv => ServedIsComplete
    <2> SUFFICES ASSUME IInv, NEW w \in engines
                 PROVE  /\ State(w) = "Active"
                        /\ {"upper", "git"} \subseteq dirs[w]
                        /\ \E t \in AtMount(w) : t.branch = record[w].branch
                        /\ record[w].branch \in branches
        BY DEF ServedIsComplete
    <2> DEFINE t == [w |-> w, at |-> "mount", branch |-> record[w].branch]
    <2>1. w \in Workspaces /\ State(w) = "Active"
        BY DEF IInv, TypeOK, StateInv
    <2>2. {"upper", "git"} \subseteq dirs[w] /\ t \in worktrees
        BY <2>1 DEF IInv, CompleteInv
    <2>3. t.branch \in branches
        BY <2>2 DEF IInv, CompleteInv
    <2>4. t \in AtMount(w) /\ t.branch = record[w].branch
        BY <2>2 DEF AtMount
    <2>5. QED BY <2>1, <2>2, <2>3, <2>4
<1>2. QED BY Invariance, <1>1, PTL

(* A Workspace whose creation was acknowledged, and whose removal was not,   *)
(* is served whenever the daemon serves, across any crashes and errors.      *)
THEOREM AcknowledgedServed == Spec => []AcknowledgedIsServed
<1>1. IInv => AcknowledgedIsServed
    BY DEF IInv, AckedInv, AcknowledgedIsServed
<1>2. QED BY Invariance, <1>1, PTL

(* As long as callers name new branches, no rollback, removal or recovery    *)
(* deletes a branch the user owns (with existing ones they do: see the run   *)
(* lifecycle_branch), unless an error left the row of a creation behind: of  *)
(* creating its directories, or of deleting the row when it was undone.      *)
THEOREM BranchesSurvive ==
    ASSUME ~ReuseBranches PROVE Spec => []KeptBranchesSurvive
<1>1. IInv => KeptBranchesSurvive
    BY DEF IInv, KeptInv, KeptBranchesSurvive
<1>2. QED BY Invariance, <1>1, PTL

(* When no operation is pending, a name without an Active Workspace has no   *)
(* storage and no registration, and no branch is left that is nobody's,      *)
(* unless registering a worktree failed, or undoing a creation did where it  *)
(* was to take something away (LeavingFaults).                               *)
THEOREM NothingLeaked == Spec => []NothingLeaks
<1>1. IInv => NothingLeaks
    <2> SUFFICES ASSUME IInv, mode = "serving", ctl = NoCtl, rows = {}, late = {},
                        Sound(LeavingFaults)
                 PROVE  /\ \A w \in Workspaces : State(w) # "Active" =>
                              dirs[w] \cap {"upper", "git"} = {}
                                  /\ AtMount(w) \cup AtStage(w) = {}
                        /\ branches \subseteq kept
        BY DEF NothingLeaks, LeavingFaults
    <2>1. CreateRows = {} /\ RemoveRows = {}
        BY DEF CreateRows, RemoveRows
    <2>2. \A w \in Workspaces : State(w) \in {"none", "Creating", "Active", "Reclaimed"}
        BY <2>1 DEF IInv, TypeOK, PendingInv, States, State
    <2>3. \A w \in Workspaces : State(w) # "Active" => dirs[w] \cap {"upper", "git"} = {}
        <3>1. "undo_storage" \notin faults
            BY DEF Sound, LeavingFaults
        <3>2. QED BY <2>1, <2>2, <3>1 DEF IInv, StorageInv, Bare
    <2>4. \A t \in worktrees : t.w \in Workspaces
        BY DEF IInv, TypeOK
    <2>5. \A t \in worktrees : State(t.w) = "Active"
        BY <2>1, <2>2, <2>4 DEF IInv, WorktreeInv
    <2>6. branches \subseteq kept
        BY <2>1 DEF IInv, BranchInv
    <2>7. QED BY <2>3, <2>5, <2>6 DEF AtMount, AtStage
<1>2. QED BY Invariance, <1>1, PTL

(* A new Workspace is not hidden by tombstones of an earlier one. *)
THEOREM FreshShowsBase == Spec => []FreshWorkspaceShowsBase
<1>1. IInv => FreshWorkspaceShowsBase
    BY DEF IInv, TombInv, FreshWorkspaceShowsBase
<1>2. QED BY Invariance, <1>1, PTL

(* Opening a Project leaves no Workspace half removed, though reclaimers     *)
(* give up silently: every Removed record has its row, and recovery serves   *)
(* only once no row is left.                                                 *)
THEOREM RemovalsCompleted == Spec => OpeningCompletesRemovals
<1> DEFINE A == mode = "recovering" /\ mode' = "serving" =>
                    \A w \in Workspaces : State(w)' # "Removed"
<1>1. IInv /\ IInv' /\ [Next]_vars => [A]_vars
    <2> SUFFICES ASSUME IInv, IInv', [Next]_vars, mode = "recovering", mode' = "serving"
                 PROVE  \A w \in Workspaces : State(w)' # "Removed"
        OBVIOUS
    <2>1. open_configured_project
        BY DEF Next, begin_create, create_workspace, save_creating, create_storage,
           worktree_add,
           redirect_gitdir, populate_index, write_git_pointer, save_active, emplace_engine,
           Undo, rollback_worktree, rollback_branch, undo_storage, undo_state, undo_row,
               UndoSame,
           begin_remove, commit_removed, Reclamation, start_workspace_reclamation,
           find_active_workspace_engine, FileMutation, fuse_journal, fuse_stage, fuse_publish,
           fuse_finish, Crash, Restart, recover_interrupted_operations, recover_next_operation,
           recover_create, recover_remove, recover_file, recover_reclamation, recover_error,
               Refuse,
           Control, vars
    <2>2. rows' = {}
        BY <2>1 DEF open_configured_project, database
    <2>3. QED BY <2>2 DEF IInv, PendingInv, RemoveRows, State
<1>2. QED BY Invariance, <1>1, PTL DEF Spec, OpeningCompletesRemovals
=============================================================================
