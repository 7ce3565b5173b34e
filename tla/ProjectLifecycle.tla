-------------------------- MODULE ProjectLifecycle --------------------------
(***************************************************************************)
(* The Workspaces of one Project: their records and journal rows in the     *)
(* metadata store, their storage, their Git linked worktrees and branches,  *)
(* the engines that serve them, background reclamation, and the recovery    *)
(* that a starting daemon runs.                                             *)
(*                                                                          *)
(* Four kinds of thread take steps: the control server, which handles one   *)
(* request at a time (ctl); a FUSE thread (fuse), which looks an engine up  *)
(* and then uses it without any lock of the Project; one reclaimer per      *)
(* removed Workspace; and, before any of them, recovery (ctl again).        *)
(***************************************************************************)
EXTENDS Integers, FiniteSets

CONSTANTS
    Workspaces,         \* names of Workspaces
    Branches,           \* names of Git branches
    UserBranches,       \* branches the user had before Tribios ran
    HeadBranch,         \* the one the Project's own working tree has checked out
    ReuseBranches,      \* whether callers name branches that exist already
    Mutations,          \* the file mutations FUSE threads issue
    FaultPoints,        \* the steps that may report an error
    MaxOps, MaxFaults, MaxCrashes

Ids == 1..MaxOps
States == {"none", "Creating", "Active", "Removed", "Reclaimed"}
FileKinds == {"unlink", "write"}
NoBranch == "no branch"

ControlSteps == {"idle", "record", "storage", "add", "redirect", "index", "pointer", "active",
                 "settle", "undo_git", "undo_branch", "undo_storage", "undo_state", "undo_row",
                 "removed", "git", "reclaim_storage", "tombstones", "reclaimed"}
ReclaimSteps == {"git", "reclaim_storage", "tombstones", "reclaimed", "undo_row"}
FuseSteps == {"idle", "journal", "phase", "publish", "finish"}

ASSUME BranchesAssumption ==
    UserBranches \subseteq Branches /\ HeadBranch \in UserBranches /\ NoBranch \notin Branches

ASSUME LifecycleBounds ==
    /\ ReuseBranches \in BOOLEAN
    /\ Mutations \subseteq FileKinds
    /\ FaultPoints \subseteq ControlSteps \cup {"reclaim", "sync", "recover"}
    /\ MaxOps \in Nat /\ MaxFaults \in Nat /\ MaxCrashes \in Nat

VARIABLES
    record,     \* the workspace table: lifecycle state and branch
    rows,       \* the recovery_operation table
    nextId,     \* its AUTOINCREMENT counter
    tombs,      \* Workspaces with rows in the tombstone table
    dirs,       \* what each Workspace's directory holds: the upper tree, the
                \* .git pointer in it, the recovery directory
    files,      \* where the data of journalled writes is
    branches,   \* branches of the Git repository
    worktrees,  \* its registered linked worktrees
    engines,    \* Workspaces the daemon serves
    reclaimers, \* reclamation threads
    ctl,        \* the control server's, or recovery's, step
    fuse,       \* the FUSE request in flight
    mode,       \* "serving", "down", "recovering" or "refused"
    faults,     \* the steps that reported an error so far
    crashes,
    acked,      \* history: Workspaces whose creation was acknowledged and
                \* whose removal was not
    kept,       \* history: branches the user owns: those there at first and
                \* those of Workspaces that became Active
    late        \* history: Workspaces removed while a FUSE request on them
                \* was under way

database == <<record, rows, nextId, tombs>>
repository == <<branches, worktrees>>
history == <<acked, kept, late>>
vars == <<database, dirs, files, repository, engines, reclaimers, ctl, fuse, mode,
          faults, crashes, history>>

NoCtl == [pc |-> "idle", w |-> "none", branch |-> NoBranch, id |-> 0]
NoFuse == [pc |-> "idle", w |-> "none", kind |-> "none", id |-> 0]

State(w) == record[w].state
Without(id) == {row \in rows : row.id # id}
AtStage(w) == {t \in worktrees : t.w = w /\ t.at = "staging"}
AtMount(w) == {t \in worktrees : t.w = w /\ t.at = "mount"}
CheckedOut(b) == b = HeadBranch \/ \E t \in worktrees : t.branch = b

(* git worktree remove takes one registration away, if there is any. *)
OneOf(S) == IF S = {} THEN {{}} ELSE {{t} : t \in S}

Init ==
    /\ record = [w \in Workspaces |-> [state |-> "none", branch |-> NoBranch]]
    /\ rows = {} /\ nextId = 1 /\ tombs = {}
    /\ dirs = [w \in Workspaces |-> {}] /\ files = {}
    /\ branches = UserBranches /\ worktrees = {}
    /\ engines = {} /\ reclaimers = {}
    /\ ctl = NoCtl /\ fuse = NoFuse /\ mode = "serving"
    /\ faults = {} /\ crashes = 0
    /\ acked = {} /\ kept = UserBranches /\ late = {}

Fault(s) ==
    /\ s \in FaultPoints \ faults
    /\ Cardinality(faults) < MaxFaults
    /\ faults' = faults \cup {s}

(* The control server's next step. *)
Control(s) == mode = "serving" /\ ctl.pc = s
Goto(s) == ctl' = [ctl EXCEPT !.pc = s]
ControlSame == UNCHANGED <<reclaimers, fuse, mode, crashes>>

-----------------------------------------------------------------------------
(* create_workspace. *)

begin_create(w, b) ==
    /\ Control("idle")
    /\ nextId =< MaxOps
    /\ w \notin engines
    /\ State(w) \in {"none", "Reclaimed"}
    /\ ReuseBranches \/ b \notin branches
    /\ rows' = rows \cup {[id |-> nextId, kind |-> "workspace_create", w |-> w, branch |-> b,
                           phase |-> "prepared"]}
    /\ nextId' = nextId + 1
    /\ ctl' = [pc |-> "record", w |-> w, branch |-> b, id |-> nextId]
    /\ ControlSame /\ UNCHANGED <<record, tombs, dirs, files, repository, engines, faults, history>>

save_creating ==
    /\ Control("record")
    /\ \/ /\ record' = [record EXCEPT ![ctl.w] = [state |-> "Creating", branch |-> ctl.branch]]
          /\ Goto("storage") /\ UNCHANGED faults
       \/ /\ Fault("record")
          /\ Goto("undo_row") /\ UNCHANGED record
    /\ ControlSame /\ UNCHANGED <<rows, nextId, tombs, dirs, files, repository, engines, history>>

(* An injected error is undone; a real one, of create_directories or of the *)
(* sync after it, returns and leaves the row and the Creating record to the *)
(* next recovery.                                                           *)
create_storage ==
    LET created == [dirs EXCEPT ![ctl.w] = @ \cup {"upper"}]
    IN  /\ Control("storage")
        /\ \/ /\ dirs' = created
              /\ Goto("add") /\ UNCHANGED faults
           \/ /\ Fault("storage")
              /\ Goto("undo_state") /\ UNCHANGED dirs
           \/ /\ Fault("storage")
              /\ ctl' = NoCtl /\ dirs' \in {dirs, created}
        /\ ControlSame /\ UNCHANGED <<database, files, repository, engines, history>>

(* git worktree add -b refuses a branch that exists, then makes the branch, *)
(* and only then looks at the path, which must not be registered.           *)
CanAdd(w, b) == b \notin branches /\ AtStage(w) = {}

(* The three fallible parts of register_linked_worktree.  None of its       *)
(* errors is followed by a Git rollback: the branch that a failing command  *)
(* has made already stays.                                                  *)
worktree_add ==
    /\ Control("add")
    /\ \/ /\ CanAdd(ctl.w, ctl.branch)
          /\ branches' = branches \cup {ctl.branch}
          /\ worktrees' = worktrees \cup {[w |-> ctl.w, at |-> "staging", branch |-> ctl.branch]}
          /\ Goto("redirect") /\ UNCHANGED faults
       \/ /\ ~CanAdd(ctl.w, ctl.branch)
          /\ branches' = branches \cup {ctl.branch}
          /\ Goto("undo_storage") /\ UNCHANGED <<worktrees, faults>>
       \/ /\ CanAdd(ctl.w, ctl.branch) /\ Fault("add")
          /\ branches' \in {branches, branches \cup {ctl.branch}}
          /\ Goto("undo_storage") /\ UNCHANGED worktrees
    /\ ControlSame /\ UNCHANGED <<database, dirs, files, engines, history>>

redirect_gitdir ==
    /\ Control("redirect")
    /\ \/ /\ worktrees' = {IF t.w = ctl.w /\ t.branch = ctl.branch THEN [t EXCEPT !.at = "mount"] ELSE t :
                            t \in worktrees}
          /\ Goto("index") /\ UNCHANGED faults
       \/ /\ Fault("redirect")
          /\ Goto("undo_storage") /\ UNCHANGED worktrees
    /\ ControlSame /\ UNCHANGED <<database, dirs, files, branches, engines, history>>

populate_index ==
    /\ Control("index")
    /\ \/ Goto("pointer") /\ UNCHANGED faults
       \/ Fault("index") /\ Goto("undo_storage")
    /\ ControlSame /\ UNCHANGED <<database, dirs, files, repository, engines, history>>

write_git_pointer ==
    /\ Control("pointer")
    /\ \/ /\ dirs' = [dirs EXCEPT ![ctl.w] = @ \cup {"git"}]
          /\ Goto("active") /\ UNCHANGED faults
       \/ /\ Fault("pointer")
          /\ Goto("undo_git") /\ UNCHANGED dirs
    /\ ControlSame /\ UNCHANGED <<database, files, repository, engines, history>>

save_active ==
    /\ Control("active")
    /\ \/ /\ record' = [record EXCEPT ![ctl.w].state = "Active"]
          /\ kept' = kept \cup {ctl.branch}
          /\ Goto("settle") /\ UNCHANGED faults
       \/ /\ Fault("active")
          /\ Goto("undo_git") /\ UNCHANGED <<record, kept>>
    /\ ControlSame /\ UNCHANGED <<rows, nextId, tombs, dirs, files, repository, engines, acked, late>>

(* An error here leaves an Active Workspace without an engine. *)
emplace_engine ==
    /\ Control("settle")
    /\ ctl' = NoCtl
    /\ \/ /\ rows' = Without(ctl.id)
          /\ engines' = engines \cup {ctl.w}
          /\ acked' = acked \cup {ctl.w}
          /\ UNCHANGED faults
       \/ /\ Fault("settle")
          /\ UNCHANGED <<rows, engines, acked>>
    /\ ControlSame /\ UNCHANGED <<record, nextId, tombs, dirs, files, repository, kept, late>>

-----------------------------------------------------------------------------
(* Undoing a creation, by the control server and by recovery alike.  The    *)
(* control server ignores the error of any of these steps and goes on to    *)
(* the next; recovery refuses to start (recover_error).                     *)

Undoing(s) == mode \in {"serving", "recovering"} /\ ctl.pc = s
UndoSame == UNCHANGED <<reclaimers, fuse, crashes, engines, history, nextId, tombs>>

(* The mount's path and the staging path are unregistered.  An error of one *)
(* of the two is passed over; after errors of both the branch is kept.      *)
rollback_worktree ==
    /\ Undoing("undo_git")
    /\ \E mount \in OneOf(AtMount(ctl.w)), staging \in OneOf(AtStage(ctl.w)) :
          \/ /\ worktrees' = worktrees \ (mount \cup staging)
             /\ Goto("undo_branch") /\ UNCHANGED <<mode, faults>>
          \/ /\ Fault("undo_git")
             /\ worktrees' \in {worktrees \ gone : gone \in SUBSET (mount \cup staging)}
             /\ \/ Goto("undo_branch") /\ UNCHANGED mode
                \/ /\ mode = "serving"
                   /\ Goto("undo_storage") /\ UNCHANGED mode
                \/ /\ mode = "recovering"
                   /\ ctl' = NoCtl /\ mode' = "refused"
    /\ UndoSame /\ UNCHANGED <<record, rows, dirs, files, branches>>

(* Mutant: recovery leaves the branch behind. *)
MutKeepsBranch ==
    /\ Undoing("undo_branch")
    /\ Goto(IF mode = "serving" THEN "undo_storage" ELSE "undo_state")
    /\ UNCHANGED <<branches, reclaimers, fuse, mode, crashes, faults, engines, history, nextId,
                   tombs, record, rows, dirs, files, worktrees>>

(* git branch -D; a branch that is not there is no error.  One that some    *)
(* worktree has checked out cannot be deleted: the control server ignores   *)
(* that and any other error, recovery refuses to start.                     *)
rollback_branch ==
    /\ Undoing("undo_branch")
    /\ \/ /\ ~CheckedOut(ctl.branch)
          /\ branches' = branches \ {ctl.branch}
          /\ Goto(IF mode = "serving" THEN "undo_storage" ELSE "undo_state")
          /\ UNCHANGED <<mode, faults>>
       \/ /\ mode = "serving"
          /\ (CheckedOut(ctl.branch) /\ UNCHANGED faults) \/ Fault("undo_branch")
          /\ Goto("undo_storage") /\ UNCHANGED <<mode, branches>>
       \/ /\ mode = "recovering" /\ CheckedOut(ctl.branch)
          /\ ctl' = NoCtl /\ mode' = "refused" /\ UNCHANGED <<faults, branches>>
    /\ UndoSame /\ UNCHANGED <<record, rows, dirs, files, worktrees>>

(* The control server removes the upper tree only, recovery everything.     *)
(* remove_all that fails has removed some of it, not the directory.         *)
undo_storage ==
    LET outside == {f \in files : f.w # ctl.w \/ (mode = "serving" /\ f.in = "recovery")}
    IN  /\ Undoing("undo_storage")
        /\ \/ /\ dirs' = [dirs EXCEPT ![ctl.w] =
                              IF mode = "serving" THEN @ \ {"upper", "git"} ELSE {}]
              /\ files' = outside
              /\ Goto(IF mode = "serving" THEN "undo_state" ELSE "undo_git")
              /\ UNCHANGED faults
           \/ /\ mode = "serving" /\ Fault("undo_storage")
              /\ dirs' \in {dirs, [dirs EXCEPT ![ctl.w] = @ \ {"git"}]}
              /\ files' \in {files, outside}
              /\ Goto("undo_state")
        /\ UndoSame /\ UNCHANGED <<mode, record, rows, repository>>

(* Mutant: a state that is none of the lifecycle's. *)
MutAbortedState ==
    /\ Undoing("undo_state")
    /\ record' = [record EXCEPT ![ctl.w].state = "Aborted"]
    /\ Goto("undo_row")
    /\ UndoSame /\ UNCHANGED <<mode, faults, rows, dirs, files, repository>>

(* Mutant: the record stays Creating. *)
MutLeavesCreating ==
    /\ Undoing("undo_state")
    /\ Goto("undo_row")
    /\ UndoSame /\ UNCHANGED <<mode, faults, record, rows, dirs, files, repository>>

undo_state ==
    /\ Undoing("undo_state")
    /\ \/ /\ record' = IF State(ctl.w) = "none" THEN record
                       ELSE [record EXCEPT ![ctl.w].state = "Reclaimed"]
          /\ UNCHANGED faults
       \/ /\ mode = "serving" /\ Fault("undo_state")
          /\ UNCHANGED record
    /\ Goto("undo_row")
    /\ UndoSame /\ UNCHANGED <<mode, rows, dirs, files, repository>>

(* An error while serving leaves the row to the next recovery. *)
undo_row ==
    /\ Undoing("undo_row")
    /\ \/ rows' = Without(ctl.id) /\ UNCHANGED faults
       \/ mode = "serving" /\ Fault("undo_row") /\ UNCHANGED rows
    /\ ctl' = NoCtl
    /\ UndoSame /\ UNCHANGED <<mode, record, dirs, files, repository>>

-----------------------------------------------------------------------------
(* remove_workspace and the reclamation that follows it. *)

begin_remove(w) ==
    /\ Control("idle")
    /\ nextId =< MaxOps
    /\ State(w) = "Active"
    /\ rows' = rows \cup {[id |-> nextId, kind |-> "workspace_remove", w |-> w,
                           branch |-> NoBranch, phase |-> "prepared"]}
    /\ nextId' = nextId + 1
    /\ ctl' = [pc |-> "removed", w |-> w, branch |-> NoBranch, id |-> nextId]
    /\ ControlSame /\ UNCHANGED <<record, tombs, dirs, files, repository, engines, faults, history>>

(* The removed state is committed and the engine erased under the lock that *)
(* lookups need; the reclaimer is started.                                  *)
commit_removed ==
    /\ Control("removed")
    /\ \/ /\ ctl.w \in engines
          /\ record' = [record EXCEPT ![ctl.w].state = "Removed"]
          /\ engines' = engines \ {ctl.w}
          /\ reclaimers' = reclaimers \cup {[w |-> ctl.w, id |-> ctl.id, pc |-> "git"]}
          /\ acked' = acked \ {ctl.w}
          /\ late' = late \cup ({ctl.w} \cap {fuse.w})
          /\ ctl' = NoCtl /\ UNCHANGED faults
       \/ /\ ctl.w \notin engines
          /\ Goto("undo_row") /\ UNCHANGED <<record, engines, reclaimers, acked, late, faults>>
       \/ /\ Fault("removed")
          /\ Goto("undo_row") /\ UNCHANGED <<record, engines, reclaimers, acked, late>>
    /\ UNCHANGED <<rows, nextId, tombs, dirs, files, repository, fuse, mode, crashes, kept>>

(* Mutant: the name is released before the storage is reclaimed. *)
MutReleasesNameFirst == [git |-> "reclaimed", reclaimed |-> "reclaim_storage",
                         reclaim_storage |-> "tombstones", tombstones |-> "undo_row"]

(* Mutant: the tombstones of the removed Workspace are not cleared. *)
MutKeepsTombstones == [git |-> "reclaim_storage", reclaim_storage |-> "reclaimed",
                       tombstones |-> "reclaimed", reclaimed |-> "undo_row"]

NextReclaimStep == [git |-> "reclaim_storage", reclaim_storage |-> "tombstones",
                    tombstones |-> "reclaimed", reclaimed |-> "undo_row"]

(* One step of reclaiming w, by a reclaimer and by recovery alike. *)
reclaim(w, step) ==
    \/ /\ step = "git"
       /\ \E gone \in OneOf(AtMount(w)) : worktrees' = worktrees \ gone
       /\ UNCHANGED <<dirs, files, tombs, record>>
    \/ /\ step = "reclaim_storage"
       /\ dirs' = [dirs EXCEPT ![w] = {}]
       /\ files' = {f \in files : f.w # w}
       /\ UNCHANGED <<worktrees, tombs, record>>
    \/ /\ step = "tombstones"
       /\ tombs' = tombs \ {w}
       /\ UNCHANGED <<worktrees, dirs, files, record>>
    \/ /\ step = "reclaimed"
       /\ record' = [record EXCEPT ![w].state = "Reclaimed"]
       /\ UNCHANGED <<worktrees, dirs, files, tombs>>

(* Any failing step ends the thread and leaves the rest to a restart. *)
start_workspace_reclamation(t) ==
    /\ mode = "serving"
    /\ t \in reclaimers
    /\ \/ /\ t.pc # "undo_row"
          /\ reclaim(t.w, t.pc)
          /\ reclaimers' = (reclaimers \ {t}) \cup {[t EXCEPT !.pc = NextReclaimStep[t.pc]]}
          /\ UNCHANGED <<rows, faults>>
       \/ /\ t.pc = "undo_row"
          /\ rows' = Without(t.id)
          /\ reclaimers' = reclaimers \ {t}
          /\ UNCHANGED <<worktrees, dirs, files, tombs, record, faults>>
       \/ /\ Fault("reclaim")
          /\ reclaimers' = reclaimers \ {t}
          /\ UNCHANGED <<worktrees, dirs, files, tombs, record, rows>>
    /\ UNCHANGED <<nextId, branches, engines, ctl, fuse, mode, crashes, history>>

-----------------------------------------------------------------------------
(* A file mutation on a FUSE thread.  WorkspaceEngine has its details; here *)
(* it is a row, staged data, and for the removal of a Base entry a tombstone. *)

FuseSame == UNCHANGED <<record, repository, engines, reclaimers, ctl, mode, crashes, history>>
Moved(id, to) == {IF f.id = id THEN [f EXCEPT !.in = to] ELSE f : f \in files}
Unstaged(id) == {f \in files : f.id # id}

find_active_workspace_engine(w, k) ==
    /\ mode = "serving" /\ fuse.pc = "idle"
    /\ w \in engines /\ nextId =< MaxOps
    /\ fuse' = [pc |-> "journal", w |-> w, kind |-> k, id |-> 0]
    /\ FuseSame /\ UNCHANGED <<rows, nextId, tombs, dirs, files, faults>>

(* Without an identifier left the request ends: the bound on identifiers. *)
fuse_journal ==
    /\ mode = "serving" /\ fuse.pc = "journal"
    /\ IF nextId =< MaxOps
       THEN /\ rows' = rows \cup {[id |-> nextId, kind |-> fuse.kind, w |-> fuse.w,
                                   branch |-> NoBranch, phase |-> "prepared"]}
            /\ nextId' = nextId + 1
            /\ fuse' = [fuse EXCEPT !.pc = "phase", !.id = nextId]
       ELSE fuse' = NoFuse /\ UNCHANGED <<rows, nextId>>
    /\ FuseSame /\ UNCHANGED <<tombs, dirs, files, faults>>

(* The recovery directory is created if it is not there. *)
fuse_stage ==
    /\ mode = "serving" /\ fuse.pc = "phase"
    /\ IF fuse.kind = "write"
       THEN /\ dirs' = [dirs EXCEPT ![fuse.w] = @ \cup {"recovery"}]
            /\ files' = files \cup {[w |-> fuse.w, id |-> fuse.id, in |-> "recovery"]}
       ELSE UNCHANGED <<dirs, files>>
    /\ rows' = {IF row.id = fuse.id THEN [row EXCEPT !.phase = "publishing"] ELSE row : row \in rows}
    /\ fuse' = [fuse EXCEPT !.pc = "publish"]
    /\ FuseSame /\ UNCHANGED <<nextId, tombs, faults>>

(* The rename needs the staged data and the upper tree it moves into. *)
fuse_publish ==
    LET published == "upper" \in dirs[fuse.w] /\ \E f \in files : f.id = fuse.id
    IN  /\ mode = "serving" /\ fuse.pc = "publish"
        /\ \/ /\ fuse.kind = "write" => published
              /\ files' = Moved(fuse.id, "upper")
              /\ fuse' = [fuse EXCEPT !.pc = "finish"]
              /\ UNCHANGED rows
           \/ /\ fuse.kind = "write" /\ ~published
              /\ files' = Unstaged(fuse.id)
              /\ rows' = Without(fuse.id)
              /\ fuse' = NoFuse
        /\ FuseSame /\ UNCHANGED <<nextId, tombs, dirs, faults>>

(* A failing sync or commit reports an error and leaves the row.  After     *)
(* success the recovery directory goes, unless something is staged in it.   *)
fuse_finish ==
    /\ mode = "serving" /\ fuse.pc = "finish"
    /\ fuse' = NoFuse
    /\ \/ /\ rows' = Without(fuse.id)
          /\ IF fuse.kind = "unlink"
             THEN tombs' = tombs \cup {fuse.w} /\ UNCHANGED dirs
             ELSE /\ dirs' = IF \E f \in files : f.w = fuse.w /\ f.in = "recovery" THEN dirs
                             ELSE [dirs EXCEPT ![fuse.w] = @ \ {"recovery"}]
                  /\ UNCHANGED tombs
          /\ UNCHANGED faults
       \/ Fault("sync") /\ UNCHANGED <<rows, tombs, dirs>>
    /\ FuseSame /\ UNCHANGED <<nextId, files>>

-----------------------------------------------------------------------------
(* Crash and recovery. *)

Crash ==
    /\ mode \in {"serving", "recovering"}
    /\ crashes < MaxCrashes
    /\ crashes' = crashes + 1
    /\ mode' = "down"
    /\ engines' = {} /\ reclaimers' = {} /\ ctl' = NoCtl /\ fuse' = NoFuse
    /\ UNCHANGED <<database, dirs, files, repository, faults, history>>

Restart ==
    /\ mode \in {"down", "refused"}
    /\ mode' = "recovering"
    /\ UNCHANGED <<database, dirs, files, repository, engines, reclaimers, ctl, fuse, faults,
                   crashes, history>>

RecoverySame == UNCHANGED <<nextId, engines, reclaimers, fuse, crashes, history>>
Refuse == mode' = "refused" /\ ctl' = NoCtl /\ UNCHANGED <<record, rows, tombs, dirs, files>>

(* The next row is the one with the least identifier. *)
NextRow(row) == row \in rows /\ \A other \in rows : row.id =< other.id

(* The .git pointer, the registration it names, and the branch, which may   *)
(* be that of any worktree listed.                                          *)
validate_completed_workspace_creation(w, b) ==
    "git" \in dirs[w] /\ AtMount(w) # {} /\ CheckedOut(b)

(* Mutant: recovery rolls every creation back, completed ones too. *)
MutRollsBackActive(row) ==
    /\ ctl' = [pc |-> "undo_storage", w |-> row.w, branch |-> row.branch, id |-> row.id]
    /\ UNCHANGED <<mode, record, rows, tombs, dirs, files>>

recover_create(row) ==
    \/ /\ State(row.w) = "Active"
       /\ validate_completed_workspace_creation(row.w, row.branch)
       /\ rows' = Without(row.id)
       /\ UNCHANGED <<mode, ctl, record, tombs, dirs, files>>
    \/ /\ State(row.w) = "Active"
       /\ ~validate_completed_workspace_creation(row.w, row.branch)
       /\ Refuse
    \/ /\ State(row.w) # "Active"
       /\ ctl' = [pc |-> "undo_storage", w |-> row.w, branch |-> row.branch, id |-> row.id]
       /\ UNCHANGED <<mode, record, rows, tombs, dirs, files>>

(* Mutant: recovery reclaims a Workspace whose removal was not committed. *)
MutReclaimsActive(row) ==
    /\ ctl' = [pc |-> "git", w |-> row.w, branch |-> NoBranch, id |-> row.id]
    /\ UNCHANGED <<mode, record, rows, tombs, dirs, files>>

(* Mutant: recovery forgets a removal without reclaiming anything. *)
MutDropsRemoval(row) ==
    /\ rows' = Without(row.id)
    /\ UNCHANGED <<mode, ctl, record, tombs, dirs, files>>

(* A removal that was not committed is forgotten. *)
recover_remove(row) ==
    \/ /\ State(row.w) \in {"none", "Active"}
       /\ rows' = Without(row.id)
       /\ UNCHANGED <<mode, ctl, record, tombs, dirs, files>>
    \/ /\ State(row.w) \notin {"none", "Active"}
       /\ ctl' = [pc |-> "git", w |-> row.w, branch |-> NoBranch, id |-> row.id]
       /\ UNCHANGED <<mode, record, rows, tombs, dirs, files>>

(* A prepared mutation is undone and a publishing one completed, whatever   *)
(* the state of its Workspace.                                              *)
recover_file(row) ==
    LET data == {f \in files : f.id = row.id}
    IN  \/ /\ row.phase = "publishing" /\ row.kind = "write" /\ data = {}
           /\ Refuse                            \* "both ... are missing"
        \/ /\ row.phase = "prepared" \/ row.kind = "unlink" \/ data # {}
           /\ rows' = Without(row.id)
           /\ tombs' = IF row.phase = "publishing" /\ row.kind = "unlink"
                       THEN tombs \cup {row.w} ELSE tombs
           /\ IF row.phase = "publishing" /\ row.kind = "write"
              THEN /\ dirs' = [dirs EXCEPT ![row.w] = @ \cup {"upper"}]
                   /\ files' = Moved(row.id, "upper")
              ELSE UNCHANGED dirs /\ files' = Unstaged(row.id)
           /\ UNCHANGED <<mode, ctl, record>>

recover_next_operation ==
    /\ mode = "recovering" /\ ctl.pc = "idle"
    /\ \E row \in rows :
        /\ NextRow(row)
        /\ CASE row.kind = "workspace_create" -> recover_create(row)
             [] row.kind = "workspace_remove" -> recover_remove(row)
             [] OTHER -> recover_file(row)
    /\ RecoverySame /\ UNCHANGED <<repository, faults>>

recover_reclamation ==
    /\ mode = "recovering" /\ ctl.pc \in ReclaimSteps \ {"undo_row"}
    /\ reclaim(ctl.w, ctl.pc)
    /\ Goto(NextReclaimStep[ctl.pc])
    /\ RecoverySame /\ UNCHANGED <<mode, rows, branches, faults>>

validate_project_storage_invariants ==
    \A w \in Workspaces :
        /\ State(w) # "Creating"
        /\ State(w) = "Active" =>
              "upper" \in dirs[w] /\ validate_completed_workspace_creation(w, record[w].branch)

(* Recovery directories are emptied, the invariants validated, and the      *)
(* Active Workspaces given engines.                                         *)
open_configured_project ==
    /\ mode = "recovering" /\ ctl.pc = "idle" /\ rows = {}
    /\ dirs' = [w \in Workspaces |-> dirs[w] \ {"recovery"}]
    /\ files' = {f \in files : f.in # "recovery"}
    /\ IF validate_project_storage_invariants
       THEN mode' = "serving" /\ engines' = {w \in Workspaces : State(w) = "Active"}
       ELSE mode' = "refused" /\ UNCHANGED engines
    /\ UNCHANGED <<database, repository, reclaimers, ctl, fuse, faults, crashes, history>>

recover_error ==
    /\ mode = "recovering"
    /\ Fault("recover")
    /\ Refuse
    /\ RecoverySame /\ UNCHANGED repository

-----------------------------------------------------------------------------
create_workspace ==
    \/ save_creating
    \/ create_storage
    \/ worktree_add
    \/ redirect_gitdir
    \/ populate_index
    \/ write_git_pointer
    \/ save_active
    \/ emplace_engine

Undo ==
    \/ rollback_worktree
    \/ rollback_branch
    \/ undo_storage
    \/ undo_state
    \/ undo_row

Reclamation == \E t \in reclaimers : start_workspace_reclamation(t)

FileMutation ==
    \/ fuse_journal
    \/ fuse_stage
    \/ fuse_publish
    \/ fuse_finish

recover_interrupted_operations ==
    \/ recover_next_operation
    \/ recover_reclamation
    \/ open_configured_project

Next ==
    \/ \E w \in Workspaces, b \in Branches : begin_create(w, b)
    \/ create_workspace
    \/ Undo
    \/ \E w \in Workspaces : begin_remove(w)
    \/ commit_removed
    \/ Reclamation
    \/ \E w \in Workspaces, k \in Mutations : find_active_workspace_engine(w, k)
    \/ FileMutation
    \/ Crash
    \/ Restart
    \/ recover_interrupted_operations
    \/ recover_error

Spec == Init /\ [][Next]_vars

(* Each thread runs until its request is answered or its Workspace          *)
(* reclaimed, and the daemon is started again after it stopped.             *)
FairSpec ==
    /\ Spec
    /\ WF_vars(create_workspace \/ commit_removed)
    /\ WF_vars(Undo)
    /\ WF_vars(Reclamation)
    /\ WF_vars(FileMutation)
    /\ WF_vars(recover_interrupted_operations)
    /\ WF_vars(Restart)

-----------------------------------------------------------------------------
(* Properties. *)

(* Every variable keeps the type its representation in the code has. *)
TypeOK ==
    /\ record \in [Workspaces -> [state : States, branch : Branches \cup {NoBranch}]]
    /\ rows \subseteq [id : Ids, kind : {"workspace_create", "workspace_remove"} \cup FileKinds,
                       w : Workspaces, branch : Branches \cup {NoBranch},
                       phase : {"prepared", "publishing"}]
    /\ nextId \in 1..(MaxOps + 1)
    /\ tombs \subseteq Workspaces
    /\ dirs \in [Workspaces -> SUBSET {"upper", "git", "recovery"}]
    /\ files \subseteq [w : Workspaces, id : Ids, in : {"recovery", "upper"}]
    /\ branches \subseteq Branches
    /\ worktrees \subseteq [w : Workspaces, at : {"staging", "mount"}, branch : Branches]
    /\ engines \subseteq Workspaces
    /\ reclaimers \subseteq [w : Workspaces, id : Ids, pc : ReclaimSteps]
    /\ ctl \in [pc : ControlSteps, w : Workspaces \cup {"none"},
                branch : Branches \cup {NoBranch}, id : 0..MaxOps]
    /\ fuse \in [pc : FuseSteps, w : Workspaces \cup {"none"}, kind : FileKinds \cup {"none"},
                 id : 0..MaxOps]
    /\ mode \in {"serving", "down", "recovering", "refused"}
    /\ faults \subseteq FaultPoints /\ crashes \in 0..MaxCrashes
    /\ acked \subseteq Workspaces /\ kept \subseteq Branches /\ late \subseteq Workspaces

(* A Workspace that is served is Active and complete: it has its upper      *)
(* tree, its .git pointer, its registration with Git and its branch.  No    *)
(* reclamation or rollback of an earlier Workspace of that name takes any   *)
(* of them away.                                                            *)
ServedIsComplete ==
    \A w \in engines :
        /\ State(w) = "Active"
        /\ {"upper", "git"} \subseteq dirs[w]
        /\ \E t \in AtMount(w) : t.branch = record[w].branch
        /\ record[w].branch \in branches

(* A Workspace whose creation was acknowledged, and whose removal was not,  *)
(* is served whenever the daemon serves.                                    *)
AcknowledgedIsServed == mode = "serving" => acked \subseteq engines

(* No call of the steps S has failed so far. *)
Sound(S) == faults \cap S = {}

(* When no operation is pending, only Active Workspaces own storage and     *)
(* registrations, and only branches the user owns are left: an interrupted  *)
(* or failed creation and a finished removal leave nothing behind.  Set     *)
(* aside: the errors of register_linked_worktree, which is not undone (a    *)
(* failing git worktree add may leave its new branch), an error of the undo *)
(* itself where it was to take something away, and a request that outlives  *)
(* its Workspace.                                                           *)
LeavingFaults == {"add", "redirect", "index", "undo_git", "undo_branch", "undo_storage"}
NothingLeaks ==
    mode = "serving" /\ ctl = NoCtl /\ rows = {} /\ late = {} /\ Sound(LeavingFaults) =>
        /\ \A w \in Workspaces : State(w) # "Active" =>
              dirs[w] \cap {"upper", "git"} = {} /\ AtMount(w) \cup AtStage(w) = {}
        /\ branches \subseteq kept

(* No branch the user owns is ever deleted, whatever creation or removal is *)
(* rolled back or completed.  Set aside: a creation that could not make its *)
(* directories, or whose row could not be deleted when it was undone, keeps *)
(* a row that claims a branch the user may make later.                      *)
KeptBranchesSurvive == Sound({"storage", "undo_row"}) => kept \subseteq branches

(* A new Workspace shows the Base state: no tombstone of an earlier         *)
(* Workspace of that name hides anything in it, unless a request outlived   *)
(* that Workspace or left its row behind.                                   *)
FreshWorkspaceShowsBase ==
    late = {} /\ Sound({"sync"}) => \A w \in Workspaces : State(w) = "Creating" => w \notin tombs

(* A Project whose daemon is started again and again is eventually served,  *)
(* whatever step of a creation or removal a crash interrupted.  Set aside:  *)
(* a request that outlived its Workspace, the errors that leave a row for a *)
(* Workspace whose directories are not there, and an undo that could not    *)
(* settle the record or delete the row: validation refuses a Creating       *)
(* record, and an old row may name what another Workspace uses by now.      *)
EventuallyServed == []<>(mode = "serving" \/ late # {} \/ ~Sound({"storage", "sync", "undo_state", "undo_row"}))

(* The same also when a request outlives its Workspace (ADR 0005: Tribios   *)
(* must recover every interrupted Workspace mutation).                      *)
AlwaysServedAgain == []<>(mode = "serving")

(* Every removed Workspace is eventually reclaimed, by its reclaimer or by  *)
(* the recovery that follows a crash.  Set aside with the cases above: a    *)
(* reclaimer that gave up at an error while nobody opens the Project again. *)
RemovedIsReclaimed ==
    \A w \in Workspaces :
        State(w) = "Removed" ~>
            State(w) = "Reclaimed" \/ late # {} \/ ~Sound({"reclaim", "storage", "sync", "undo_state", "undo_row"})

(* A reclaimer gives up at its first error and says nothing; a Project that *)
(* is opened again has every removal completed all the same.                *)
OpeningCompletesRemovals ==
    [][mode = "recovering" /\ mode' = "serving" =>
          \A w \in Workspaces : State(w)' # "Removed"]_vars
=============================================================================
