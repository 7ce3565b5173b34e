# A verification of Tribios VFS in TLA+

Tribios gives every Workspace of a Project its own writable view of one
captured Base state, through FUSE, with a Git linked worktree per Workspace.
This directory holds TLA+ models of the parts of it that keep state, TLC runs
that check them on small instances, and TLAPS proofs about the engine, the
lifecycle of Workspaces, the mount, the daemon and `configure`.

Paths below are those of the repository: `core/` is `src/core/`, `ADR` is
`docs/adr/`.

## 1. The system

| Component | State | Operations | Hard behaviour |
|---|---|---|---|
| Workspace engine (`core/workspace_engine.cpp`) | upper tree on disk, tombstones in memory, listing cache, open handles | readdir, create, mkdir, symlink, write, truncate, chmod, utimens, unlink, rmdir, rename; open, read, write, close | every mutation is copy-up, journal, stage, flush, phase, rename(2), sync, metadata: a crash or an error may fall between any two; a handle keeps a path and a version |
| Metadata store (`core/metadata_store.cpp`) | SQLite tables `workspace`, `tombstone`, `recovery_operation`, `project` | transactions | the same change is made here with SQL and in memory with C++ |
| Recovery (`core/recovery.cpp`) | none of its own | settle every row, reclaim, validate | is itself interrupted; may refuse for good |
| Project manager (`core/project_manager.cpp`) | engines, reclaimer threads | configure, open, create, remove, reclaim, look an engine up | creation is a dozen steps in four places; reclamation runs beside new requests; configure is interrupted and run again |
| Git worktree (`core/git_worktree.cpp`) | branches and worktrees of the repository | add, redirect, unregister, roll back | undo after a partial failure |
| Daemon main, control server, client, command line (`daemon/`, `cli/`) | socket path, mount point, `running_` | start, stop, signals, unmounting, fs.* requests | no lock: two daemons know of each other only through socket and mount; requests change files behind the kernel |
| FUSE adapter (`fuse/`) | mount, `fh` numbers; the kernel caches entries and attributes for a minute | callbacks, invalidation | threads use an engine after its Workspace was removed; replies race invalidations |
| Capture policy, Base capture (`core/capture_policy.cpp`, `core/base_capture.cpp`) | none | compile, match, walk, explain | a matcher with memory; two walks that must agree |
| Protocol, Git index (`daemon/protocol.cpp`, `core/git_index.cpp`, `core/workspace_git_index.cpp`) | none | encode, decode | escapes, variable-length integers |
| paths, proc, sha1 | none | pure functions and helpers | |

Interaction. A FUSE thread or the control server looks an engine up in the
Project manager and calls it; the engine holds its own lock for the whole of a
mutation and writes rows through the shared store. After a control request that
changed files the control thread tells the kernel to drop what it cached.
Removal drops the engine, marks the record and leaves the rest to a reclaimer
thread. A starting daemon opens the store, runs recovery over every row,
validates the storage, builds the engines, mounts and then binds the socket. The
command line talks to the socket and looks at the mount. `configure` runs in the
command itself, before any daemon.

What makes each part correct:

* engine: callers see one tree on which a mutation is atomic, also across
  crashes; an acknowledged change survives; a removed Base entry stays removed;
  caches and copies agree with what they copy;
* recovery: an interrupted mutation is completed or undone, recovery may be
  interrupted itself, and it ends;
* lifecycle: what is served is complete, what was acknowledged is in effect,
  nothing leaks, nothing of the user's is deleted, removal is finished in the end;
* daemon: one daemon serves a Project at a time, a refused stop changes nothing,
  an accepted one ends;
* mount: what the kernel cached is current once a control request is answered,
  no acknowledged write is lost, every handle is closed;
* capture: a recorded Base state is the capture that was asked for, patterns mean
  what they say, `check-ignore` tells the truth;
* encodings: what is decoded is what was encoded.

## 2. The modules

| Module | Models |
|---|---|
| `VisibleTree` | paths as sequences of names, trees as functions on paths, which requests are admitted and what each does to a tree |
| `WorkspaceView` | the promise: one tree, one atomic step per mutation |
| `WorkspaceEngine` | one Workspace: engine, journal, tombstone table, disk with unsynced changes, recovery |
| `WorkspaceEngineProofs` | theorems about `WorkspaceEngine`: types, listing cache, tombstones in memory |
| `WorkspaceStorageProofs` | extends it: stages, tombstones, what they hide |
| `WorkspaceCrashProofs` | extends that: what callers are promised across errors, crashes and recovery |
| `WorkspaceRefinementProofs` | extends that: the engine implements `WorkspaceView` |
| `ProjectLifecycle` | the Workspaces of a Project: records, rows, storage, Git, engines, reclaimers, one FUSE request in flight, recovery and validation |
| `ProjectLifecycleProofs` | theorems about `ProjectLifecycle` |
| `DaemonLifetime` | daemon processes, mount thread, accept loop, `daemon start` and `stop`, signals, tools in the mount |
| `DaemonLifetimeProofs` | theorems about `DaemonLifetime` |
| `MountedView` | one Workspace name in the mount: handles, kernel cache, look-ups under way, control requests with their notices, the engine replaced by another |
| `MountedViewProofs` | theorems about `MountedView` |
| `CapturePolicy` | the policy language byte by byte: validation, parsing, the matcher, and what a glob means |
| `ProjectTree` | the Project as the capture sees it: paths, kinds, what can be captured |
| `BaseCapture` | the walk of the capture over a tree, and the explanation of `check-ignore` |
| `ProjectConfigure` | `configure`, with errors, crashes and further runs |
| `ProjectConfigureProofs` | theorems about `ProjectConfigure` |
| `Encodings` | messages of the control protocol, path lengths of the Git index |
| `MCWorkspaceEngine`, `MCProjectLifecycle`, `MCCapture` | instances for TLC; `MCCapture` also enumerates the inputs of the pure algorithms and holds their reference definitions |

`BaseCapture` extends `CapturePolicy` and `ProjectTree`, `ProjectConfigure`
extends `ProjectTree`; `MCCapture` composes them, and `Encodings` with them.
`WorkspaceEngine` instantiates `WorkspaceView`. Names follow the code: an action
carries the name of the function, or of the call, it models, and `PROJECT.json`
maps every definition to its lines.

`WorkspaceEngine`. `upper`, `stage` and `disk` are the upper tree, the recovery
directory and what of both would survive a power loss; `tombDB` and `tombMem`
are the tombstone table and `tombstones_`; `journal` is `recovery_operation`;
`cache` is the listing cache. `BeginMutation` is the check under the lock, then
`pc` walks through `create_missing_upper_parent_directories` and
`sync_copied_directory` for each parent directory to be made,
`begin_recovery_operation`, `prepare_stage`, `flush_stage`,
`set_recovery_operation_phase`, `publish_staged_operation`, `sync_destination`,
`remove_upper_source`, `sync_source`, `finish_recovery_operation`, with
`discard_stage` and `abandon_recovery_operation` on the error path.
Content and mode are one value; files and symlinks are one kind of leaf. Times are
left out: a copied-up directory loses its own and other copies keep whole seconds of
them, so a failed mutation may change the times of a parent; `utimens` leaves the
value as it is. A umask that takes no bits of a copied directory is assumed.
`discard_stage` may fail and its row is deleted all the same; `left` remembers the
stages that stay, until the next start removes them or refuses to serve
(`recovery.cpp:333-336`). `durable` says whether, when the last mutation began,
every directory was synced, which a failed `sync_parent_directory` of an earlier
mutation prevents, since later ones pass over what is there.
`FoldCase` is the ASCII lower case of a name, because SQLite's LIKE ignores case.
`rename(2)` and the recursive removals are external and fail as POSIX says.

`ProjectLifecycle`. `record`, `rows` and `tombs` are the store; `dirs` and
`files` the storage; `branches` and `worktrees` the repository; `ctl`, `fuse`
and `reclaimers` the threads. A file mutation is cut down to journal, stage,
publish, finish, since only its meeting with removal and recovery matters here.
A failed creation is undone by `rollback_worktree`, `rollback_branch`,
`undo_storage`, `undo_state` and `undo_row`; each may fail while serving, which the
code ignores and goes on to the next. A `git worktree add -b` that fails may have
made its branch.

`DaemonLifetime`. `pc` is where `main` is, `thread` its mount thread, `mounts`
the stack of mounts on the mount point, `socket` the daemon the socket path
names. It models the Linux build, where a busy mount cannot be removed. Time is
left out: a wait may give up at any time, except the two named by `Slow`. The
check at a daemon's start and the last wait of `daemon stop` look at `.tribios/mnt`,
everything else at the mount point of the Project record; `DefaultMount` says
whether that is the same.

`MountedView`. `handles` and `nextHandle` are `handles_` and `next_handle_`;
`opens` are the open files of the tools with the `fh` they were given; `cache` is
what the kernel holds of each name (no entry, an entry without attributes, or the
inode in its attributes); `lookup` is a reply under way, `ctl` the request of the
control thread. The callbacks `tri_*` are actions, and so are the steps of a
control request: reading inodes, the mutation, the notice for attributes, the
dropping of the entry under the parent directory's lock. For a removed Workspace
the name that is dropped is in the view root (`drop_workspace_entry`): nobody inside
holds that lock, open files keep their entry and a look-up under way brings one
later. Each engine call is one step, because the engine's lock makes it one; it may
fail before its change, or after it, with EIO to the tool and no word to the kernel
(`RenameFails`, `UnlinkFails`; `HalfMove` and `HalfRemove` are what it leaves). An
inode stands for one version of a file and the set of writes it holds. libfuse and the kernel are external: the
comment of the module says what is assumed of them.

`CapturePolicy`, `BaseCapture`, `Encodings` work on the bytes the code works on.
`match_capture_glob` carries the table of failed positions through every call,
as the code does; `Means` says what a glob means, without it. A tree gives each
path of a small universe a kind (`file`, `dir`, `link`, `special`, `mount`, or
`unreadable` where lstat fails).

`ProjectConfigure`. `base` is `.tribios/base`, `db` the database, `run` where the
command is, `want` what the last capture was to capture. `remove_all` removes one
leaf or the database per step, in any order; `capture_entry` writes one entry,
`skip_entry` passes one over whose lstat fails, with all beneath it (`skipped`).
The policy language and the walk are parameters, `Compile` and `Walk`, so that
proofs about the command do not depend on them; the run gives them `compile` of
`CapturePolicy` and `walk_project` of `BaseCapture`, and TLC evaluates
`WalkAssumption` (the walk captures only files, directories and links) for them.

## 3. The runs

Deadlock is not checked: operations, errors and crashes are bounded, so every
model may stop.

| Run | Result | What it shows |
|---|---|---|
| `engine_crash` | pass | three mutations of any kind on any path, an error at any of 13 points or in recovery, a crash or power loss: `TypeOK`, `TombstonesAgree`, `CachedListingsCurrent`, `NoStagedLeftovers`, `TombstonesNameBase`, `AcknowledgedSurvives`, `RecoveredOldOrNew`, `ErrorKeepsOldState`, `LateErrorCompletes`, `ViewIsTree`, `NoResurrection` |
| `engine_refines` | pass | two crashes, recovery interrupted by a crash or an error: the engine implements `WorkspaceView` and recovery completes |
| `lifecycle` | pass | four journalled operations on one name, two errors at any of 17 points, five of them in the undo of a creation, two crashes: `TypeOK`, `ServedIsComplete`, `AcknowledgedIsServed`, `KeptBranchesSurvive`, `NothingLeaks`, `FreshWorkspaceShowsBase`, `EventuallyServed`, `RemovedIsReclaimed`, `OpeningCompletesRemovals` |
| `daemon_lifetime` | pass | three daemons, one signal, startup error or death, one tool in the mount, one removal, for a Project on the default mount point: `TypeOK`, `OneServer`, `RefusedStopKeepsServing`, `StoppedIsGone`, `ToldToStopEnds` |
| `mounted_view` | pass | two names, tools with open files, a control request, the Workspace replaced, a call that fails late or a backing file that cannot be opened: `TypeOK`, `EntriesCurrent`, `AttrsCurrent`, `NoLostWrite`, `ReadsOwnLastWrite`, `HandlesOwned` |
| `capture` | pass | three runs of `configure` with two errors or skipped entries, a crash and edits in between: `TypeOK`, `ConfiguredBaseIsCapture`, `BadPolicyKeepsBase`; all policy texts of up to three more bytes than six beginnings, all strings of up to four of the bytes that matter: `MatchesReference`, `Utf8Reference`, `RoundTrips`, `ExplainAgrees` |
| `engine_resurrects` | violation | rename onto an emptied Base directory shows its removed entries again |
| `engine_refuses` | violation | a crash in chmod of a non-empty directory, which stages a copy of it with everything beneath it, makes every recovery refuse |
| `engine_replay` | violation | the row of an unlink that reported an error is replayed over a write acknowledged since |
| `engine_case` | violation | LIKE drops the tombstones of a path that differs in case |
| `lifecycle_branch` | violation | rolling back a creation deletes a branch that existed before |
| `lifecycle_stuck` | violation | a write that outlives its Workspace makes every later recovery refuse |

A violation run states what a document, a comment or a test of the repository
says; `PROJECT.json` quotes it under "findings".

### What the passing properties set aside

A property that the code breaks in one known way is stated for everything else.
The case is named in the property, by a history variable or by the fault that
leads to it, or it is left out of the requests of the run:

* no rename onto `d`, which holds the removable Base entry, and no two names that
  differ only in case (`engine_resurrects`, `engine_case`); `engine_refines`
  takes no chmod of a directory that may have entries (`engine_refuses`);
* `clean`: a row of an earlier mutation that reported a late error is pending
  (`engine_replay`); `durable`: a directory that an earlier mutation made and failed
  to sync is there, which a power loss takes away with whatever was acknowledged in
  it; `left`: a stage whose own removal failed; `"torn"`: a crash between discarding the stage of a
  publication that failed and deleting its row, after which recovery takes the
  operation for published and removes the source. The engine loses power only at
  its first crash: with a power loss after a recovery from a crash of the daemon
  alone, a removed source comes back, because recovery does not sync a directory
  it finds changed already: `PowerLosses = {2}` with two crashes breaks
  `RecoveredOldOrNew`, `LateErrorCompletes` and `ViewIsTree`. There is one storage
  error: with two, a rename that fails and then a row that cannot be deleted,
  recovery takes the abandoned mutation for a published one and
  `ErrorKeepsOldState` fails. Without an error in `abandon_recovery_operation`
  all hold for any number of errors and crashes of the process, and for a power
  loss at the first crash if no error is reported after the publication and no
  sync of a new parent directory fails (section 4);
* `late` in the lifecycle: a request that looked its engine up before the removal
  (`lifecycle_stuck`); `Sound(S)`: no error so far at the named points, namely
  `add`, `redirect` and `index` for `NothingLeaks` (a failed registration is not
  undone, so the branch `git worktree add -b` made stays, or the registration with
  it) and `undo_git`, `undo_branch`, `undo_storage` (the undo that was to take it
  away failed); `storage` and `undo_row` for `KeptBranchesSurvive` (a row stays, and
  its rollback deletes a branch of that name made since); for the liveness
  properties `storage`, `undo_state` and `undo_row`, after which validation may
  refuse a record still Creating or an old row name what another Workspace uses,
  and `sync` where a row left by a late error matters; `reclaim` for
  `RemovedIsReclaimed`.
  Workspaces are created on new branches (`lifecycle_branch`);
* `stray` in `MountedView`: a write through a handle whose path names another file
  since; `unseen`: a name changed without the kernel learning of it, by such a
  write, by a call that fails after its change (EIO: the kernel keeps the old
  attributes for up to a minute), or while the first look-up of the name is under
  way, when libfuse does not know it yet; `blind`: a name removed without the kernel
  learning of it: one that appeared between the control thread's look at it and its
  mutation, one that was open or being looked up when its Workspace was removed,
  one whose unlink or rename failed after its change; `foreign`: a handle number from an earlier engine of the name
  that met a handle of this one, since both count from 1. All are reachable;
* `skipped` in `ProjectConfigure`: an entry whose lstat fails is missing from the
  Base state, with all beneath it, and `configure` reports success; `ExplainAgrees`
  speaks of trees whose entries can be looked at, because `check-ignore` calls such
  an entry captured; `leftover`: a capture over remains, without `--force`
  after an interrupted run, or with it after a removal that failed unseen or was
  cut off. The Project itself changes only between runs;
* `daemon_lifetime` has the Project on `.tribios/mnt`. After `configure --mount`
  (`DefaultMount = FALSE`) the four daemon properties, without their antecedent,
  fail: `OneServer` after ten states (daemon 1 is on its exit path, its mount is not
  seen, daemon 2 opens the Project), `StoppedIsGone` after twenty (`daemon stop`
  does not wait for the mount thread of the daemon it stopped). What is left of the
  properties then, that nobody listens after a stop, holds;
* `daemon_lifetime` starts daemons that mount (`Modes`), and its two startup waits
  are long enough (`Slow` is empty). With `--no-mount`, or with a recovery longer
  than the 15 seconds or a mount later than the 10 seconds the code waits,
  `OneServer` fails: nothing but the mount and an answering socket keeps a second
  daemon away. `OneServer` does not count reclaimers, which run on after the
  socket is closed.

### Bounds

* Engine: a Base directory `d` with a file and room for a second directory and
  file, enough for copy-up, for a tombstone with an entry beneath it, for a rename
  of a file and of a directory, onto something and onto nothing. Three mutations
  let an entry be removed, made again and moved. One crash interrupts a mutation,
  two interrupt the recovery as well. `engine_crash` has 1.4 million states.
* Lifecycle: five operations are create, a file mutation, remove, create again and
  one more. One name suffices for everything that concerns one Workspace; two
  names, which can compete for a branch, were checked with three operations and
  two crashes and with four operations and one crash. `lifecycle` has 0.74
  million states.
* Daemon: one that is ending, its successor, and the one started when the
  successor can no longer be reached. Also passes with `MaxIncidents = 2`, in about
  four minutes.
* Mount: two names so that a rename has a target, one in the Base state and one
  not; four backing inodes, so three publications; two engines of the name.
  2.9 million states. Also passes with two open files per engine (2.0 million
  states without a failing open, 7.0 million with one).
* Capture: a universe of ten paths, three levels deep, with a link, a special file,
  a mount and the metadata directories at their places; four trees, four policies,
  one of them malformed. Policy texts grow from beginnings that hold the cases
  three bytes do not reach: `**/`, an open class, several stars, a second line.
  The integer of the Git index is 16 bits wide, so that four bytes overflow it.

### Fairness

A mutation runs on its caller's thread and recovery on the main thread; neither
waits for anything but the disk, hence weak fairness on their steps. `Restart` is
fair because the properties speak of a daemon that is started again. Reclaimers
and FUSE threads are threads of the daemon. In `DaemonLifetime` every thread and
running command is fair, and a tool that holds the mount leaves it: the code
retries for as long as it takes and cannot do more (ADR 0011). No command,
signal, removal or death is ever assumed to happen. `MountedView` and
`ProjectConfigure` state safety only.

Every property has a mutant, the change of a mapped definition a plausible bug
would make (named `Mut...` in the module), under which TLC reports the property
violated in the same run.

## 4. The proofs

Each theorem holds for every set of names and paths, every Base state, every set
of requests and fault points and all bounds, under the assumptions the modules
state (paths are finite sequences closed under prefixes, the Base state is a
tree, requests are well formed, bounds are natural numbers; TLC evaluates them in
the runs) and under the condition named with it, if there is one. Each
condition excludes a case in which TLC finds one of the properties violated, but
for those named under "Only model-checked".

### Engine: `WorkspaceEngineProofs`

* `Invariance`: `Spec => []IInv`, `IInv == TypeOK /\ OperationInv /\ CacheInv`;
* `TypeCorrect`: `TypeOK`; `CacheCoherence`: `CachedListingsCurrent`;
* `TombstoneAgreement`: `TombstonesAgree`, if no two names differ only in case
  (`CaseDistinct`). Without it `engine_case` is the counterexample.

Why the strengthening. Listings are forgotten when an operation is journalled,
and the tree changes steps later, so `CachedListingsCurrent` is not inductive.
`CacheInv` adds that from the journal row to the reply nothing is cached that
the operation may affect (`Forgotten`), and that nothing is cached while the
daemon is down or recovering. `OperationInv` keeps the shape of the operation
under way: its identifier, which kinds have a target or tombstone effects, that
the root is neither removed nor renamed. The core lemmas say which listings a
change of the upper tree or of the tombstones beneath a path can alter
(`Affected`), and then each action either changes nothing visible or only what
is forgotten. `TombstoneAgreement` needs `SameEffect`: LIKE and the prefix
comparison choose the same tombstones when `FoldCase` is injective.

### Engine: `WorkspaceStorageProofs`

With any pattern of errors, crashes and power losses:

* `StagesReclaimed`: `NoStagedLeftovers`, which sets aside the stages whose own
  removal failed since the daemon started, and no others: what the next start
  serves has none; `TombstonesOfBase`: `TombstonesNameBase`;
* `NothingResurrected`: `NoResurrection`, if names are `CaseDistinct` and no rename
  goes onto a path with Base entries beneath it (`BareTargets`; otherwise see
  `engine_resurrects`).

A stage is discarded until its root is gone; that nothing is left then needs its
shape all along (`StageInv` with `Hanging`: whatever is staged has everything
between it and the destination staged too). `TombInv` says of the journal's rows
what the property says of the table. Dropping the tombstones beneath the target
of a rename uncovers nothing because the target is in the upper tree by then
(`PresentInv`), has no Base entry beneath it (`TargetInv`) and does not go away
with the source (`RenameInv`).

### Engine: `WorkspaceCrashProofs`

With any number of storage errors, crashes of the process, errors of recovery and
crashes during recovery, under `Ordinary`: `CaseDistinct`, `BareTargets`, not both
`"discard"` and `"abandon"` among the fault points (an abandoned operation leaves its
stage or its row behind, not both), and either no crash is a power loss, or only the
first may be one, no error is reported once the staged entry is published, and no
sync of a parent directory that was just made fails:

* `ViewsAreTrees`: `ViewIsTree`; `AcknowledgedKept`: `AcknowledgedSurvives`;
  `RecoveryIsAtomic`: `RecoveredOldOrNew`; `LateErrorsComplete`:
  `LateErrorCompletes`;
* `ErrorsChangeNothing`: `ErrorKeepsOldState`, if `"abandon"` is no fault point.

The promises speak of quiet states, and of the last mutation; the invariant `CInv`
says what holds in between, in eight parts that the head of the module lists. The
argument: when a row enters phase `publishing`, settling it would give exactly
what the mutation asked for (`SettledApplies`, over all ten kinds of mutation:
the tree of the staged entry laid over the upper tree, less the source, under the
tombstones to come, is `Applied` of what callers see). From there on every step,
of the engine or of recovery, keeps what settling gives (`SettledPublished` for
the rename, `SettledLess` for each removal), and the last one makes it visible
(`FinishSettles`). Before that, callers see the old tree: copying ancestors up
changes nothing visible (`CopyUpEffect`). `TreeInv` is needed throughout (that
only the entry itself is left to remove, that nothing shows beneath a removed
entry), and is itself kept because what is staged has nothing beneath its leaves
(`BareInv`). A stage that could not be discarded has lost its row or is losing it
(`LeftInv`).

A power loss brings back what was last synced (`disk`). `DiskInv`, which holds
until the first crash, says how that differs from what is in use: the upper tree
by the parent directory just made until it is synced, not at all from then to the
publication, by the staged entry between its rename and the
sync of its directory, by the entries of the source between their removal and
that sync (`DiskUpper`); a stage not at all once it was flushed (`DiskStage`), and
it is gone from disk when the sync of the directory has moved it in, which needs
`DiskNumbers`: the sync tells the entry by its inode from the one it replaced.
The synced trees also have the shapes recovery needs (`DiskTree`, `DiskBare`,
`DiskHang`). Settling the row therefore gives the same tree with or without the loss (`LossSettles`), and where no row is published nothing is lost
(`LossUnpublished`); after that, the crash is like any other. `DiskInv` does not
hold after an error reported late, or one of the sync of a new parent directory,
because later mutations then build on an entry that is not synced. Nor does it hold of recovery, where a loss breaks the results
(section 3).

### Engine: `WorkspaceRefinementProofs`

* `EngineImplementsView`: `Spec => ImplementsView`, under `Unrefused`: `Ordinary`,
  storage errors up to the change of phase, of the sync of a new parent directory
  and of the removal of a stage excepted, while rolling back and in recovery (not of
  the rename itself and after it), and no chmod or utimens of the root or
  of a path with paths beneath it. With an error at any of the other points, or
  with such a chmod, TLC finds the refinement violated. A power loss at the first
  crash is included, as in `engine_refines`.

The refinement mapping shows what recovery would make of the row that is decided,
or else the layers as they are (`SettledView`). `ShownInv` says that this is the
old state until the mutation takes effect and the new one from then on, and
follows from `CInv` and `SettledInv` (`ShownIs`): no error leaves a row behind
that recovery would publish, and what is rolled back was never published. The
latter needs that a rename whose row says `publishing` cannot be refused
(`PublishAllowed`: its destination has a directory to go to and nothing in its
way, for each kind of mutation, because of what the checks before it found). A
power loss takes nothing away that was shown, because nothing is lost before the
publication (`UnpublishedKept`) and what settling gives is kept after it. Each
step is then a stutter or, at the rename, at the end of a removal and at a crash
between the change of phase and these, a mutation the abstract Workspace admits
(`TakesEffect`, `ViewStep`).

### Lifecycle: `ProjectLifecycleProofs`

* `TypeCorrect`: `TypeOK`; `ServedComplete`: `ServedIsComplete`;
  `AcknowledgedServed`: `AcknowledgedIsServed`; `NothingLeaked`: `NothingLeaks`;
  `FreshShowsBase`: `FreshWorkspaceShowsBase`; `RemovalsCompleted`:
  `OpeningCompletesRemovals`;
* `BranchesSurvive`: `KeptBranchesSurvive`, if callers name new branches
  (`~ReuseBranches`; otherwise see `lifecycle_branch`).

All need to know which thread may be where (`OperandInv`, `ModeInv`), that the
step of a thread has a row of its own (`RowInv`) and that a state that is not
final has the row that settles it (`StateInv`, `PendingInv`). `CompleteInv`
follows a creation through what each step has made; `WorktreeInv`, `BranchInv`
and `StorageInv` say that whatever exists for a Workspace that is not Active has
a row, or a thread, that will remove it. An error of a step of the undo is covered
throughout: it leaves the row to recovery, or it is one of the errors the property
sets aside (`LeavingFaults`, `"undo_row"`), for which the invariants have exceptions
of their own.

### Mount: `MountedViewProofs`

* `TypeCorrect`: `TypeOK`; `HandlesAreOwned`: `HandlesOwned`; `OwnWritesRead`:
  `ReadsOwnLastWrite`; `NoWriteIsLost`: `NoLostWrite`; `NoStaleEntry`:
  `EntriesCurrent`; `NoStaleAttributes`: `AttrsCurrent`.

The two cache properties speak of the states between control requests. Inside
one, a stale entry is one the request is about to drop (`EntryInv`, `Dropping`),
stale attributes are about to be forgotten (`AttrInv`, `Refreshing`), and a
look-up under way brings nothing staler, but for the names in `blind` and `unseen`,
each of which some step of the code removed or changed without telling the kernel. That writes are not lost needs that a
version is under one name only (`FileInv`), that a file reads its own writes needs
that no two open files share a handle number (`OwnerInv`).

### Daemon: `DaemonLifetimeProofs`

* `TypeCorrect`: `TypeOK`, for all modes and timeouts;
* `OneDaemonServes`: `OneServer`, `RefusedStopsAreHarmless`:
  `RefusedStopKeepsServing`, `StopsAreComplete`: `StoppedIsGone`, if the Project is on
  the default mount point, daemons mount and the two startup waits are long enough
  (`Usual`).

Three facts carry them: while a daemon starts, nobody can be reached, so only one
starts at a time (`StartInv`); there is at most one mount, and a daemon past its
check finds only its own or a dead one (`MountInv`); a daemon in its accept loop
loses the socket path only to one that has exited (`SocketInv`), so the mount it
takes away is its own (`OwnInv`).

### Configure: `ProjectConfigureProofs`

For every Project and policy text, any number of runs, errors and crashes, and
every policy language and walk that satisfy `WalkAssumption`:

* `TypeCorrect`: `TypeOK`; `RecordedIsCaptured`: `ConfiguredBaseIsCapture`;
* `PolicyIsReadFirst`: `BadPolicyKeepsBase`.

That a recorded Base state is the capture asked for is decided long before it is
recorded. `CapturedInv` follows the capture: what is still to do is absent from
`base`, everything else is as wanted, but for what was skipped, and there is no
record meanwhile.
`UnrecordedInv` is why a run without `--force` does not find one to keep: it goes
on only if the Project has none. `ValidInv` says that nothing but the reading
itself happens under a malformed policy.

### Only model-checked

* A power loss together with an error reported after the publication, for the
  invariants of `WorkspaceCrashProofs`: `engine_crash` checks them. They also hold
  with two mutations, two crashes and two errors, none in
  `abandon_recovery_operation`.
* Liveness (`RecoveryCompletes`, `EventuallyServed`, `RemovedIsReclaimed`,
  `ToldToStopEnds`): the prover has no rules for fairness.
* What the algorithms of `CapturePolicy`, `BaseCapture` and `Encodings` compute:
  that takes induction over their inputs, which the provers cannot do.
  They are written with RECURSIVE operators, which no module with a theorem may
  use; `MatchesReference`, `Utf8Reference`, `RoundTrips` and `ExplainAgrees`, which
  compare them with their reference definitions, stay with TLC.

## 5. What is not modelled

* Directory handles: `opendir` takes a snapshot that `readdir` reads out.
* `fsync` of a handle: a mutation is durable when it is acknowledged, so it
  adds nothing to what the models keep. Reads of the control protocol, `statfs`,
  extended attributes, links and locks, which change nothing or are refused.
* The contents of the Git index of a Workspace, SHA-1, inode salting, schema
  versions, the sending of messages in pieces.
* The macOS build, which forces the unmount.
* `git switch` or `git worktree prune` by the user, and `tribios info`, which
  opens the Project when no daemon answers.
* `configure --force` beside a running daemon, which the code does not check for.
* Reclaimers of a stopping daemon beside the recovery of the next one: the
  lifecycle model has one daemon at a time.

## 6. Plan

Done: the engine with its refinement, the lifecycle, the daemon's life, the mount
with handles and kernel caches, capture and configure, the encodings; proofs of
every safety property of the engine, the lifecycle, the mount, the daemon and
`configure`, and of the refinement, with a power loss at the first crash.
Next, in this order:

1. `DaemonLifetime` with reclaimers that touch the storage of `ProjectLifecycle`,
   `tribios info`, and `git switch` in `ProjectLifecycle`.
2. Proofs: the invariants of `WorkspaceCrashProofs` for a power loss after an error
   reported late, with a `DiskInv` that allows several unsynced entries.
