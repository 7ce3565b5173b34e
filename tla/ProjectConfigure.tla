-------------------------- MODULE ProjectConfigure --------------------------
(***************************************************************************)
(* `tribios configure`: the capture policy is read, the Base state is      *)
(* captured entry by entry, the Git index of the Base state is written and *)
(* the Project is recorded.  A crash may end it at any step and the user   *)
(* may then run it again, with or without --force, after the Project       *)
(* changed.  Contents of files are left out: an entry is its kind.         *)
(***************************************************************************)
EXTENDS ProjectTree

CONSTANTS Compile(_), \* compile of CapturePolicy: the patterns of a policy text
          Walk(_, _), \* walk_project of BaseCapture: what a policy captures of a tree
          Trees,     \* the Projects considered, with a policy file or without
          Sources,   \* the texts of the policy file considered
          MaxRuns,   \* bound: how often configure is run
          MaxFaults, \* bound: errors
          MaxCrashes \* bound: crashes

ASSUME ConfigureAssumption ==
    /\ Trees \subseteq [Universe -> {"none", "file", "dir", "link", "special", "mount", "unreadable"}]
    /\ {MaxRuns, MaxFaults, MaxCrashes} \subseteq Nat

(* What the walk captures of a tree it could capture.                        *)
Policies == {<<>>} \cup {Compile(text).patterns : text \in Sources}
ASSUME WalkAssumption ==
    \A t \in Trees : \A patterns \in Policies :
        Walk(t, patterns).captured \subseteq {path \in Universe : Capturable(t, path)}

VARIABLES tree,    \* the Project
          source,  \* the text of its policy file, if it has one
          base,    \* .tribios/base
          db,      \* meta.db: "none", "open" once it exists, "saved" with the Project's record
          run,     \* the configure in progress: where it is and what it has to do
          used,    \* how often each bounded event happened
          want,    \* what the last capture was to capture
          skipped, \* the entries of it that were passed over
          leftover \* .tribios holds the remains of an earlier one

vars == <<tree, source, base, db, run, used, want, skipped, leftover>>
Nothing == [path \in Universe |-> "none"]
Idle == [pc |-> "idle", force |-> FALSE, patterns |-> <<>>, todo |-> {}]
Steps == {"load", "remove", "capture", "database", "record", "flush"}

Init ==
    /\ tree \in Trees /\ source \in Sources
    /\ base = Nothing /\ db = "none" /\ run = Idle
    /\ used = [runs |-> 0, faults |-> 0, crashes |-> 0]
    /\ want = Nothing /\ skipped = {} /\ leftover = FALSE

(* What the last capture has captured when it is done.                       *)
Captured == [path \in Universe |-> IF path \in skipped THEN "none" ELSE want[path]]

Goto(pc) == run' = [run EXCEPT !.pc = pc]
Spend(what, max) == used[what] < max /\ used' = [used EXCEPT ![what] = @ + 1]

(* load_from_project: a Project without the file has an empty policy.        *)
load_from_project ==
    CASE tree[<<PolicyFile>>] = "none" -> [ok |-> TRUE, patterns |-> <<>>]
      [] tree[<<PolicyFile>>] = "file" -> Compile(source)
      [] OTHER -> [ok |-> FALSE, patterns |-> <<>>]

(* A configured Project is left alone unless --force is given.               *)
MutRemovesBeforeLoading(force) ==
    IF force THEN base' = Nothing /\ db' = "none" ELSE UNCHANGED <<base, db>>
Touches(force) == UNCHANGED <<base, db>>
configure(force) ==
    /\ run = Idle /\ Spend("runs", MaxRuns)
    /\ db = "none" \/ force
    /\ run' = [Idle EXCEPT !.pc = "load", !.force = force]
    /\ Touches(force)
    /\ UNCHANGED <<tree, source, want, skipped, leftover>>

load_policy ==
    /\ run.pc = "load"
    /\ run' = IF load_from_project.ok
                THEN [run EXCEPT !.pc = "remove", !.patterns = load_from_project.patterns]
                ELSE Idle
    /\ UNCHANGED <<tree, source, base, db, used, want, skipped, leftover>>

(* With --force .tribios is removed, entry by entry in any order.            *)
remove_all ==
    /\ run.pc = "remove" /\ run.force
    /\ \/ /\ \E path \in Universe :
               /\ base[path] # "none" /\ Children(base, path) = {}
               /\ base' = [base EXCEPT ![path] = "none"]
          /\ UNCHANGED db
       \/ db # "none" /\ db' = "none" /\ UNCHANGED base
    /\ UNCHANGED <<tree, source, run, used, want, skipped, leftover>>

(* The directories are made and probed, and the walk begins.  An error of    *)
(* the removal is not looked at.                                             *)
MutRemovesDatabaseOnly == db = "none"
Emptied == base = Nothing /\ db = "none"
prepare_storage ==
    LET begun == run.force => Emptied
    IN /\ run.pc = "remove"
       /\ IF begun THEN UNCHANGED used ELSE Spend("faults", MaxFaults)
       /\ run' = [run EXCEPT !.pc = "capture", !.todo = Walk(tree, run.patterns).captured]
       /\ want' = [path \in Universe |-> IF path \in run'.todo THEN tree[path] ELSE "none"]
       /\ leftover' = (~begun \/ (~run.force /\ base # Nothing)) /\ skipped' = {}
       /\ UNCHANGED <<tree, source, base, db>>

(* write_compiled_policy, then capture_directory, one entry: a directory may *)
(* be there already, a file is overwritten (through a link, if a link is     *)
(* there), a link must be new.                                               *)
CanWrite(path) ==
    base[path] = "none" \/ (base[path] = tree[path] /\ tree[path] # "link")
        \/ (tree[path] = "file" /\ base[path] = "link")
Reached(path) ==
    /\ path \in run.todo /\ \A a \in Ancestors(path) : a \notin run.todo
    /\ path = <<PolicyFile>> \/ <<PolicyFile>> \notin run.todo
capture_entry ==
    /\ run.pc = "capture"
    /\ \E path \in run.todo :
         /\ Reached(path)
         /\ IF CanWrite(path)
              THEN /\ base' = [base EXCEPT ![path] = IF @ = "link" THEN @ ELSE tree[path]]
                   /\ run' = [run EXCEPT !.todo = @ \ {path}]
              ELSE run' = Idle /\ UNCHANGED base
    /\ UNCHANGED <<tree, source, db, used, want, skipped, leftover>>

(* An error of lstat is no error of the command: the entry is passed over,   *)
(* with what is beneath it.  The policy file is not looked at again.         *)
skip_entry ==
    /\ run.pc = "capture" /\ Spend("faults", MaxFaults)
    /\ \E path \in run.todo :
         LET passed == {p \in run.todo : p = path \/ path \in Ancestors(p)} IN
         /\ Reached(path) /\ path # <<PolicyFile>>
         /\ run' = [run EXCEPT !.todo = @ \ passed]
         /\ skipped' = skipped \cup passed
    /\ UNCHANGED <<tree, source, base, db, want, leftover>>

(* sync_tree_durably and capture_base_git_index.                             *)
capture_base_git_index ==
    /\ run.pc = "capture" /\ run.todo = {} /\ Goto("database")
    /\ UNCHANGED <<tree, source, base, db, used, want, skipped, leftover>>

open_database ==
    /\ run.pc = "database" /\ db' = (IF db = "none" THEN "open" ELSE db) /\ Goto("record")
    /\ UNCHANGED <<tree, source, base, used, want, skipped, leftover>>

save_project_record ==
    /\ run.pc = "record" /\ db' = "saved" /\ Goto("flush")
    /\ UNCHANGED <<tree, source, base, used, want, skipped, leftover>>

sync_directories ==
    /\ run.pc = "flush" /\ run' = Idle
    /\ UNCHANGED <<tree, source, base, db, used, want, skipped, leftover>>

(* Any other error ends the command, except in the removal, and a crash ends *)
(* it anywhere.  verify_durable_backing_layout and sync_tree_durably, which  *)
(* change no entry of the Base state, have no other step.                    *)
Fails ==
    /\ run # Idle /\ run' = Idle
    /\ Spend("crashes", MaxCrashes) \/ (run.pc # "remove" /\ Spend("faults", MaxFaults))
    /\ leftover' = (leftover \/ (run.pc = "remove" /\ base # Captured))
    /\ UNCHANGED <<tree, source, base, db, want, skipped>>

(* The user changes the Project between two runs.                            *)
Edit ==
    /\ run = Idle /\ used.runs \in 1 .. MaxRuns - 1
    /\ tree' \in Trees /\ source' \in Sources
    /\ UNCHANGED <<base, db, run, used, want, skipped, leftover>>

Next ==
    \/ \E force \in BOOLEAN : configure(force)
    \/ load_policy \/ remove_all \/ prepare_storage \/ capture_entry \/ skip_entry \/ capture_base_git_index
    \/ open_database \/ save_project_record \/ sync_directories \/ Fails \/ Edit

Spec == Init /\ [][Next]_vars
-----------------------------------------------------------------------------
(* Every variable has its type, and nothing is captured that the Project     *)
(* could not give.                                                           *)
TypeOK ==
    /\ tree \in Trees /\ source \in Sources
    /\ base \in [Universe -> {"none", "file", "dir", "link"}]
    /\ db \in {"none", "open", "saved"}
    /\ run.pc \in {"idle"} \cup Steps /\ run.todo \subseteq Universe
    /\ used.runs <= MaxRuns /\ used.faults <= MaxFaults /\ used.crashes <= MaxCrashes

(* A recorded Project has exactly the Base state its capture was to make:    *)
(* whatever ended earlier runs, and whatever the Project was then, nothing   *)
(* is left over and nothing is missing but the entries that lstat failed for *)
(* and what was beneath them, whole (ProjectManager::configure,              *)
(* capture_directory).  Set aside, as leftover: a run without --force on the *)
(* remains of an interrupted one, which keeps entries the Project or its     *)
(* policy no longer has, and a removal that failed or was cut off before the *)
(* record was gone.                                                          *)
ConfiguredBaseIsCapture ==
    (db = "saved" /\ ~leftover /\ run.pc # "remove") => base = Captured

(* A configured Project loses its storage only in a run whose policy was     *)
(* valid (ADR 0007).                                                         *)
BadPolicyKeepsBase ==
    [][(db = "saved" /\ (db' # db \/ base' # base)) => load_from_project.ok]_vars
=============================================================================
