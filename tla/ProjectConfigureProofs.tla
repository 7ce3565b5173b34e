----------------------- MODULE ProjectConfigureProofs -----------------------
(***************************************************************************)
(* Theorems about ProjectConfigure, for every set of Projects and policy   *)
(* texts, any number of runs, errors and crashes, and whatever the walk    *)
(* and the policy language are, as long as the walk captures only what     *)
(* can be captured (WalkAssumption).                                       *)
(***************************************************************************)
EXTENDS ProjectConfigure, TLAPS

Kinds == {"none", "file", "dir", "link"}

(* The types of the records, and what a capture is about to write.           *)
TypeInv ==
    /\ TypeOK
    /\ run \in [pc : {"idle"} \cup Steps, force : BOOLEAN, patterns : Policies,
                todo : SUBSET Universe]
    /\ used \in [runs : Nat, faults : Nat, crashes : Nat]
    /\ want \in [Universe -> Kinds] /\ skipped \subseteq Universe /\ leftover \in BOOLEAN
    /\ run.pc = "capture" => \A path \in run.todo : Capturable(tree, path)

(* Where a run without --force is, before anything is written, there is no   *)
(* record: a Project that has one is left alone.                             *)
UnrecordedInv == (run.pc \in {"load", "remove"} /\ ~run.force) => db = "none"

(* A run that found nothing in its way has captured exactly what is no       *)
(* longer to do and was not passed over, and has not recorded the Project    *)
(* until all of it is done.                                                  *)
CapturedInv ==
    ~leftover =>
      /\ run.pc \in {"capture", "database"} => db = "none"
      /\ run.pc = "capture" =>
           \A path \in Universe :
              IF path \in run.todo
                THEN base[path] = "none" /\ want[path] = tree[path] /\ path \notin skipped
                ELSE base[path] = Captured[path]
      /\ run.pc \in {"database", "record", "flush"} => base = Captured
      /\ (run.pc \in {"idle", "load"} /\ db = "saved") => base = Captured

(* Past the reading of the policy a run goes on only with a valid one.       *)
ValidInv == run.pc \notin {"idle", "load"} => load_from_project.ok

Inv == TypeInv /\ UnrecordedInv /\ CapturedInv /\ ValidInv
-----------------------------------------------------------------------------
(* Before the first run there is nothing.                                    *)
LEMMA InitInv == Init => Inv
<1> SUFFICES ASSUME Init PROVE Inv
  OBVIOUS
<1> USE ConfigureAssumption DEF Init, Idle, Nothing, Steps
<1>1. TypeInv
  <2>1. run \in [pc : {"idle"} \cup Steps, force : BOOLEAN, patterns : Policies,
                todo : SUBSET Universe]
    BY DEF Policies
  <2>2. used \in [runs : Nat, faults : Nat, crashes : Nat] /\ TypeOK
    BY DEF TypeOK
  <2>3. QED
    BY <2>1, <2>2 DEF TypeInv, Kinds
<1>2. UnrecordedInv /\ CapturedInv /\ ValidInv
  BY DEF UnrecordedInv, CapturedInv, ValidInv
<1>3. QED
  BY <1>1, <1>2 DEF Inv

(* A bounded event is counted once and stays within its bound.               *)
Counted == used \in [runs : Nat, faults : Nat, crashes : Nat]
Bounded == used.runs <= MaxRuns /\ used.faults <= MaxFaults /\ used.crashes <= MaxCrashes
LEMMA Spending ==
    ASSUME Counted, Bounded,
           UNCHANGED used \/ Spend("runs", MaxRuns) \/ Spend("faults", MaxFaults)
             \/ Spend("crashes", MaxCrashes)
    PROVE  Counted' /\ Bounded'
<1>1. CASE UNCHANGED used
  BY <1>1 DEF Counted, Bounded
<1>2. CASE Spend("runs", MaxRuns)
  BY <1>2, ConfigureAssumption DEF Counted, Bounded, Spend
<1>3. CASE Spend("faults", MaxFaults)
  BY <1>3, ConfigureAssumption DEF Counted, Bounded, Spend
<1>4. CASE Spend("crashes", MaxCrashes)
  BY <1>4, ConfigureAssumption DEF Counted, Bounded, Spend
<1>5. QED
  BY <1>1, <1>2, <1>3, <1>4

(* Each step keeps the types; the walk gives only what can be captured.       *)
LEMMA TypeStep ==
    Inv /\ [Next]_vars => TypeInv'
<1> SUFFICES ASSUME Inv, [Next]_vars PROVE TypeInv'
  OBVIOUS
<1> USE ConfigureAssumption DEF Inv, TypeInv, TypeOK, Steps, Kinds
<1>1. CASE \E force \in BOOLEAN : configure(force)
  <2>1. <<>> \in Policies
    BY DEF Policies
  <2>2. Counted' /\ Bounded'
    BY <1>1, Spending DEF configure, Counted, Bounded
  <2>3. PICK force \in BOOLEAN : configure(force)
    BY <1>1
  <2>4. run' = [pc |-> "load", force |-> force, patterns |-> <<>>, todo |-> {}]
    BY <2>3 DEF configure, Idle
  <2>5. QED
    BY <2>1, <2>2, <2>3, <2>4 DEF configure, Touches, Counted, Bounded
<1>2. CASE load_policy
  <2>1. load_from_project.ok => load_from_project.patterns \in Policies
    BY DEF load_from_project, Policies
  <2>2. <<>> \in Policies
    BY DEF Policies
  <2>3. QED
    BY <1>2, <2>1, <2>2 DEF load_policy, Idle
<1>3. CASE remove_all
  BY <1>3 DEF remove_all, Capturable
<1>4. CASE prepare_storage
  <2>1. Walk(tree, run.patterns).captured \subseteq {path \in Universe : Capturable(tree, path)}
    BY WalkAssumption
  <2>2. \A path \in Universe : Capturable(tree, path) => tree[path] \in Kinds
    BY DEF Capturable
  <2>3. Counted' /\ Bounded'
    BY <1>4, Spending DEF prepare_storage, Counted, Bounded
  <2>4. base \in [Universe -> Kinds] /\ UNCHANGED <<tree, source, base, db>>
    BY <1>4 DEF prepare_storage
  <2>5. run' = [run EXCEPT !.pc = "capture", !.todo = Walk(tree, run.patterns).captured]
    BY <1>4 DEF prepare_storage
  <2>6. run' \in [pc : {"idle"} \cup Steps, force : BOOLEAN, patterns : Policies,
                todo : SUBSET Universe]
           /\ run'.todo = Walk(tree, run.patterns).captured
    BY <2>1, <2>5
  <2>7. want' \in [Universe -> Kinds] /\ skipped' \subseteq Universe /\ leftover' \in BOOLEAN
    BY <1>4, <2>1, <2>2, <2>6 DEF prepare_storage
  <2>8. \A path \in run'.todo : Capturable(tree', path)
    BY <2>1, <2>4, <2>6 DEF Capturable
  <2>9. QED
    BY <2>3, <2>4, <2>6, <2>7, <2>8 DEF Counted, Bounded
<1>5. CASE capture_entry
  <2>1. \A path \in run.todo : tree[path] \in Kinds /\ path \in Universe
    BY <1>5 DEF capture_entry, Capturable
  <2>2. <<>> \in Policies
    BY DEF Policies
  <2>3. PICK path \in run.todo :
           IF CanWrite(path)
             THEN /\ base' = [base EXCEPT ![path] = IF @ = "link" THEN @ ELSE tree[path]]
                  /\ run' = [run EXCEPT !.todo = @ \ {path}]
             ELSE run' = Idle /\ UNCHANGED base
    BY <1>5 DEF capture_entry
  <2>4. UNCHANGED <<tree, source, db, used, want, skipped, leftover>>
    BY <1>5 DEF capture_entry
  <2>5. base' \in [Universe -> Kinds]
    BY <2>1, <2>3
  <2>6. CASE CanWrite(path)
    <3>1. run' = [run EXCEPT !.todo = run.todo \ {path}]
      BY <2>3, <2>6
    <3>2. run' \in [pc : {"idle"} \cup Steps, force : BOOLEAN, patterns : Policies,
                    todo : SUBSET Universe] /\ run'.todo \subseteq run.todo /\ run.pc = "capture"
      BY <1>5, <3>1 DEF capture_entry
    <3>3. QED
      BY <2>4, <2>5, <3>2 DEF Capturable
  <2>7. CASE ~CanWrite(path)
    <3>1. run' = Idle
      BY <2>3, <2>7
    <3>2. run' \in [pc : {"idle"} \cup Steps, force : BOOLEAN, patterns : Policies,
                    todo : SUBSET Universe] /\ run'.pc = "idle" /\ run'.todo = {}
      BY <2>2, <3>1 DEF Idle
    <3>3. QED
      BY <2>4, <2>5, <3>2
  <2>8. QED
    BY <2>6, <2>7
<1>6. CASE capture_base_git_index
  BY <1>6 DEF capture_base_git_index, Goto, Capturable
<1>7. CASE open_database
  BY <1>7 DEF open_database, Goto, Capturable
<1>8. CASE save_project_record
  BY <1>8 DEF save_project_record, Goto, Capturable
<1>9. CASE sync_directories
  <2>1. <<>> \in Policies
    BY DEF Policies
  <2>2. QED
    BY <1>9, <2>1 DEF sync_directories, Idle
<1>10. CASE Fails
  <2>1. <<>> \in Policies
    BY DEF Policies
  <2>2. Counted' /\ Bounded'
    BY <1>10, Spending DEF Fails, Counted, Bounded
  <2>3. QED
    BY <1>10, <2>1, <2>2 DEF Fails, Idle, Counted, Bounded
<1>11. CASE Edit
  <2>1. <<>> \in Policies
    BY DEF Policies
  <2>2. QED
    BY <1>11, <2>1 DEF Edit, Idle
<1>12. CASE UNCHANGED vars
  BY <1>12 DEF vars, Capturable
<1>13. CASE skip_entry
  <2>1. PICK path \in run.todo :
           /\ run' = [run EXCEPT !.todo = run.todo \ {p \in run.todo : p = path \/ path \in Ancestors(p)}]
           /\ skipped' = skipped \cup {p \in run.todo : p = path \/ path \in Ancestors(p)}
    BY <1>13 DEF skip_entry
  <2>2. Counted' /\ Bounded' /\ run.pc = "capture" /\ UNCHANGED <<tree, source, base, db, want, leftover>>
    BY <1>13, Spending DEF skip_entry, Counted, Bounded
  <2>3. run' \in [pc : {"idle"} \cup Steps, force : BOOLEAN, patterns : Policies,
                  todo : SUBSET Universe] /\ run'.todo \subseteq run.todo /\ skipped' \subseteq Universe
    BY <2>1, <2>2
  <2>4. QED
    BY <2>2, <2>3 DEF Counted, Bounded, Capturable
<1>14. QED
  BY <1>1, <1>2, <1>3, <1>4, <1>5, <1>6, <1>7, <1>8, <1>9, <1>10, <1>11, <1>12, <1>13 DEF Next

(* Without --force a run begins where there is no record and makes none      *)
(* before it captures.                                                       *)
LEMMA UnrecordedStep ==
    Inv /\ [Next]_vars => UnrecordedInv'
<1> SUFFICES ASSUME Inv, [Next]_vars PROVE UnrecordedInv'
  OBVIOUS
<1> USE ConfigureAssumption DEF Inv, TypeInv, TypeOK, Steps, Kinds
<1>1. CASE \E force \in BOOLEAN : configure(force)
  BY <1>1 DEF configure, Touches, Spend, Idle, UnrecordedInv
<1>2. CASE load_policy
  BY <1>2 DEF load_policy, Idle, UnrecordedInv
<1>3. CASE remove_all
  BY <1>3 DEF remove_all, UnrecordedInv
<1>4. CASE prepare_storage
  BY <1>4 DEF prepare_storage, Spend, Emptied, Nothing, UnrecordedInv
<1>5. CASE capture_entry
  BY <1>5 DEF capture_entry, CanWrite, Idle, UnrecordedInv
<1>6. CASE capture_base_git_index
  BY <1>6 DEF capture_base_git_index, Goto, UnrecordedInv
<1>7. CASE open_database
  BY <1>7 DEF open_database, Goto, UnrecordedInv
<1>8. CASE save_project_record
  BY <1>8 DEF save_project_record, Goto, UnrecordedInv
<1>9. CASE sync_directories
  BY <1>9 DEF sync_directories, Idle, UnrecordedInv
<1>10. CASE Fails
  BY <1>10 DEF Fails, Spend, Idle, UnrecordedInv
<1>11. CASE Edit
  BY <1>11 DEF Edit, Idle, UnrecordedInv
<1>12. CASE UNCHANGED vars
  BY <1>12 DEF vars, UnrecordedInv
<1>13. CASE skip_entry
  BY <1>13 DEF skip_entry, Spend, UnrecordedInv
<1>14. QED
  BY <1>1, <1>2, <1>3, <1>4, <1>5, <1>6, <1>7, <1>8, <1>9, <1>10, <1>11, <1>12, <1>13 DEF Next

(* Each entry moves from what is to do to what is captured.  A removal that  *)
(* leaves something behind, by an error or a crash, is counted as leftover.  *)
LEMMA CapturedStep ==
    Inv /\ [Next]_vars => CapturedInv'
<1> SUFFICES ASSUME Inv, [Next]_vars PROVE CapturedInv'
  OBVIOUS
<1> USE ConfigureAssumption DEF Inv, TypeInv, TypeOK, Steps, Kinds
<1>1. CASE \E force \in BOOLEAN : configure(force)
  BY <1>1 DEF configure, Touches, Spend, Idle, Captured, CapturedInv, UnrecordedInv
<1>2. CASE load_policy
  BY <1>2 DEF load_policy, Idle, Captured, CapturedInv, UnrecordedInv
<1>3. CASE remove_all
  BY <1>3 DEF remove_all, Captured, CapturedInv, UnrecordedInv
<1>4. CASE prepare_storage
  BY <1>4 DEF prepare_storage, Spend, Emptied, Nothing, Captured, CapturedInv, UnrecordedInv
<1>5. CASE capture_entry
  BY <1>5 DEF capture_entry, CanWrite, Idle, Captured, CapturedInv, UnrecordedInv
<1>6. CASE capture_base_git_index
  BY <1>6 DEF capture_base_git_index, Goto, Captured, CapturedInv, UnrecordedInv
<1>7. CASE open_database
  BY <1>7 DEF open_database, Goto, Captured, CapturedInv, UnrecordedInv
<1>8. CASE save_project_record
  BY <1>8 DEF save_project_record, Goto, Captured, CapturedInv, UnrecordedInv
<1>9. CASE sync_directories
  BY <1>9 DEF sync_directories, Idle, Captured, CapturedInv, UnrecordedInv
<1>10. CASE Fails
  BY <1>10 DEF Fails, Spend, Idle, Captured, CapturedInv, UnrecordedInv
<1>11. CASE Edit
  BY <1>11 DEF Edit, Idle, Captured, CapturedInv, UnrecordedInv
<1>12. CASE UNCHANGED vars
  BY <1>12 DEF vars, Captured, CapturedInv, UnrecordedInv
<1>13. CASE skip_entry
  BY <1>13 DEF skip_entry, Spend, Captured, CapturedInv, UnrecordedInv
<1>14. QED
  BY <1>1, <1>2, <1>3, <1>4, <1>5, <1>6, <1>7, <1>8, <1>9, <1>10, <1>11, <1>12, <1>13 DEF Next

(* The Project and its policy are the same until the run has ended.          *)
LEMMA ValidStep ==
    Inv /\ [Next]_vars => ValidInv'
<1> SUFFICES ASSUME Inv, [Next]_vars PROVE ValidInv'
  OBVIOUS
<1> USE ConfigureAssumption DEF Inv, TypeInv, TypeOK, Steps, Kinds
<1>1. CASE \E force \in BOOLEAN : configure(force)
  BY <1>1 DEF configure, Touches, Spend, Idle, ValidInv, load_from_project
<1>2. CASE load_policy
  BY <1>2 DEF load_policy, Idle, ValidInv, load_from_project
<1>3. CASE remove_all
  BY <1>3 DEF remove_all, ValidInv, load_from_project
<1>4. CASE prepare_storage
  BY <1>4 DEF prepare_storage, Spend, Emptied, Nothing, ValidInv, load_from_project
<1>5. CASE capture_entry
  BY <1>5 DEF capture_entry, CanWrite, Idle, ValidInv, load_from_project
<1>6. CASE capture_base_git_index
  BY <1>6 DEF capture_base_git_index, Goto, ValidInv, load_from_project
<1>7. CASE open_database
  BY <1>7 DEF open_database, Goto, ValidInv, load_from_project
<1>8. CASE save_project_record
  BY <1>8 DEF save_project_record, Goto, ValidInv, load_from_project
<1>9. CASE sync_directories
  BY <1>9 DEF sync_directories, Idle, ValidInv, load_from_project
<1>10. CASE Fails
  BY <1>10 DEF Fails, Spend, Idle, ValidInv, load_from_project
<1>11. CASE Edit
  BY <1>11 DEF Edit, Idle, ValidInv, load_from_project
<1>12. CASE UNCHANGED vars
  BY <1>12 DEF vars, ValidInv, load_from_project
<1>13. CASE skip_entry
  BY <1>13 DEF skip_entry, Spend, ValidInv, load_from_project
<1>14. QED
  BY <1>1, <1>2, <1>3, <1>4, <1>5, <1>6, <1>7, <1>8, <1>9, <1>10, <1>11, <1>12, <1>13 DEF Next

(* The invariant, in every state.                                            *)
LEMMA Invariance == Spec => []Inv
<1>1. Inv /\ [Next]_vars => Inv'
  BY TypeStep, UnrecordedStep, CapturedStep, ValidStep DEF Inv
<1>2. QED
  BY InitInv, <1>1, PTL DEF Spec

(* The variables keep their types, and no entry of the Base state is of a    *)
(* kind that cannot be captured (capture_directory, is_capturable_type).     *)
THEOREM TypeCorrect == Spec => []TypeOK
<1>1. Inv => TypeOK
  BY DEF Inv, TypeInv
<1>2. QED
  BY Invariance, <1>1, PTL

(* A recorded Project has exactly the Base state its last capture was to     *)
(* make, but for the entries lstat failed for, each with all that was        *)
(* beneath it, however many runs failed or were cut off before it            *)
(* (ProjectManager::configure, capture_directory).                           *)
THEOREM RecordedIsCaptured == Spec => []ConfiguredBaseIsCapture
<1>1. Inv => ConfiguredBaseIsCapture
  <2> SUFFICES ASSUME Inv, db = "saved", ~leftover, run.pc # "remove" PROVE base = Captured
    BY DEF ConfiguredBaseIsCapture
  <2>1. run.pc \in {"idle", "load", "capture", "database", "record", "flush"}
    BY DEF Inv, TypeInv, TypeOK, Steps
  <2>2. QED
    BY <2>1 DEF Inv, CapturedInv
<1>2. QED
  BY Invariance, <1>1, PTL

(* A step that takes something of a recorded Project belongs to a run that   *)
(* read a valid policy (ProjectManager::configure, ADR 0007).                *)
THEOREM PolicyIsReadFirst == Spec => BadPolicyKeepsBase
<1> DEFINE Kept == (db = "saved" /\ (db' # db \/ base' # base)) => load_from_project.ok
<1>1. Inv /\ [Next]_vars => [Kept]_vars
  <2> SUFFICES ASSUME Inv, Next PROVE Kept
    OBVIOUS
  <2>1. CASE run.pc \notin {"idle", "load"}
    BY <2>1 DEF Inv, ValidInv
  <2>2. CASE run.pc \in {"idle", "load"}
    <3>1. UNCHANGED <<base, db>>
      BY <2>2 DEF Next, configure, Touches, load_policy, remove_all, prepare_storage, capture_entry, skip_entry,
         capture_base_git_index, open_database, save_project_record, sync_directories, Fails, Edit
    <3>2. QED
      BY <3>1
  <2>3. QED
    BY <2>1, <2>2
<1>2. QED
  BY Invariance, <1>1, PTL DEF Spec, BadPolicyKeepsBase
=============================================================================
