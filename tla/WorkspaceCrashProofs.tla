------------------------ MODULE WorkspaceCrashProofs ------------------------
(***************************************************************************)
(* Machine-checked proofs of what the callers of WorkspaceEngine are        *)
(* promised across storage errors, crashes of the process, a power loss and *)
(* interrupted recoveries, for any number of them (but of power losses) and *)
(* every universe of paths.                                                 *)
(*                                                                         *)
(* The promises speak of quiet states and of the last mutation only.  CInv  *)
(* says what holds in between:                                              *)
(*   RowInv       the operation under way has exactly one row, in the phase *)
(*                its step demands                                          *)
(*   ProgressInv  what the steps so far have done                           *)
(*   TreeInv      the upper tree and the merged layers are trees            *)
(*   BareInv      nothing lies beneath a staged leaf, so that publishing it *)
(*                leaves a tree                                             *)
(*   LeftInv      a stage that could not be discarded has lost its row, or  *)
(*                is losing it                                              *)
(*   HangInv      only one row has a stage, beneath its destination         *)
(*   WorkInv      the checks made when the mutation began still hold        *)
(*   RunningInv   until the effect callers see the old tree; from phase     *)
(*                publishing on, settling the row gives the new one         *)
(*   OutcomeInv   what a reply or a crash left behind is the old tree, the  *)
(*                new one, or one published row whose settling gives it     *)
(*                                                                         *)
(* The argument turns on SettledApplies: when a row enters phase            *)
(* publishing, settling it gives what the mutation asked for.  Every later  *)
(* step, of the engine or of recovery, keeps what settling gives            *)
(* (SettledPublished, SettledLess), until the last one makes it visible     *)
(* (FinishSettles).                                                         *)
(*                                                                         *)
(* A power loss brings the synced trees into use.  DiskInv says how they    *)
(* differ from the trees in use, step by step: not at all before the        *)
(* publication, by the published entry or the removed source after it.      *)
(* Settling the row makes up for exactly that (LossSettles), so what        *)
(* recovery makes of the trees after a power loss is what it would have     *)
(* made of them after a crash of the process.                               *)
(***************************************************************************)
EXTENDS WorkspaceStorageProofs

(* Names do not differ in case only, no rename goes onto a path that has    *)
(* Base entries beneath it, an abandoned operation does not leave both its  *)
(* stage and its row behind, and either every crash is one of the process   *)
(* alone, or the first may be a power loss and no error is reported once    *)
(* the staged entry is published, nor while a directory copied up is synced. *)
Ordinary ==
    /\ CaseDistinct /\ BareTargets
    /\ ~({"discard", "abandon"} \subseteq FaultPoints)
    /\ \/ PowerLosses = {}
       \/ /\ PowerLosses \subseteq {1}
          /\ FaultPoints \cap (Published \cup {"syncparents"}) = {}

(* A crash loses nothing, or brings what is on disk into use. *)
KeepsStorage == Crash => UNCHANGED <<upper, stage>>
LosesUnsynced ==
    /\ upper' = disk.upper /\ stage' = disk.stage /\ tombDB' = tombDB /\ journal' = journal

(* The operations that take an entry away from its path. *)
LeavingKinds == RemovingKinds \cup {"rename"}

(* The Base state has an entry at p and shows it. *)
Shows(tombs, p) == base_is_visible(tombs, p) /\ Exists(Base, p)

(* What a restart would show, leaving the journal aside. *)
StoredView == VisibleIn(upper, tombDB)

PublishingRows == {row \in journal : row.phase = "publishing"}

(* Identifiers are unique, and the operation under way has its row.          *)
RowInv ==
    /\ \A row \in journal : row.id < nextId
    /\ \A a, b \in journal : a.id = b.id => a = b
    /\ pc \notin {"idle", "parents", "syncparents", "journal"} =>
          \E row \in journal :
             /\ row.id = op.id /\ SameWork(row, op)
             /\ pc \in {"prepare", "flush", "phase"} => row.phase = "prepared"
             /\ pc \in Published \cup {"publish"} => row.phase = "publishing"
             /\ pc = "discard" /\ mode = "recovering" => row.phase = "prepared"

(* How far an operation has come.                                            *)
ProgressInv ==
    /\ pc \in {"source", "syncsource"} => op.kind \in LeavingKinds
    /\ pc \in {"publish", "sync"} => op.kind \in StagedKinds
    /\ pc = "abandon" => mode = "serving"
    /\ pc \in {"syncsource", "finish"} /\ op.kind \in LeavingKinds => ~Exists(upper, op.path)
    /\ pc \in Published /\ op.kind \in StagedKinds => ~Exists(stage[op.id], Destination(op))
    /\ mode = "recovering" /\ pc # "idle" => op.path # Root

(* Both the upper tree and what callers see are trees. *)
TreeInv == TreeShaped(upper) /\ TreeShaped(StoredView)

(* A staged leaf has nothing beneath it, in the stage and where it is going. *)
BareInv ==
    \A row \in journal : \A r, q \in Paths : Beneath(r, q) /\ stage[row.id][r].kind = Leaf =>
        ~Exists(StoredView, q) /\ ~Exists(stage[row.id], q)

(* A stage that could not be discarded outlives its row, which goes next.    *)
LeftInv ==
    /\ left # {} => "discard" \in FaultPoints
    /\ mode = "serving" => \A row \in journal : row.id \in left =>
          pc = "abandon" /\ row.id = op.id /\ row.kind \in StagedKinds

(* At most one row has a stage, and it hangs off the destination that the    *)
(* row gives.                                                                *)
HangInv ==
    /\ \A a, b \in journal : stage[a.id] # EmptyTree /\ stage[b.id] # EmptyTree => a.id = b.id
    /\ \A row \in journal : Hanging(stage[row.id], Destination(row))

(* What the steps of an operation rely on until it is published. *)
Unpublished == Steps \ Published
BeforeEffect == pc \in Unpublished \/ (pc = "source" /\ op.kind \in RemovingKinds)
CrashCompletes ==
    pc \in Published \cup {"publish"} \/ (pc = "abandon" /\ op.kind \in RemovingKinds)
ParentsMade(r) == \A a \in Paths : Beneath(a, Destination(r)) => IsDir(upper, a)
WorkInv ==
    mode = "serving" =>
        /\ pc \in Steps \ {"parents", "syncparents", "journal"} =>
              /\ op.add <=> op.kind \in LeavingKinds /\ HidesBase(op.path)
              /\ op.drop <=> op.kind = "rename"
        /\ BeforeEffect => Admitted(View, op)
        /\ pc \in {"journal", "prepare", "flush", "phase", "publish"} /\ op.kind \in StagedKinds =>
              ParentsMade(op)
        /\ pc \in {"flush", "phase", "publish"} /\ op.kind \in StagedKinds =>
              CanStage(op) /\ stage[op.id] = Staged(op)

(* What the history variables say of a mutation under way. *)
RunningInv ==
    /\ result = "running" <=> mode = "serving" /\ pc # "idle"
    /\ result = "running" /\ clean =>
        /\ PublishingRows \subseteq {row \in journal : row.id = op.id}
        /\ BeforeEffect => ShapeOf(View) = old
        /\ BeforeEffect => new = Applied(old, op)
        /\ CrashCompletes =>
              \A row \in PublishingRows : ShapeOf(Settled(row)) = new

(* What they say of the last one when none is under way. *)
OutcomeInv ==
    /\ mode = "serving" /\ result = "crashed" => journal = {}
    /\ result # "running" /\ clean =>
        /\ result = "ok" => PublishingRows = {} /\ ShapeOf(StoredView) = new
        /\ result = "error" /\ "abandon" \notin FaultPoints =>
              PublishingRows = {} /\ ShapeOf(StoredView) = old
        /\ result = "late" /\ PublishingRows = {} => ShapeOf(StoredView) = new
        /\ result = "crashed" /\ PublishingRows = {} => ShapeOf(StoredView) \in {old, new}
        /\ result \in {"late", "crashed"} =>
              \A row \in PublishingRows :
                 /\ PublishingRows = {row} /\ ShapeOf(Settled(row)) = new
                 /\ Exists(stage[row.id], Destination(row)) => ParentsMade(row)

(* What a power loss would leave: the layers as last synced. *)
LostView == VisibleIn(disk.upper, tombDB)

(* The synced trees have the shape that the trees in use have. *)
DiskTree == TreeShaped(disk.upper) /\ TreeShaped(LostView)
DiskBare ==
    \A row \in journal : \A r, q \in Paths : Beneath(r, q) /\ disk.stage[row.id][r].kind = Leaf =>
        ~Exists(LostView, q) /\ ~Exists(disk.stage[row.id], q)
DiskHang ==
    /\ \A a, b \in journal :
          disk.stage[a.id] # EmptyTree /\ disk.stage[b.id] # EmptyTree => a.id = b.id
    /\ \A i \in Ids : i >= nextId => disk.stage[i] = EmptyTree
    /\ \A row \in journal : Hanging(disk.stage[row.id], Destination(row))

(* A staged entry is told from whatever it replaces by its file, so that the *)
(* sync of its directory finds it moved in.                                  *)
Numbered(tree) == \A p \in Paths : tree[p].ino < nextId \/ tree[p].ino > MaxOps
DiskNumbers ==
    /\ Numbered(upper) /\ Numbered(disk.upper)
    /\ pc \in {"prepare", "flush", "phase", "publish", "sync"} =>
          \A p \in Paths : disk.upper[p].ino # op.id

(* The directory copied up last is not synced, but for it everything is.     *)
Unsynced(dir) ==
    /\ dir # Root /\ dir \in Innermost(ParentsThere)
    /\ IsDir(Base, dir) /\ base_is_visible(tombDB, dir) /\ Shape(upper[dir]) = Shape(Base[dir])
    /\ \A a \in Paths : Beneath(a, dir) => IsDir(upper, a)
    /\ ~Exists(disk.upper, dir)
    /\ \A q \in Paths : q # dir => disk.upper[q] = upper[q]

(* What is not synced at each step: nothing, the directory just copied up,   *)
(* the entry just published, or the removals of the source.                  *)
DiskUpper ==
    /\ pc \notin {"syncparents", "sync", "source", "syncsource"} => disk.upper = upper
    /\ pc = "syncparents" => \E dir \in Paths : Unsynced(dir)
    /\ pc = "sync" =>
          LET to == Destination(op) IN
          /\ to # Root /\ upper[to].ino = op.id /\ Exists(disk.stage[op.id], to)
          /\ upper = Overlay(disk.upper, disk.stage[op.id], to)
          /\ \A a \in Paths : Beneath(a, to) => IsDir(disk.upper, a)
    /\ pc \in {"source", "syncsource"} =>
          \A q \in Paths : disk.upper[q] = upper[q] \/ (Under(op.path, q) /\ upper[q] = Absent)
    /\ pc = "source" => disk.upper = upper \/ Exists(upper, op.path)
    /\ pc = "syncsource" => Exists(disk.upper, op.path) /\ ~Exists(upper, op.path)
DiskStage ==
    /\ pc \in {"phase", "publish"} => disk.stage[op.id] = stage[op.id]
    /\ pc \in Published \ {"sync"} => disk.stage[op.id] = EmptyTree
    /\ Journalled /\ op.kind \in RemovingKinds => disk.stage[op.id] = EmptyTree

(* Where the first crash may be a power loss, this holds until it happens.   *)
Undisturbed == mode = "serving" /\ result \in {"running", "ok", "error"}
DiskInv ==
    PowerLosses # {} /\ crashes = 0 =>
        /\ Undisturbed /\ DiskTree /\ DiskBare /\ DiskHang
        /\ DiskNumbers /\ DiskUpper /\ DiskStage

CInv ==
    /\ RowInv /\ ProgressInv /\ TreeInv /\ BareInv /\ LeftInv /\ HangInv
    /\ WorkInv /\ RunningInv /\ OutcomeInv
-----------------------------------------------------------------------------
(* Trees and layers. *)

(* Two paths that a third lies beneath lie one beneath the other. *)
LEMMA Comparable ==
    ASSUME NEW a \in Paths, NEW b \in Paths, NEW c \in Paths, Under(a, c), Under(b, c)
    PROVE  Under(a, b) \/ Under(b, a)
<1>1. Len(a) \in Nat /\ Len(b) \in Nat /\ Len(c) \in Nat
    BY PathsAssumption
<1>2. CASE Len(a) =< Len(b)
    BY <1>1, <1>2 DEF Under
<1>3. CASE Len(b) =< Len(a)
    BY <1>1, <1>3 DEF Under
<1>4. QED BY <1>1, <1>2, <1>3

(* Lying strictly beneath is transitive. *)
LEMMA BeneathTransitive ==
    ASSUME NEW p \in Paths, NEW q \in Paths, NEW r \in Paths
    PROVE  /\ Under(p, q) /\ Beneath(q, r) => Beneath(p, r)
           /\ Beneath(p, q) /\ Under(q, r) => Beneath(p, r)
BY UnderTransitive, UnderAntisymmetric DEF Beneath

(* A transplant onto its own place changes nothing. *)
LEMMA RebaseSame ==
    ASSUME NEW p \in Paths, NEW q \in Paths, Under(p, q)
    PROVE  Rebase(p, p, q) = q
<1>1. p \in Paths /\ q \in Paths /\ Under(p, q)
    OBVIOUS
<1>2. /\ Rebase(p, p, q) \in Seq(Names)
      /\ Len(Rebase(p, p, q)) = Len(p) + Len(q) - Len(p)
      /\ \A i \in 1..Len(p) : Rebase(p, p, q)[i] = p[i]
      /\ \A i \in 1..(Len(q) - Len(p)) : Rebase(p, p, q)[Len(p) + i] = q[Len(p) + i]
    BY ONLY <1>1, RebaseNames
<1>3. q \in Seq(Names) /\ Len(p) \in Nat /\ Len(q) \in Nat /\ Len(p) =< Len(q)
      /\ \A i \in 1..Len(p) : p[i] = q[i]
    BY PathsAssumption DEF Under
<1> DEFINE s == Rebase(p, p, q)
<1>4. Len(s) = Len(q)
    BY <1>2, <1>3
<1> HIDE DEF s
<1>5. ASSUME NEW i \in 1..Len(q) PROVE s[i] = q[i]
    <2>1. CASE i =< Len(p)
        BY <1>2, <1>3, <2>1 DEF s
    <2>2. CASE i > Len(p)
        <3> DEFINE k == i - Len(p)
        <3>1. k \in 1..(Len(q) - Len(p)) /\ i = Len(p) + k
            BY <1>3, <2>2
        <3> HIDE DEF k
        <3>2. QED BY <1>2, <3>1 DEF s
    <2>3. QED BY <1>3, <2>1, <2>2
<1>6. s = q
    BY <1>2, <1>3, <1>4, <1>5 DEF s
<1>7. QED BY <1>6 DEF s

(* An empty directory of a tree has nothing beneath it. *)
LEMMA EmptyBeneath ==
    ASSUME NEW tree, TreeShaped(tree), NEW p \in Paths, Children(tree, p) = {},
           NEW q \in Paths, Beneath(p, q)
    PROVE  ~Exists(tree, q)
<1>1. SUFFICES ASSUME Exists(tree, q) PROVE FALSE
    OBVIOUS
<1>2. PICK c \in Paths : c # Root /\ Parent(c) = p /\ Under(p, c) /\ Under(c, q)
    BY ChildTowards DEF Beneath
<1>3. Exists(tree, c)
    BY <1>1, <1>2 DEF TreeShaped, Beneath, IsDir, Exists, Dir, Nothing
<1>4. QED BY <1>2, <1>3 DEF Children

(* Whether a tree is one depends on the kinds of its entries alone. *)
LEMMA TreeByKinds ==
    ASSUME NEW one, NEW two, \A p \in Paths : one[p].kind = two[p].kind, TreeShaped(one)
    PROVE  TreeShaped(two)
BY PathsAssumption DEF TreeShaped, IsDir, Exists

(* An entry is visible if the upper tree has it or the Base state shows it. *)
LEMMA VisibleWhen ==
    ASSUME NEW up, NEW tombs, NEW p \in Paths
    PROVE  /\ Exists(VisibleIn(up, tombs), p) <=> Exists(up, p) \/ Shows(tombs, p)
           /\ Exists(up, p) => VisibleIn(up, tombs)[p] = up[p]
           /\ ~Exists(up, p) /\ base_is_visible(tombs, p) => VisibleIn(up, tombs)[p] = Base[p]
           /\ ~Exists(up, p) /\ ~Shows(tombs, p) => VisibleIn(up, tombs)[p] = Absent
<1>1. ~Exists(Base, p) => Base[p] = Absent
    BY BaseAssumption
<1>2. QED BY <1>1 DEF VisibleIn, Shows, Exists, Absent

(* Where the Base state shows an entry, it shows the directories above. *)
LEMMA ShowsAbove ==
    ASSUME NEW tombs \in SUBSET Paths, NEW p \in Paths, NEW q \in Paths, Beneath(p, q),
           Shows(tombs, q)
    PROVE  Shows(tombs, p) /\ IsDir(Base, p)
<1>1. IsDir(Base, p)
    BY BaseAssumption DEF TreeShaped, Shows
<1>2. base_is_visible(tombs, p)
    BY UnderTransitive DEF base_is_visible, Shows, Beneath
<1>3. QED BY <1>1, <1>2 DEF Shows, IsDir, Exists, Dir, Nothing

(* Removing an upper entry that has nothing beneath it leaves trees. *)
LEMMA RemovalTrees ==
    ASSUME NEW up \in Trees, NEW tombs \in SUBSET Paths, TreeShaped(up),
           TreeShaped(VisibleIn(up, tombs)),
           NEW q \in Paths, q # Root, Children(up, q) = {}, Exists(up, q)
    PROVE  LET less == [up EXCEPT ![q] = Absent]
           IN  TreeShaped(less) /\ TreeShaped(VisibleIn(less, tombs))
<1> DEFINE less == [up EXCEPT ![q] = Absent]
           V == VisibleIn(up, tombs)
           W == VisibleIn(less, tombs)
<1>1. ~Exists(less, q) /\ \A p \in Paths : p # q => less[p] = up[p]
    BY DEF Trees, Exists, Absent
<1>2. \A b \in Paths : Beneath(q, b) => ~Exists(up, b)
    BY EmptyBeneath
<1> HIDE DEF less
<1>3. TreeShaped(less)
    <2>1. IsDir(less, Root)
        BY <1>1, PathsAssumption DEF TreeShaped, IsDir
    <2>2. ASSUME NEW a \in Paths, NEW b \in Paths, Beneath(a, b), Exists(less, b)
          PROVE  IsDir(less, a)
        <3>1. b # q /\ Exists(up, b)
            BY <1>1, <2>2 DEF Exists
        <3>2. IsDir(up, a) /\ a # q
            BY <1>2, <2>2, <3>1 DEF TreeShaped
        <3>3. QED BY <1>1, <3>2 DEF IsDir
    <2>3. QED BY <2>1, <2>2 DEF TreeShaped
<1>4. \A p \in Paths : p # q => W[p] = V[p]
    BY <1>1 DEF VisibleIn, Exists
<1>5. ASSUME NEW p \in Paths PROVE Exists(W, p) => Exists(V, p)
    BY <1>1, VisibleWhen DEF Exists
<1> HIDE DEF V, W
<1>6. ASSUME NEW a \in Paths, NEW b \in Paths, Beneath(a, b), Exists(W, b)
      PROVE  IsDir(W, a)
    <2>1. IsDir(V, a)
        BY <1>5, <1>6 DEF TreeShaped, V
    <2>2. CASE a # q
        BY <1>4, <2>1, <2>2 DEF IsDir
    <2>3. CASE a = q
        <3>1. b # q /\ ~Exists(less, b)
            BY <1>1, <1>2, <1>6, <2>3 DEF Beneath, Exists
        <3>2. Shows(tombs, b)
            BY <1>6, <3>1, VisibleWhen DEF W
        <3>3. Shows(tombs, a) /\ IsDir(Base, a)
            BY <1>6, <3>2, ShowsAbove
        <3>4. W[a] = Base[a]
            BY <1>1, <2>3, <3>3, VisibleWhen DEF W, Shows
        <3>5. QED BY <3>3, <3>4 DEF IsDir
    <2>4. QED BY <2>2, <2>3
<1>7. IsDir(W, Root)
    BY <1>4, PathsAssumption DEF TreeShaped, IsDir, V
<1>8. QED BY <1>3, <1>6, <1>7 DEF TreeShaped, less, W

(* Publishing a staged entry leaves trees. *)
LEMMA OverlayTrees ==
    ASSUME NEW up \in Trees, NEW staged \in Trees, NEW tombs \in SUBSET Paths,
           TreeShaped(up), TreeShaped(VisibleIn(up, tombs)),
           NEW to \in Paths, to # Root,
           \A a \in Paths : Beneath(a, to) => IsDir(up, a),
           Hanging(staged, to),
           \A r, q \in Paths : Beneath(r, q) /\ staged[r].kind = Leaf =>
               ~Shows(tombs, q) /\ ~Exists(staged, q)
    PROVE  LET over == Overlay(up, staged, to)
           IN  TreeShaped(over) /\ TreeShaped(VisibleIn(over, tombs))
<1> DEFINE over == Overlay(up, staged, to)
           V == VisibleIn(up, tombs)
           W == VisibleIn(over, tombs)
<1>1. \A q \in Paths : over[q] = IF Under(to, q) THEN staged[q] ELSE up[q]
    BY DEF Overlay
<1>2. ~Under(to, Root)
    BY PathsAssumption, UnderAntisymmetric DEF Under, Root
<1>3. \A q \in Paths : staged[q].kind \in {Leaf, Dir, Nothing}
    BY DEF Trees, Entries
<1> HIDE DEF over
<1>4. ASSUME NEW a \in Paths, NEW b \in Paths, Beneath(a, b), Under(to, b), ~Under(to, a)
      PROVE  IsDir(over, a)
    <2>1. Under(a, to)
        BY <1>4, Comparable DEF Beneath
    <2>2. Beneath(a, to)
        BY <1>4, <2>1, UnderReflexive DEF Beneath
    <2>3. QED BY <1>1, <1>4, <2>2 DEF IsDir
<1>5. ASSUME NEW a \in Paths, NEW b \in Paths, Beneath(a, b), ~Under(to, b)
      PROVE  ~Under(to, a)
    BY <1>5, UnderTransitive DEF Beneath
<1>6. ASSUME NEW a \in Paths, NEW b \in Paths, Beneath(a, b), Exists(over, b)
      PROVE  IsDir(over, a)
    <2>1. CASE Under(to, b) /\ Under(to, a)
        <3>1. Exists(staged, b)
            BY <1>1, <1>6, <2>1 DEF Exists
        <3>2. Exists(staged, a)
            BY <1>6, <2>1, <3>1 DEF Hanging, Beneath, Exists, Absent
        <3>3. IsDir(staged, a)
            BY <1>3, <1>6, <3>1, <3>2 DEF Exists, IsDir
        <3>4. QED BY <1>1, <2>1, <3>3 DEF IsDir
    <2>2. CASE Under(to, b) /\ ~Under(to, a)
        BY <1>4, <1>6, <2>2
    <2>3. CASE ~Under(to, b)
        BY <1>1, <1>5, <1>6, <2>3 DEF TreeShaped, IsDir, Exists
    <2>4. QED BY <2>1, <2>2, <2>3
<1>7. ASSUME NEW a \in Paths, NEW b \in Paths, Beneath(a, b), Exists(W, b)
      PROVE  IsDir(W, a)
    <2>1. CASE Exists(over, b)
        BY <1>6, <1>7, <2>1, VisibleWhen DEF IsDir, Exists, Dir, Nothing
    <2>2. CASE ~Exists(over, b)
        <3>1. Shows(tombs, b)
            BY <1>7, <2>2, VisibleWhen
        <3>2. Shows(tombs, a) /\ IsDir(Base, a)
            BY <1>7, <3>1, ShowsAbove
        <3>3. CASE ~Exists(over, a)
            BY <3>2, <3>3, VisibleWhen DEF Shows, IsDir
        <3>4. CASE Exists(over, a)
            <4>1. W[a] = over[a]
                BY <3>4, VisibleWhen
            <4>2. CASE Under(to, a)
                <5>1. over[a] = staged[a] /\ Exists(staged, a)
                    BY <1>1, <3>4, <4>2 DEF Exists
                <5>2. QED BY <1>3, <1>7, <3>1, <4>1, <5>1 DEF IsDir, Exists
            <4>3. CASE ~Under(to, a) /\ Under(to, b)
                BY <1>4, <1>7, <4>1, <4>3 DEF IsDir
            <4>4. CASE ~Under(to, a) /\ ~Under(to, b)
                <5>1. over[a] = up[a] /\ V[a] = up[a]
                    BY <1>1, <3>4, <4>4, VisibleWhen DEF Exists
                <5>2. Exists(V, b)
                    BY <3>1, VisibleWhen
                <5>3. IsDir(V, a)
                    BY <1>7, <5>2 DEF TreeShaped
                <5>4. QED BY <4>1, <5>1, <5>3 DEF IsDir
            <4>5. QED BY <4>2, <4>3, <4>4
        <3>5. QED BY <3>3, <3>4
    <2>3. QED BY <2>1, <2>2
<1>8. IsDir(over, Root) /\ IsDir(W, Root)
    <2>1. IsDir(over, Root)
        BY <1>1, <1>2, PathsAssumption DEF TreeShaped, IsDir
    <2>2. QED BY <2>1, PathsAssumption, VisibleWhen DEF IsDir, Exists, Dir, Nothing
<1>9. QED BY <1>6, <1>7, <1>8 DEF TreeShaped, over

(* Creating the parents of a destination leaves trees, if what is there     *)
(* already are directories.                                                 *)
LEMMA ParentsTrees ==
    ASSUME NEW up \in Trees, NEW tombs \in SUBSET Paths, NEW to \in Paths,
           TreeShaped(up), TreeShaped(VisibleIn(up, tombs)),
           \A a \in Paths : Beneath(a, to) => IsDir(WithParents(up, to), a)
    PROVE  LET made == WithParents(up, to)
           IN  TreeShaped(made) /\ TreeShaped(VisibleIn(made, tombs))
<1> DEFINE made == WithParents(up, to)
           V == VisibleIn(up, tombs)
           W == VisibleIn(made, tombs)
<1>1. \A q \in Paths : Exists(up, q) => made[q] = up[q]
    BY DEF WithParents
<1>2. \A q \in Paths : ~Beneath(q, to) => made[q] = up[q]
    BY DEF WithParents
<1> HIDE DEF made
<1>3. ASSUME NEW a \in Paths, NEW b \in Paths, Beneath(a, b), Exists(made, b)
      PROVE  IsDir(made, a)
    <2>1. CASE Beneath(b, to)
        BY <1>3, <2>1, BeneathTransitive DEF Beneath, made
    <2>2. CASE ~Beneath(b, to)
        <3>1. Exists(up, b)
            BY <1>2, <1>3, <2>2 DEF Exists
        <3>2. IsDir(up, a)
            BY <1>3, <3>1 DEF TreeShaped
        <3>3. QED BY <1>1, <3>2 DEF IsDir, Exists, Dir, Nothing
    <2>3. QED BY <2>1, <2>2
<1>4. ASSUME NEW a \in Paths, NEW b \in Paths, Beneath(a, b), Exists(W, b)
      PROVE  IsDir(W, a)
    <2>1. CASE Exists(made, b)
        BY <1>3, <1>4, <2>1, VisibleWhen DEF IsDir, Exists, Dir, Nothing
    <2>2. CASE ~Exists(made, b)
        <3>1. Shows(tombs, b)
            BY <1>4, <2>2, VisibleWhen
        <3>2. Shows(tombs, a) /\ IsDir(Base, a)
            BY <1>4, <3>1, ShowsAbove
        <3>3. CASE ~Exists(made, a)
            BY <3>2, <3>3, VisibleWhen DEF Shows, IsDir
        <3>4. CASE Exists(made, a) /\ Beneath(a, to)
            BY <3>4, VisibleWhen DEF IsDir, made
        <3>5. CASE Exists(made, a) /\ ~Beneath(a, to)
            <4>1. made[a] = up[a] /\ Exists(up, a)
                BY <1>2, <3>5 DEF Exists
            <4>2. IsDir(V, a)
                BY <1>4, <3>1, VisibleWhen DEF TreeShaped
            <4>3. V[a] = up[a] /\ W[a] = made[a]
                BY <3>5, <4>1, VisibleWhen
            <4>4. QED BY <4>1, <4>2, <4>3 DEF IsDir
        <3>6. QED BY <3>3, <3>4, <3>5
    <2>3. QED BY <2>1, <2>2
<1>5. IsDir(made, Root) /\ IsDir(W, Root)
    <2>1. IsDir(made, Root)
        BY <1>1, PathsAssumption DEF TreeShaped, IsDir, Exists, Dir, Nothing
    <2>2. QED BY <2>1, PathsAssumption, VisibleWhen DEF IsDir, Exists, Dir, Nothing
<1>6. QED BY <1>3, <1>4, <1>5 DEF TreeShaped, made

(* The tombstone effects of an operation leave a tree, if they uncover      *)
(* nothing.                                                                 *)
LEMMA TombstoneTrees ==
    ASSUME NEW up \in Trees, NEW tombs \in SUBSET Paths, NEW after \in SUBSET Paths,
           TreeShaped(up), TreeShaped(VisibleIn(up, tombs)),
           \A p \in Paths : Exists(VisibleIn(up, after), p) => Exists(VisibleIn(up, tombs), p)
    PROVE  TreeShaped(VisibleIn(up, after))
<1> DEFINE V == VisibleIn(up, tombs)
           W == VisibleIn(up, after)
<1>1. ASSUME NEW a \in Paths, NEW b \in Paths, Beneath(a, b), Exists(W, b)
      PROVE  IsDir(W, a)
    <2>1. IsDir(V, a)
        BY <1>1 DEF TreeShaped
    <2>2. CASE Exists(up, a)
        <3>1. V[a] = up[a] /\ W[a] = up[a]
            BY <2>2, VisibleWhen
        <3>2. QED BY <2>1, <3>1 DEF IsDir
    <2>3. CASE ~Exists(up, a)
        <3>1. ~Exists(up, b)
            BY <1>1, <2>3 DEF TreeShaped, IsDir, Exists, Dir, Nothing
        <3>2. Shows(after, b)
            BY <1>1, <3>1, VisibleWhen
        <3>3. Shows(after, a) /\ IsDir(Base, a)
            BY <1>1, <3>2, ShowsAbove
        <3>4. QED BY <2>3, <3>3, VisibleWhen DEF Shows, IsDir
    <2>4. QED BY <2>2, <2>3
<1>2. IsDir(W, Root)
    BY PathsAssumption, VisibleWhen DEF TreeShaped, IsDir, Exists, Dir, Nothing
<1>3. QED BY <1>1, <1>2 DEF TreeShaped

(* Copying up the next missing ancestor shows the same, entry by entry, and *)
(* leaves a tree.                                                           *)
LEMMA CopyUpEffect ==
    ASSUME TypeOK, TombstonesAgree, TreeInv, create_missing_upper_parent_directories
    PROVE  /\ tombDB' = tombDB /\ tombMem' = tombMem /\ mode = "serving" /\ pc = "parents"
           /\ stage' = stage /\ journal' = journal
           /\ \A p \in Paths : Shape(StoredView'[p]) = Shape(StoredView[p])
           /\ TreeShaped(upper')
           /\ \/ upper' = upper /\ pc' \in {"journal", "idle"}
              \/ /\ pc' = "syncparents" /\ op' = op /\ disk' = disk
                 /\ \E dir \in Outermost(ParentsToMake) :
                       /\ CanCopyUp(dir) /\ Shape(upper'[dir]) = Shape(Base[dir])
                       /\ upper' = [upper EXCEPT ![dir] = [Base[dir] EXCEPT !.ino = MaxOps + nextId]]
                       /\ \A a \in Paths : Beneath(a, dir) => IsDir(upper, a)
<1>1. /\ tombDB' = tombDB /\ tombMem' = tombMem /\ mode = "serving" /\ pc = "parents"
      /\ stage' = stage /\ journal' = journal
    BY DEF create_missing_upper_parent_directories, metadata, storage, Reply, At
<1>2. CASE upper' = upper /\ pc' \in {"journal", "idle"}
    BY <1>1, <1>2 DEF StoredView, VisibleIn, TreeInv
<1>3. CASE /\ pc' = "syncparents" /\ op' = op /\ disk' = disk
           /\ \E dir \in Outermost(ParentsToMake) :
              /\ CanCopyUp(dir)
              /\ upper' = [upper EXCEPT ![dir] = [Base[dir] EXCEPT !.ino = MaxOps + nextId]]
    <2>1. PICK dir \in Outermost(ParentsToMake) :
              /\ CanCopyUp(dir)
              /\ upper' = [upper EXCEPT ![dir] = [Base[dir] EXCEPT !.ino = MaxOps + nextId]]
        BY <1>3
    <2>2. dir \in Paths /\ Beneath(dir, Destination(op)) /\ Destination(op) \in Paths
        BY DEF Outermost, ParentsToMake, Destination, TypeOK, Operations
    <2> DEFINE copy == [Base[dir] EXCEPT !.ino = MaxOps + nextId]
    <2>3. copy.kind = Base[dir].kind /\ copy.val = Base[dir].val
        BY <2>2, BaseAssumption DEF Trees, Entries
    <2>4. upper'[dir] = copy /\ \A p \in Paths : p # dir => upper'[p] = upper[p]
        BY <2>1, <2>2 DEF TypeOK, Trees
    <2> HIDE DEF copy
    <2>5. ~Exists(upper, dir) /\ IsDir(Base, dir) /\ base_is_visible(tombDB, dir)
        BY <1>1, <2>1 DEF CanCopyUp, TombstonesAgree
    <2>6. StoredView[dir] = Base[dir]
        BY <2>2, <2>5, VisibleWhen DEF StoredView
    <2>7. Exists(upper', dir) /\ IsDir(upper', dir)
        BY <2>3, <2>4, <2>5 DEF Exists, IsDir, Dir, Nothing
    <2>8. StoredView'[dir] = copy
        BY <1>1, <2>2, <2>4, <2>7 DEF StoredView, VisibleIn, Exists
    <2>9. \A p \in Paths : p # dir => StoredView'[p] = StoredView[p]
        BY <1>1, <2>4 DEF StoredView, VisibleIn, Exists
    <2>10. \A p \in Paths : Shape(StoredView'[p]) = Shape(StoredView[p])
        BY <2>3, <2>6, <2>8, <2>9 DEF Shape
    <2>11. \A a \in Paths : Beneath(a, dir) => IsDir(upper, a)
        <3>1. SUFFICES ASSUME NEW a \in Paths, Beneath(a, dir), ~IsDir(upper, a) PROVE FALSE
            OBVIOUS
        <3>2. a \in ParentsToMake
            BY <2>2, <3>1, BeneathTransitive DEF ParentsToMake, Beneath
        <3>3. Len(dir) =< Len(a)
            BY <3>2 DEF Outermost
        <3>4. Len(a) \in Nat /\ Len(dir) \in Nat /\ Len(a) =< Len(dir) /\ Under(a, dir) /\ a # dir
            BY <2>2, <3>1, PathsAssumption DEF Beneath, Under
        <3>5. Under(dir, a)
            BY <3>3, <3>4 DEF Under
        <3>6. QED BY <2>2, <3>4, <3>5, UnderAntisymmetric
    <2>12. TreeShaped(upper')
        <3>1. ASSUME NEW a \in Paths, NEW b \in Paths, Beneath(a, b), Exists(upper', b)
              PROVE  IsDir(upper', a)
            <4>1. CASE b = dir
                BY <2>4, <2>7, <2>11, <3>1, <4>1 DEF IsDir
            <4>2. CASE b # dir
                BY <2>4, <2>7, <3>1, <4>2 DEF IsDir, Exists, TreeInv, TreeShaped
            <4>3. QED BY <4>1, <4>2
        <3>2. IsDir(upper', Root)
            BY <2>4, <2>7, PathsAssumption DEF TreeInv, TreeShaped, IsDir
        <3>3. QED BY <3>1, <3>2 DEF TreeShaped
    <2>13. Shape(upper'[dir]) = Shape(Base[dir])
        BY <2>3, <2>4 DEF Shape
    <2>14. QED BY <1>1, <1>3, <2>1, <2>10, <2>11, <2>12, <2>13
<1>4. QED BY <1>2, <1>3 DEF create_missing_upper_parent_directories, storage, Reply

(* Whether a mutation is admitted depends on the kinds of entries alone. *)
LEMMA AdmittedByKinds ==
    ASSUME NEW one, NEW two, \A p \in Paths : one[p].kind = two[p].kind,
           NEW r, r.kind \in Kinds, r.path \in Paths, r.target \in Paths
    PROVE  Admitted(one, r) <=> Admitted(two, r)
<1>1. ASSUME NEW p \in Paths
      PROVE  /\ Exists(one, p) <=> Exists(two, p)
             /\ IsDir(one, p) <=> IsDir(two, p)
             /\ Children(one, p) = Children(two, p)
    BY DEF Exists, IsDir, Children
<1>2. /\ Exists(one, r.path) <=> Exists(two, r.path)
      /\ Exists(one, r.target) <=> Exists(two, r.target)
      /\ IsDir(one, r.path) <=> IsDir(two, r.path)
      /\ IsDir(one, r.target) <=> IsDir(two, r.target)
      /\ Children(one, r.path) = Children(two, r.path)
      /\ Children(one, r.target) = Children(two, r.target)
    BY <1>1
<1> USE DEF Admitted, Kinds, StagedKinds, ReplacingKinds, CreatingKinds, RemovingKinds
<1>3. CASE r.kind \in CreatingKinds
    BY ONLY <1>2, <1>3
<1>4. CASE r.kind = "write"
    BY ONLY <1>2, <1>4
<1>5. CASE r.kind = "truncate"
    BY ONLY <1>2, <1>5
<1>6. CASE r.kind \in {"chmod", "utimens"}
    BY ONLY <1>2, <1>6
<1>7. CASE r.kind = "unlink"
    BY ONLY <1>2, <1>7
<1>8. CASE r.kind = "rmdir"
    BY ONLY <1>2, <1>8
<1>9. CASE r.kind = "rename"
    BY ONLY <1>2, <1>9
<1>10. QED BY <1>3, <1>4, <1>5, <1>6, <1>7, <1>8, <1>9

-----------------------------------------------------------------------------
(* What settling a row gives. *)

(* A materialised subtree of a tree shows what the subtree shows. *)
LEMMA MaterializeShape ==
    ASSUME NEW tree \in Trees, TreeShaped(tree), NEW p \in Paths, NEW to \in Paths,
           NEW ino \in Nat,
           NEW q \in Paths, Under(to, q)
    PROVE  LET copy == materialize_visible_entry_at(tree, p, to, ino)
               s == Rebase(to, p, q)
           IN  /\ s \in Paths /\ Exists(tree, s) =>
                     copy[q].kind = tree[s].kind /\ copy[q].val = tree[s].val
               /\ ~(s \in Paths /\ Exists(tree, s)) => copy[q] = Absent
<1> DEFINE s == Rebase(to, p, q)
           copy == materialize_visible_entry_at(tree, p, to, ino)
<1>1. s \in Paths /\ Exists(tree, s) =>
          \A r \in Paths : Under(p, r) /\ Beneath(r, s) => IsDir(tree, r)
    BY DEF TreeShaped
<1>2. copy[q] = IF s \in Paths /\ Exists(tree, s) THEN [tree[s] EXCEPT !.ino = ino] ELSE Absent
    BY <1>1 DEF materialize_visible_entry_at
<1>3. s \in Paths => /\ [tree[s] EXCEPT !.ino = ino].kind = tree[s].kind
                     /\ [tree[s] EXCEPT !.ino = ino].val = tree[s].val
    BY DEF Trees, Entries
<1>4. QED BY <1>2, <1>3

(* The tombstones recovery would write for a row are those of its operation. *)
LEMMA RowTombstones ==
    ASSUME CaseDistinct, TypeOK, NEW row, SameWork(row, op)
    PROVE  StoreTombstoned(tombDB, row) = Tombstoned(tombDB, op)
<1>1. StoreTombstoned(tombDB, row) = StoreTombstoned(tombDB, op)
    BY DEF SameWork, StoreTombstoned
<1>2. QED BY <1>1, SameEffect DEF TypeOK

(* What settling a row shows at a path. *)
LEMMA SettledEntry ==
    ASSUME NEW row, NEW q \in Paths, row.kind \in Kinds
    PROVE  LET published == IF /\ row.kind \in StagedKinds
                               /\ Exists(stage[row.id], Destination(row))
                               /\ Under(Destination(row), q)
                            THEN stage[row.id][q] ELSE upper[q]
               after == StoreTombstoned(tombDB, row)
           IN  /\ row.kind \in LeavingKinds /\ Under(row.path, q) =>
                     Settled(row)[q] = IF Shows(after, q) THEN Base[q] ELSE Absent
               /\ ~(row.kind \in LeavingKinds /\ Under(row.path, q)) =>
                     Settled(row)[q] = IF published.kind # Nothing THEN published
                                       ELSE IF Shows(after, q) THEN Base[q] ELSE Absent
<1> DEFINE to == Destination(row)
           staging == row.kind \in StagedKinds /\ Exists(stage[row.id], to)
           published == IF staging THEN Overlay(upper, stage[row.id], to) ELSE upper
           gone == row.kind \notin StagedKinds \ {"rename"} /\ Under(row.path, q)
           removed == [x \in Paths |-> IF row.kind \notin StagedKinds \ {"rename"} /\ Under(row.path, x)
                                       THEN Absent ELSE published[x]]
           after == StoreTombstoned(tombDB, row)
<1>1. Settled(row) = VisibleIn(removed, after)
    BY DEF Settled
<1>2. row.kind \notin StagedKinds \ {"rename"} <=> row.kind \in LeavingKinds
    BY DEF Kinds, StagedKinds, LeavingKinds, RemovingKinds, ReplacingKinds, CreatingKinds
<1>3. published[q] = IF staging /\ Under(to, q) THEN stage[row.id][q] ELSE upper[q]
    BY DEF Overlay
<1>4. removed[q] = IF row.kind \in LeavingKinds /\ Under(row.path, q) THEN Absent ELSE published[q]
    BY <1>2
<1> HIDE DEF removed, after, published
<1>5. Settled(row)[q] = IF Exists(removed, q) THEN removed[q]
                        ELSE IF Shows(after, q) THEN Base[q] ELSE Absent
    BY <1>1, VisibleWhen DEF Shows
<1>6. QED BY <1>3, <1>4, <1>5 DEF Exists, Absent, after

(* What callers do not see has no shape. *)
LEMMA UnseenShape ==
    ASSUME NEW up, NEW tombs, NEW q \in Paths, ~Exists(VisibleIn(up, tombs), q)
    PROVE  /\ Shape(VisibleIn(up, tombs)[q]) = NoShape /\ Shape(Absent) = NoShape
           /\ ~Exists(up, q) /\ ~Shows(tombs, q)
<1>1. ~Exists(up, q) /\ ~Shows(tombs, q)
    BY VisibleWhen
<1>2. VisibleIn(up, tombs)[q] = Absent
    BY <1>1, VisibleWhen
<1>3. QED BY <1>1, <1>2 DEF Shape, Absent, NoShape

(* Staging and publishing a new entry, or a new version of one, does what    *)
(* the caller asked for.                                                     *)
LEMMA SettledInPlace ==
    ASSUME CaseDistinct, TypeOK, TombstonesAgree, mode = "serving", TreeInv,
           op.kind \in StagedKinds \ {"rename"}, op.id \in Ids, Admitted(View, op),
           ~op.add, ~op.drop, CanStage(op), stage[op.id] = Staged(op),
           NEW row, row.id = op.id, SameWork(row, op), NEW q \in Paths
    PROVE  Shape(Settled(row)[q]) = Applied(ShapeOf(View), op)[q]
<1>1. /\ op \in Operations /\ op.path \in Paths /\ op.val \in Vals /\ op.id \in Nat
      /\ upper \in Trees /\ View \in Trees
    BY VisibleType DEF TypeOK, Operations, View
<1>2. View = VisibleIn(upper, tombDB) /\ TreeShaped(View)
    BY DEF View, TombstonesAgree, TreeInv, StoredView
<1>3. StoreTombstoned(tombDB, row) = tombDB
    BY DEF SameWork, StoreTombstoned
<1>4. row.kind = op.kind /\ row.path = op.path /\ Destination(row) = op.path
      /\ row.kind \in Kinds /\ row.kind \in StagedKinds /\ row.kind \notin LeavingKinds
    BY DEF SameWork, Destination, Kinds, StagedKinds, LeavingKinds, RemovingKinds,
       ReplacingKinds, CreatingKinds
<1> DEFINE copy == Staged(op)
<1>5. op.kind \in CopyingKinds => Exists(View, op.path)
    BY DEF Admitted, CopyingKinds, CreatingKinds, RemovingKinds, StagedKinds, ReplacingKinds
<1>6. Exists(copy, op.path)
    BY <1>1, <1>5, StagedHangs DEF Destination
<1>7. Settled(row)[q] = LET published == IF Under(op.path, q) THEN copy[q] ELSE upper[q]
                        IN  IF published.kind # Nothing THEN published
                            ELSE IF Shows(tombDB, q) THEN Base[q] ELSE Absent
    BY <1>3, <1>4, <1>6, SettledEntry
<1>8. Under(op.path, op.path)
    BY <1>1, UnderReflexive
<1> HIDE DEF copy
<1>9. CASE ~Under(op.path, q)
    <2>1. q # op.path
        BY <1>8, <1>9
    <2>2. Settled(row)[q] = View[q]
        <3>1. VisibleIn(upper, tombDB)[q] = IF Exists(upper, q) THEN upper[q]
                                            ELSE IF Shows(tombDB, q) THEN Base[q] ELSE Absent
            BY VisibleWhen DEF Shows
        <3>2. QED BY <1>2, <1>7, <1>9, <3>1 DEF Exists
    <2>3. Applied(ShapeOf(View), op)[q] = Shape(View[q])
        BY <1>1, <2>1
           DEF Applied, ShapeOf, StagedKinds, CreatingKinds, ReplacingKinds, RemovingKinds
    <2>4. QED BY <2>2, <2>3
<1>10. CASE Under(op.path, q) /\ op.kind \in CreatingKinds
    <2> DEFINE entry == [kind |-> IF op.kind = "mkdir" THEN Dir ELSE Leaf, val |-> op.val, ino |-> op.id]
    <2>1. copy = [EmptyTree EXCEPT ![op.path] = entry]
        BY <1>10 DEF Staged, copy
    <2>2. ~Exists(View, op.path)
        BY <1>10 DEF Admitted, CreatingKinds
    <2>3. CASE q = op.path
        <3>1. copy[q] = entry
            BY <1>1, <2>1, <2>3 DEF EmptyTree
        <3>2. Settled(row)[q] = entry
            BY <1>7, <1>10, <3>1 DEF Dir, Leaf, Nothing
        <3>3. Applied(ShapeOf(View), op)[q]
                  = [kind |-> IF op.kind = "mkdir" THEN Dir ELSE Leaf, val |-> op.val]
            <4>1. CASE op.kind = "mkdir"
                BY <1>1, <2>3, <4>1 DEF Applied, ShapeOf, ReplacingKinds, RemovingKinds
            <4>2. CASE op.kind \in {"create", "symlink"}
                BY <1>1, <2>3, <4>2 DEF Applied, ShapeOf, ReplacingKinds, RemovingKinds
            <4>3. QED BY <1>10, <4>1, <4>2 DEF CreatingKinds
        <3>4. QED BY <3>2, <3>3 DEF Shape
    <2>4. CASE q # op.path
        <3>1. copy[q] = Absent
            BY <1>1, <2>1, <2>4 DEF EmptyTree
        <3>2. ~Exists(View, q)
            BY <1>1, <1>2, <1>10, <2>2, <2>4
               DEF TreeShaped, Beneath, IsDir, Exists, Dir, Nothing
        <3>3. Shape(View[q]) = NoShape /\ Shape(Absent) = NoShape /\ ~Shows(tombDB, q)
            BY <1>2, <3>2, UnseenShape
        <3>4. Settled(row)[q] = Absent
            BY <1>7, <1>10, <3>1, <3>3 DEF Absent
        <3>5. Applied(ShapeOf(View), op)[q] = Shape(View[q])
            BY <1>1, <1>10, <2>4 DEF Applied, ShapeOf, CreatingKinds
        <3>6. QED BY <3>3, <3>4, <3>5
    <2>5. QED BY <2>3, <2>4
<1>11. CASE Under(op.path, q) /\ op.kind \in ReplacingKinds
    <2> DEFINE same == materialize_visible_entry_at(View, op.path, op.path, op.id)
    <2> DEFINE after == ValAfter(op, View[op.path].val)
    <2>1. copy = [same EXCEPT ![op.path].val = after]
        BY <1>11 DEF Staged, copy, ReplacingKinds, CreatingKinds
    <2>2. same \in Trees
        BY <1>1, MaterializeType
    <2>3. Rebase(op.path, op.path, q) = q
        BY <1>1, <1>11, RebaseSame
    <2>4. /\ Exists(View, q) => same[q].kind = View[q].kind /\ same[q].val = View[q].val
          /\ ~Exists(View, q) => same[q] = Absent
        BY <1>1, <1>2, <1>11, <2>3, MaterializeShape
    <2> HIDE DEF same, after
    <2>5. /\ copy[q].kind = same[q].kind
          /\ copy[q].val = IF q = op.path THEN after ELSE same[q].val
          /\ q # op.path => copy[q] = same[q]
        BY <1>1, <2>1, <2>2 DEF Trees, Entries
    <2>6. Applied(ShapeOf(View), op)[q]
              = [kind |-> View[q].kind, val |-> IF q = op.path THEN after ELSE View[q].val]
        <3>0. ShapeOf(View)[op.path].val = View[op.path].val
            BY <1>1 DEF ShapeOf, Shape
        <3>1. Applied(ShapeOf(View), op) = [ShapeOf(View) EXCEPT ![op.path].val = after]
            BY <1>11, <3>0 DEF after, Applied, ReplacingKinds, RemovingKinds
        <3>2. ShapeOf(View)[q] = [kind |-> View[q].kind, val |-> View[q].val]
              /\ ShapeOf(View)[op.path] = [kind |-> View[op.path].kind, val |-> View[op.path].val]
            BY <1>1 DEF ShapeOf, Shape
        <3>3. DOMAIN ShapeOf(View) = Paths
            BY DEF ShapeOf
        <3>4. QED BY <1>1, <3>1, <3>2, <3>3 DEF ShapeOf, Shape
    <2>7. CASE Exists(View, q)
        <3>1. Settled(row)[q] = copy[q]
            BY <1>7, <1>11, <2>4, <2>5, <2>7 DEF Exists
        <3>2. QED BY <2>4, <2>5, <2>6, <2>7, <3>1 DEF Shape
    <2>8. CASE ~Exists(View, q)
        <3>1. q # op.path
            BY <1>6, <2>4, <2>5, <2>8 DEF Exists, Absent
        <3>2. Shape(View[q]) = NoShape /\ Shape(Absent) = NoShape /\ ~Shows(tombDB, q)
            BY <1>2, <2>8, UnseenShape
        <3>3. Settled(row)[q] = Absent
            BY <1>7, <1>11, <2>4, <2>5, <2>8, <3>1, <3>2 DEF Absent
        <3>4. QED BY <2>6, <3>1, <3>2, <3>3 DEF Shape
    <2>9. QED BY <2>7, <2>8
<1>12. QED BY <1>9, <1>10, <1>11 DEF StagedKinds

(* Removing an entry does what the caller asked for. *)
LEMMA SettledRemoval ==
    ASSUME CaseDistinct, TypeOK, TombstonesAgree, mode = "serving", TreeInv,
           op.kind \in RemovingKinds, Admitted(View, op),
           op.add <=> HidesBase(op.path), ~op.drop,
           NEW row, row.id = op.id, SameWork(row, op), NEW q \in Paths
    PROVE  Shape(Settled(row)[q]) = Applied(ShapeOf(View), op)[q]
<1>1. op \in Operations /\ op.path \in Paths /\ tombDB \in SUBSET Paths
    BY DEF TypeOK, Operations
<1>2. View = VisibleIn(upper, tombDB) /\ TreeShaped(View) /\ tombMem = tombDB
    BY DEF View, TombstonesAgree, TreeInv, StoredView
<1> DEFINE after == StoreTombstoned(tombDB, row)
<1>3. after = IF op.add THEN tombDB \cup {op.path} ELSE tombDB
    BY DEF SameWork, StoreTombstoned
<1> HIDE DEF after
<1>4. /\ row.kind \in Kinds /\ row.kind \notin StagedKinds
      /\ row.kind \in LeavingKinds /\ row.path = op.path
    BY DEF SameWork, Kinds, StagedKinds, LeavingKinds, RemovingKinds, ReplacingKinds,
       CreatingKinds
<1>5. /\ Under(op.path, q) => Settled(row)[q] = IF Shows(after, q) THEN Base[q] ELSE Absent
      /\ ~Under(op.path, q) => Settled(row)[q] = IF upper[q].kind # Nothing THEN upper[q]
                                                ELSE IF Shows(after, q) THEN Base[q] ELSE Absent
    BY <1>4, SettledEntry DEF after
<1>6. Under(op.path, op.path)
    BY <1>1, UnderReflexive
<1>7. Applied(ShapeOf(View), op)[q] = IF q = op.path THEN NoShape ELSE Shape(View[q])
    BY <1>1 DEF Applied, ShapeOf, RemovingKinds, ReplacingKinds
<1>8. CASE ~Under(op.path, q)
    <2>1. Shows(after, q) <=> Shows(tombDB, q)
        BY <1>3, <1>8 DEF Shows, base_is_visible
    <2>2. VisibleIn(upper, tombDB)[q] = IF Exists(upper, q) THEN upper[q]
                                        ELSE IF Shows(tombDB, q) THEN Base[q] ELSE Absent
        BY VisibleWhen DEF Shows
    <2>3. QED BY <1>2, <1>5, <1>6, <1>7, <1>8, <2>1, <2>2 DEF Exists
<1>9. CASE Under(op.path, q)
    <2>1. q # op.path => ~Exists(View, q)
        <3>1. ASSUME q # op.path PROVE Beneath(op.path, q)
            BY <1>9, <3>1 DEF Beneath
        <3>2. CASE op.kind = "unlink"
            <4>1. ~IsDir(View, op.path)
                BY <3>2 DEF Admitted, CreatingKinds
            <4>2. QED BY <1>1, <1>2, <3>1, <4>1 DEF TreeShaped
        <3>3. CASE op.kind = "rmdir"
            <4>1. Children(View, op.path) = {}
                BY <3>3 DEF Admitted, CreatingKinds
            <4>2. QED BY <1>1, <1>2, <3>1, <4>1, EmptyBeneath
        <3>4. QED BY <3>2, <3>3 DEF RemovingKinds
    <2>2. ~Shows(after, q)
        <3>1. CASE q = op.path
            <4>1. CASE op.add
                BY <1>3, <1>6, <3>1, <4>1 DEF Shows, base_is_visible
            <4>2. CASE ~op.add
                BY <1>2, <1>3, <3>1, <4>2 DEF Shows, HidesBase
            <4>3. QED BY <4>1, <4>2
        <3>2. CASE q # op.path
            <4>1. ~Shows(tombDB, q)
                BY <1>2, <2>1, <3>2, UnseenShape
            <4>2. QED BY <1>3, <4>1 DEF Shows, base_is_visible
        <3>3. QED BY <3>1, <3>2
    <2>3. Settled(row)[q] = Absent
        BY <1>5, <1>9, <2>2
    <2>4. Shape(Absent) = NoShape
        BY DEF Shape, Absent, NoShape
    <2>5. q # op.path => Shape(View[q]) = NoShape
        BY <1>2, <2>1, UnseenShape
    <2>6. QED BY <1>7, <2>3, <2>4, <2>5
<1>10. QED BY <1>8, <1>9

(* A rename that is admitted has nothing visible beneath its target, so the *)
(* source is not there either.                                              *)
LEMMA RenameTarget ==
    ASSUME NEW tree, TreeShaped(tree), NEW r, r.kind = "rename", r.path \in Paths,
           r.target \in Paths,
           Admitted(tree, r)
    PROVE  /\ r.target # Root /\ r.path # Root /\ Exists(tree, r.path)
           /\ ~Under(r.path, r.target) /\ ~Under(r.target, r.path)
           /\ \A q \in Paths : Beneath(r.target, q) => ~Exists(tree, q)
<1>1. /\ r.target # Root /\ r.path # Root /\ Exists(tree, r.path) /\ ~Under(r.path, r.target)
      /\ Exists(tree, r.target) /\ IsDir(tree, r.target) => Children(tree, r.target) = {}
    BY DEF Admitted, CreatingKinds, RemovingKinds
<1>2. ASSUME NEW q \in Paths, Beneath(r.target, q) PROVE ~Exists(tree, q)
    <2>1. CASE IsDir(tree, r.target)
        BY <1>1, <1>2, <2>1, EmptyBeneath DEF IsDir, Exists, Dir, Nothing
    <2>2. CASE ~IsDir(tree, r.target)
        BY <1>2, <2>2 DEF TreeShaped
    <2>3. QED BY <2>1, <2>2
<1>3. ~Under(r.target, r.path)
    <2>1. r.path # r.target
        BY <1>1, UnderReflexive
    <2>2. QED BY <1>1, <1>2, <2>1 DEF Beneath
<1>4. QED BY <1>1, <1>2, <1>3

(* Moving an entry does what the caller asked for. *)
LEMMA SettledRename ==
    ASSUME CaseDistinct, TypeOK, TombstonesAgree, mode = "serving", TreeInv,
           op.kind = "rename", Admitted(View, op), op.id \in Ids,
           op.add <=> HidesBase(op.path), op.drop, CanStage(op), stage[op.id] = Staged(op),
           \A x \in Paths : Beneath(op.target, x) => ~Exists(Base, x),
           NEW row, row.id = op.id, SameWork(row, op), NEW q \in Paths
    PROVE  Shape(Settled(row)[q]) = Applied(ShapeOf(View), op)[q]
<1>1. /\ op \in Operations /\ op.path \in Paths /\ op.target \in Paths /\ op.id \in Nat
      /\ tombDB \in SUBSET Paths /\ upper \in Trees /\ View \in Trees
    BY VisibleType DEF TypeOK, Operations, View
<1>2. View = VisibleIn(upper, tombDB) /\ TreeShaped(View) /\ tombMem = tombDB
    BY DEF View, TombstonesAgree, TreeInv, StoredView
<1>3. /\ Exists(View, op.path) /\ ~Under(op.path, op.target) /\ ~Under(op.target, op.path)
    BY <1>1, <1>2, RenameTarget
<1> DEFINE after == StoreTombstoned(tombDB, row)
           copy == materialize_visible_entry_at(View, op.path, op.target, op.id)
<1>4. after = {t \in (IF op.add THEN tombDB \cup {op.path} ELSE tombDB) : ~Under(op.target, t)}
    BY RowTombstones DEF Tombstoned
<1>5. stage[op.id] = copy
    BY DEF Staged, CreatingKinds
<1>6. Exists(copy, op.target)
    BY <1>1, <1>3, MaterializeHangs
<1> HIDE DEF after, copy
<1>7. /\ row.kind \in Kinds /\ row.kind \in StagedKinds /\ row.kind \in LeavingKinds
      /\ row.path = op.path /\ Destination(row) = op.target
    BY DEF SameWork, Destination, Kinds, StagedKinds, LeavingKinds
<1>8. /\ Under(op.path, q) => Settled(row)[q] = IF Shows(after, q) THEN Base[q] ELSE Absent
      /\ ~Under(op.path, q) =>
            Settled(row)[q] = LET published == IF Under(op.target, q) THEN copy[q] ELSE upper[q]
                              IN  IF published.kind # Nothing THEN published
                                  ELSE IF Shows(after, q) THEN Base[q] ELSE Absent
    BY <1>5, <1>6, <1>7, SettledEntry DEF after
<1>9. Shape(Absent) = NoShape
    BY DEF Shape, Absent, NoShape
<1>10. Applied(ShapeOf(View), op)[q] =
           IF Under(op.target, q)
           THEN LET from == Rebase(op.target, op.path, q)
                IN  IF from \in Paths THEN Shape(View[from]) ELSE NoShape
           ELSE IF Under(op.path, q) THEN NoShape ELSE Shape(View[q])
    BY DEF Applied, ShapeOf, ReplacingKinds, RemovingKinds
<1>11. CASE Under(op.target, q)
    <2> DEFINE from == Rebase(op.target, op.path, q)
    <2>1. ~Under(op.path, q)
        BY <1>1, <1>3, <1>11, Comparable
    <2>2. /\ from \in Paths /\ Exists(View, from) =>
                copy[q].kind = View[from].kind /\ copy[q].val = View[from].val
          /\ ~(from \in Paths /\ Exists(View, from)) => copy[q] = Absent
        BY <1>1, <1>2, <1>11, MaterializeShape DEF copy
    <2> HIDE DEF from
    <2>3. CASE from \in Paths /\ Exists(View, from)
        <3>1. Settled(row)[q] = copy[q]
            BY <1>8, <1>11, <2>1, <2>2, <2>3 DEF Exists
        <3>2. QED BY <1>10, <1>11, <2>2, <2>3, <3>1 DEF Shape, from
    <2>4. CASE ~(from \in Paths /\ Exists(View, from))
        <3>1. copy[q] = Absent /\ q # op.target
            BY <1>6, <2>2, <2>4 DEF Exists, Absent
        <3>2. ~Shows(after, q)
            BY <1>11, <3>1 DEF Beneath, Shows
        <3>3. Settled(row)[q] = Absent
            BY <1>8, <1>11, <2>1, <3>1, <3>2 DEF Absent
        <3>4. from \in Paths => Shape(View[from]) = NoShape
            BY <1>2, <2>4, UnseenShape
        <3>5. QED BY <1>9, <1>10, <1>11, <3>3, <3>4 DEF from
    <2>5. QED BY <2>3, <2>4
<1>12. CASE ~Under(op.target, q) /\ Under(op.path, q)
    <2>1. ~Shows(after, q)
        <3>1. SUFFICES ASSUME Shows(after, q) PROVE FALSE
            OBVIOUS
        <3>2. base_is_visible(after, q) /\ Exists(Base, q)
            BY <3>1 DEF Shows
        <3>3. Exists(Base, op.path)
            BY <1>1, <1>12, <3>2, BaseAssumption
               DEF TreeShaped, Beneath, IsDir, Exists, Dir, Nothing
        <3>4. ~op.add
            BY <1>3, <1>4, <1>12, <3>2 DEF base_is_visible
        <3>5. PICK t \in tombDB : Under(t, op.path)
            BY <1>2, <3>3, <3>4 DEF HidesBase, base_is_visible
        <3>6. t \in Paths /\ Under(t, q)
            BY <1>1, <1>12, <3>5, UnderTransitive
        <3>7. Under(op.target, t)
            BY <1>4, <3>2, <3>5, <3>6 DEF base_is_visible
        <3>8. QED BY <1>1, <1>3, <3>5, <3>6, <3>7, UnderTransitive
    <2>2. QED BY <1>8, <1>9, <1>10, <1>12, <2>1
<1>13. CASE ~Under(op.target, q) /\ ~Under(op.path, q)
    <2>1. Shows(after, q) <=> Shows(tombDB, q)
        <3>1. ASSUME NEW t \in tombDB, Under(t, q) PROVE t \in after
            BY <1>1, <1>4, <1>13, <3>1, UnderTransitive
        <3>2. ASSUME NEW t \in after, Under(t, q) PROVE t \in tombDB
            BY <1>4, <1>13, <3>2
        <3>3. QED BY <3>1, <3>2 DEF Shows, base_is_visible
    <2>2. VisibleIn(upper, tombDB)[q] = IF Exists(upper, q) THEN upper[q]
                                        ELSE IF Shows(tombDB, q) THEN Base[q] ELSE Absent
        BY VisibleWhen DEF Shows
    <2>3. QED BY <1>2, <1>8, <1>10, <1>13, <2>1, <2>2 DEF Exists
<1>14. QED BY <1>11, <1>12, <1>13

(* Settling the row of an operation that is ready to be published makes      *)
(* visible exactly what the caller asked for.                                *)
LEMMA SettledApplies ==
    ASSUME Ordinary, TypeOK, OperationInv, TombstonesAgree, TargetInv, TreeInv, WorkInv,
           mode = "serving", pc \in {"phase", "publish"}, NEW row, row.id = op.id, SameWork(row, op)
    PROVE  ShapeOf(Settled(row)) = Applied(ShapeOf(View), op)
<1>1. /\ op.kind \in Kinds /\ op.id \in Ids /\ Admitted(View, op)
      /\ op.add <=> op.kind \in LeavingKinds /\ HidesBase(op.path)
      /\ op.drop <=> op.kind = "rename"
      /\ op.kind \in StagedKinds => CanStage(op) /\ stage[op.id] = Staged(op)
    BY DEF OperationInv, WorkInv, BeforeEffect, Unpublished, Published, Steps
<1>2. ASSUME NEW q \in Paths
      PROVE  Shape(Settled(row)[q]) = Applied(ShapeOf(View), op)[q]
    <2>1. CASE op.kind \in RemovingKinds
        BY <1>1, <2>1, SettledRemoval DEF Ordinary, LeavingKinds, RemovingKinds
    <2>2. CASE op.kind = "rename"
        <3>1. op.kind \in StagedKinds /\ op.kind \in LeavingKinds
            BY <2>2 DEF StagedKinds, LeavingKinds
        <3>2. QED BY <1>1, <2>2, <3>1, SettledRename DEF Ordinary, TargetInv
    <2>3. CASE op.kind \in StagedKinds \ {"rename"}
        <3>1. op.kind \notin LeavingKinds
            BY <2>3
               DEF StagedKinds, LeavingKinds, RemovingKinds, CreatingKinds, ReplacingKinds
        <3>2. QED BY <1>1, <2>3, <3>1, SettledInPlace DEF Ordinary
    <2>4. QED BY <1>1, <2>1, <2>2, <2>3 DEF Kinds
<1>3. ShapeOf(Settled(row)) = [q \in Paths |-> Applied(ShapeOf(View), op)[q]]
    BY <1>2 DEF ShapeOf
<1>4. Applied(ShapeOf(View), op) = [q \in Paths |-> Applied(ShapeOf(View), op)[q]]
    BY <1>1 DEF Applied, ShapeOf, Kinds, StagedKinds, RemovingKinds, CreatingKinds,
       ReplacingKinds
<1>5. QED BY <1>3, <1>4

-----------------------------------------------------------------------------
(* Effects of single steps. *)

(* The second phase of a row, and the rows it leaves alone. *)
LEMMA PhaseRows ==
    ASSUME TypeOK, set_recovery_operation_phase
    PROVE  /\ mode = "serving" /\ pc = "phase" /\ mode' = mode /\ op' = op
           /\ UNCHANGED <<upper, stage, tombDB, tombMem, nextId>>
           /\ \/ /\ pc' = IF op.kind \in RemovingKinds THEN "source" ELSE "publish"
                 /\ \A row \in journal' : \E was \in journal :
                       /\ row.id = was.id /\ SameWork(row, was)
                       /\ IF was.id = op.id THEN row.phase = "publishing" ELSE row = was
                 /\ \A was \in journal : \E row \in journal' :
                       /\ row.id = was.id /\ SameWork(row, was)
                       /\ IF was.id = op.id THEN row.phase = "publishing" ELSE row = was
                 /\ journal' = {IF row.id = op.id THEN [row EXCEPT !.phase = "publishing"] ELSE row :
                                 row \in journal}
              \/ /\ pc' = IF op.kind \in RemovingKinds THEN "abandon" ELSE "discard"
                 /\ journal' = journal
<1> DEFINE Moved(row) == IF row.id = op.id THEN [row EXCEPT !.phase = "publishing"] ELSE row
<1>1. ASSUME NEW was \in journal
      PROVE  /\ Moved(was).id = was.id /\ SameWork(Moved(was), was)
             /\ IF was.id = op.id THEN Moved(was).phase = "publishing" ELSE Moved(was) = was
    BY DEF TypeOK, Rows, SameWork
<1>2. /\ mode = "serving" /\ pc = "phase" /\ mode' = mode /\ op' = op
      /\ UNCHANGED <<upper, stage, tombDB, tombMem, nextId>>
    BY DEF set_recovery_operation_phase, At, storage
<1>3. CASE journal' = {Moved(row) : row \in journal}
           /\ pc' = IF op.kind \in RemovingKinds THEN "source" ELSE "publish"
    <2> HIDE DEF Moved
    <2>1. ASSUME NEW row \in journal'
          PROVE  \E was \in journal :
                     /\ row.id = was.id /\ SameWork(row, was)
                     /\ IF was.id = op.id THEN row.phase = "publishing" ELSE row = was
        <3>1. PICK was \in journal : row = Moved(was)
            BY <1>3
        <3>2. QED BY <1>1, <3>1
    <2>2. ASSUME NEW was \in journal
          PROVE  \E row \in journal' :
                     /\ row.id = was.id /\ SameWork(row, was)
                     /\ IF was.id = op.id THEN row.phase = "publishing" ELSE row = was
        BY <1>1, <1>3
    <2>3. QED BY <1>2, <1>3, <2>1, <2>2 DEF Moved
<1>4. CASE journal' = journal /\ pc' = IF op.kind \in RemovingKinds THEN "abandon" ELSE "discard"
    BY <1>2, <1>4
<1>5. QED BY <1>3, <1>4 DEF set_recovery_operation_phase

(* What is stored shows the same as long as neither layer changes. *)
LEMMA SameLayers ==
    ASSUME upper' = upper, tombDB' = tombDB
    PROVE  StoredView' = StoredView /\ (TreeInv => TreeInv')
<1>1. StoredView' = StoredView
    BY DEF StoredView, VisibleIn, base_is_visible, Exists
<1>2. QED BY <1>1 DEF TreeInv, TreeShaped, IsDir, Exists

(* While the Workspace is served, what is stored is what callers see. *)
LEMMA ServedView ==
    ASSUME TombstonesAgree, mode = "serving"
    PROVE  StoredView = View /\ tombMem = tombDB
BY DEF TombstonesAgree, StoredView, View

(* Nothing becomes visible when an operation is finished. *)
LEMMA FinishUncovers ==
    ASSUME Ordinary, TypeOK, SInv, pc = "finish", upper' = upper,
           tombDB' = StoreTombstoned(tombDB, op)
    PROVE  /\ \A p \in Paths : Exists(StoredView', p) => Exists(StoredView, p)
           /\ tombDB' \in SUBSET Paths
<1>1. ASSUME NEW p \in Paths, ~Exists(StoredView, p), Exists(StoredView', p)
      PROVE  FALSE
    <2>1. Exists(VisibleIn(upper, tombDB), p)' <=> Exists(StoredView', p)
        BY DEF StoredView, Exists
    <2>2. Exists(upper', p)
        BY <1>1, <2>1, NothingUncovered DEF Ordinary, StoredView
    <2>3. Exists(StoredView, p)
        BY <2>2, VisibleWhen DEF StoredView
    <2>4. QED BY <1>1, <2>3
<1>2. tombDB' \in SUBSET Paths
    BY DEF TypeOK, StoreTombstoned, Operations
<1>3. QED BY <1>1, <1>2

(* A path at or beneath one that is not the root is not the root. *)
LEMMA NotRoot ==
    ASSUME NEW p \in Paths, p # Root, NEW q \in Paths, Under(p, q)
    PROVE  q # Root
<1>1. p \in Seq(Names) /\ Len(p) \in Nat
    BY PathsAssumption
<1>2. QED BY <1>1 DEF Under, Root

(* Staged leaves stay bare when nothing is added to the stages or to what is visible,  *)
(* and when no row has one.                                                            *)
LEMMA BareShrinks ==
    ASSUME BareInv, \A row \in journal : row.id \in Ids,
           \/ \A row \in journal' : stage'[row.id] = EmptyTree
           \/ /\ \A row \in journal' : \E was \in journal : row.id = was.id
              /\ \A i \in Ids, p \in Paths : stage'[i][p] = stage[i][p] \/ stage'[i][p] = Absent
              /\ \A p \in Paths : Exists(StoredView', p) => Exists(StoredView, p)
    PROVE  BareInv'
<1>1. SUFFICES ASSUME NEW row \in journal', NEW r \in Paths, NEW q \in Paths,
                      Beneath(r, q), stage'[row.id][r].kind = Leaf
               PROVE  ~Exists(StoredView', q) /\ ~Exists(stage'[row.id], q)
    BY DEF BareInv
<1>2. stage'[row.id][r] # Absent /\ stage'[row.id] # EmptyTree
    BY <1>1 DEF Absent, EmptyTree, Leaf, Nothing
<1>3. PICK was \in journal : row.id = was.id
    BY <1>2
<1>4. /\ row.id \in Ids /\ stage[row.id][r].kind = Leaf
      /\ stage'[row.id][q] = stage[row.id][q] \/ stage'[row.id][q] = Absent
    BY <1>1, <1>2, <1>3
<1>5. ~Exists(StoredView, q) /\ ~Exists(stage[row.id], q)
    BY <1>1, <1>3, <1>4 DEF BareInv
<1>6. QED BY <1>2, <1>4, <1>5 DEF Exists, Absent

(* While the Workspace is served, no other row than that of the operation    *)
(* under way has a stage.                                                     *)
LEMMA OthersUnstaged ==
    ASSUME TypeOK, StageInv, LeftInv, mode = "serving", NEW row \in journal
    PROVE  /\ row.id \in Ids
           /\ row.id # op.id => stage[row.id] = EmptyTree
           /\ pc \in {"idle", "parents", "syncparents", "journal"} => stage[row.id] = EmptyTree
           /\ row.kind \in RemovingKinds => row.id \notin left
<1>1. row.id \in Ids /\ 0 \notin Ids
    BY NoOpStage DEF TypeOK, Rows
<1>2. row.id \notin left \/ (pc = "abandon" /\ row.id = op.id /\ row.kind \in StagedKinds)
    BY DEF LeftInv
<1>3. QED BY <1>1, <1>2
             DEF StageInv, OnlyOwnStage, StagedKinds, RemovingKinds, ReplacingKinds, CreatingKinds

(* Nor has the row of an operation that begins.                               *)
LEMMA BegunUnstaged ==
    ASSUME TypeOK, OperationInv, StageInv, LeftInv, begin_recovery_operation
    PROVE  \A row \in journal' : stage'[row.id] = EmptyTree
<1>1. mode = "serving" /\ pc = "journal" /\ stage' = stage
    BY DEF begin_recovery_operation, At, storage
<1>2. nextId \in Ids /\ nextId \notin left /\ op.id = 0 /\ nextId # 0
    BY <1>1, BoundsAssumption, NoOpStage DEF OperationInv, StageInv, OnlyOwnStage, TypeOK, Ids
<1>3. \A row \in journal : stage[row.id] = EmptyTree
    BY <1>1, OthersUnstaged
<1>4. \A row \in journal' : row \in journal \/ row.id = nextId
    BY BeginEffect
<1>5. QED BY <1>1, <1>2, <1>3, <1>4 DEF StageInv, OnlyOwnStage

(* Nothing is visible beneath a leaf that prepare_stage stages, nor staged.            *)
LEMMA StagedBare ==
    ASSUME TypeOK, TreeShaped(View), op.kind \in StagedKinds, op.id \in Nat, Admitted(View,
           op),
           NEW r \in Paths, NEW q \in Paths, Beneath(r, q), Staged(op)[r].kind = Leaf
    PROVE  ~Exists(View, q) /\ ~Exists(Staged(op), q)
<1>1. /\ op.path \in Paths /\ op.target \in Paths /\ View \in Trees
      /\ r # q /\ Under(r, q)
    BY VisibleType DEF TypeOK, Operations, View, Beneath
<1>2. Leaf # Nothing /\ Leaf # Dir /\ Absent.kind = Nothing
    BY DEF Leaf, Nothing, Absent, Dir
<1>3. \A a, b \in Paths : Beneath(a, b) /\ ~IsDir(View, a) => ~Exists(View, b)
    BY DEF TreeShaped
<1>4. CASE op.kind \in CreatingKinds
    <2>1. ~Exists(View, op.path)
        BY <1>4 DEF Admitted, CreatingKinds
    <2>2. \A p \in Paths : p # op.path => Staged(op)[p] = Absent
        BY <1>1, <1>4 DEF Staged, EmptyTree
    <2>3. r = op.path
        BY <1>2, <2>2
    <2>4. ~IsDir(View, r)
        BY <2>1, <2>3 DEF IsDir, Exists, Dir, Nothing
    <2>5. QED BY <1>1, <1>2, <1>3, <2>2, <2>3, <2>4 DEF Exists
<1>5. CASE op.kind \in ReplacingKinds
    <2> DEFINE copy == materialize_visible_entry_at(View, op.path, op.path, op.id)
    <2>1. copy \in Trees
        BY <1>1, MaterializeType
    <2>2. Staged(op) = [copy EXCEPT ![op.path].val = ValAfter(op, View[op.path].val)]
        BY <1>5 DEF Staged, ReplacingKinds, CreatingKinds
    <2>3. \A p \in Paths : ~Under(op.path, p) => copy[p] = Absent
        BY DEF materialize_visible_entry_at
    <2>4. ASSUME NEW p \in Paths, Under(op.path, p)
          PROVE  copy[p].kind = IF Exists(View, p) THEN View[p].kind ELSE Nothing
        <3>1. Rebase(op.path, op.path, p) = p
            BY <1>1, <2>4, RebaseSame
        <3>2. /\ Exists(View, p) => copy[p].kind = View[p].kind
              /\ ~Exists(View, p) => copy[p] = Absent
            BY <1>1, <2>4, <3>1, MaterializeShape
        <3>3. QED BY <1>2, <3>2
    <2> HIDE DEF copy
    <2>5. \A p \in Paths : Staged(op)[p].kind = copy[p].kind
        BY <1>1, <2>1, <2>2 DEF Trees, Entries
    <2>6. Under(op.path, r) /\ View[r].kind = Leaf
        BY <1>2, <2>3, <2>4, <2>5
    <2>7. ~Exists(View, q)
        BY <1>2, <1>3, <2>6 DEF IsDir
    <2>8. QED BY <1>2, <2>3, <2>4, <2>5, <2>7 DEF Exists
<1>6. CASE op.kind = "rename"
    <2>1. Staged(op) = materialize_visible_entry_at(View, op.path, op.target, op.id)
        BY <1>6 DEF Staged, CreatingKinds
    <2>2. \A p \in Paths : ~Under(op.target, p) => Staged(op)[p] = Absent
        BY <2>1 DEF materialize_visible_entry_at
    <2>3. Under(op.target, r)
        BY <1>2, <2>2
    <2>4. Beneath(op.target, q) /\ Under(op.target, q)
        BY <1>1, <2>3, BeneathTransitive DEF Beneath
    <2>5. ~Exists(View, q)
        BY <1>1, <1>6, <2>4, RenameTarget
    <2> DEFINE s == Rebase(op.target, op.path, r)
               t == Rebase(op.target, op.path, q)
    <2>6. /\ s \in Paths /\ Exists(View, s) => Staged(op)[r].kind = View[s].kind
          /\ ~(s \in Paths /\ Exists(View, s)) => Staged(op)[r] = Absent
        BY <1>1, <2>1, <2>3, MaterializeShape
    <2>7. ~(t \in Paths /\ Exists(View, t)) => Staged(op)[q] = Absent
        BY <1>1, <2>1, <2>4, MaterializeShape
    <2>8. ASSUME t \in Paths, Exists(View, t) PROVE FALSE
        <3>1. s \in Paths /\ Under(s, t) /\ s # t
            BY ONLY <1>1, <2>3, <2>8, RebaseUnder
        <3>2. View[s].kind = Leaf
            BY <1>2, <2>6
        <3>3. QED BY <1>2, <1>3, <2>8, <3>1, <3>2 DEF Beneath, IsDir
    <2>9. QED BY <1>2, <2>5, <2>7, <2>8 DEF Exists
<1>7. QED BY <1>4, <1>5, <1>6 DEF StagedKinds

(* Stages stay with their rows when stages and rows only go, or change phase.          *)
LEMMA HangKept ==
    ASSUME HangInv, \A row \in journal : row.id \in Ids,
           \A row \in journal' : row.id \in Ids,
           \A i \in Ids : stage'[i] = stage[i] \/ stage'[i] = EmptyTree,
           \A row \in journal' : \E was \in journal : row.id = was.id /\ SameWork(row, was)
    PROVE  HangInv'
<1>1. \A a, b \in journal' :
          stage'[a.id] # EmptyTree /\ stage'[b.id] # EmptyTree => a.id = b.id
    <2>1. SUFFICES ASSUME NEW a \in journal', NEW b \in journal',
                          stage'[a.id] # EmptyTree, stage'[b.id] # EmptyTree
                   PROVE  a.id = b.id
        OBVIOUS
    <2>2. PICK c \in journal : a.id = c.id
        OBVIOUS
    <2>3. PICK d \in journal : b.id = d.id
        OBVIOUS
    <2>4. stage[c.id] # EmptyTree /\ stage[d.id] # EmptyTree
        BY <2>1, <2>2, <2>3
    <2>5. QED BY <2>2, <2>3, <2>4 DEF HangInv
<1>2. ASSUME NEW row \in journal' PROVE Hanging(stage'[row.id], Destination(row))
    <2>1. PICK was \in journal : row.id = was.id /\ SameWork(row, was)
        OBVIOUS
    <2>2. Destination(row) = Destination(was) /\ Hanging(stage[was.id], Destination(was))
        BY <2>1 DEF SameWork, Destination, HangInv
    <2>3. QED BY <1>2, <2>1, <2>2, HangingEmpty
<1>3. QED BY <1>1, <1>2 DEF HangInv

(* The row of the operation under way, and only that one, names its stage.             *)
LEMMA OwnRow ==
    ASSUME RowInv, pc \notin {"idle", "parents", "syncparents", "journal"}
    PROVE  /\ \E row \in journal : row.id = op.id
           /\ \A row \in journal : row.id = op.id =>
                 /\ SameWork(row, op) /\ Destination(row) = Destination(op)
                 /\ pc \in {"prepare", "flush", "phase"} => row.phase = "prepared"
                 /\ pc \in Published \cup {"publish"} => row.phase = "publishing"
                 /\ pc = "discard" /\ mode = "recovering" => row.phase = "prepared"
<1>1. PICK own \in journal :
             /\ own.id = op.id /\ SameWork(own, op)
             /\ pc \in {"prepare", "flush", "phase"} => own.phase = "prepared"
             /\ pc \in Published \cup {"publish"} => own.phase = "publishing"
             /\ pc = "discard" /\ mode = "recovering" => own.phase = "prepared"
    BY DEF RowInv
<1>2. \A row \in journal : row.id = op.id => row = own
    BY <1>1 DEF RowInv
<1>3. Destination(own) = Destination(op)
    BY <1>1 DEF SameWork, Destination
<1>4. QED BY <1>1, <1>2, <1>3

(* They stay so when one entry of a stage is removed.                                  *)
LEMMA HangLess ==
    ASSUME TypeOK, RowInv, HangInv, pc = "discard", op.id \in Ids, journal' = journal,
           NEW q \in RemovableLeaf(stage[op.id], Destination(op)),
           stage' = [stage EXCEPT ![op.id][q] = Absent]
    PROVE  HangInv'
<1>1. /\ stage[op.id] \in Trees /\ q \in Paths /\ Exists(stage[op.id], q)
      /\ stage' = [stage EXCEPT ![op.id] = [stage[op.id] EXCEPT ![q] = Absent]]
      /\ stage \in [Ids -> Trees] /\ Destination(op) \in Paths
    BY DEF TypeOK, RemovableLeaf, Destination, Operations
<1>2. stage[op.id] # EmptyTree
    BY <1>1 DEF EmptyTree, Absent, Exists
<1>3. /\ \A i \in Ids : i # op.id => stage'[i] = stage[i]
      /\ stage'[op.id] = [stage[op.id] EXCEPT ![q] = Absent]
    BY <1>1
<1>4. \A a, b \in journal :
          stage'[a.id] # EmptyTree /\ stage'[b.id] # EmptyTree => a.id = b.id
    <2>1. \A row \in journal : row.id \in Ids
        BY DEF TypeOK, Rows
    <2>2. \A row \in journal : stage'[row.id] # EmptyTree => stage[row.id] # EmptyTree
        BY <1>2, <1>3, <2>1
    <2>3. QED BY <2>2 DEF HangInv
<1>5. ASSUME NEW row \in journal' PROVE Hanging(stage'[row.id], Destination(row))
    <2>0. row.id \in Ids
        BY <1>5 DEF TypeOK, Rows
    <2>1. CASE row.id # op.id
        BY <1>3, <1>5, <2>0, <2>1 DEF HangInv
    <2>2. CASE row.id = op.id
        <3>1. Destination(row) = Destination(op)
            BY <1>5, <2>2, OwnRow
        <3>2. Hanging(stage[op.id], Destination(op))
            BY <1>5, <2>2, <3>1 DEF HangInv
        <3>3. QED BY <1>1, <1>3, <2>2, <3>1, <3>2, HangingRemoval
    <2>3. QED BY <2>1, <2>2
<1>6. QED BY <1>4, <1>5 DEF HangInv

(* Between two mutations the operation under way demands nothing.                      *)
LEMMA WorkIdle ==
    ASSUME mode' # "serving" \/ pc' = "idle"
    PROVE  WorkInv'
BY DEF WorkInv, BeforeEffect, Unpublished, Steps

(* A request and the operation made of it are admitted alike.                          *)
LEMMA AdmittedSame ==
    ASSUME NEW tree, NEW a, NEW b, a.kind = b.kind, a.path = b.path, a.target = b.target
    PROVE  Admitted(tree, a) <=> Admitted(tree, b)
BY DEF Admitted

(* A step that leaves the layers and the operation alone leaves the next one what it   *)
(* relies on.                                                                          *)
LEMMA WorkKept ==
    ASSUME WorkInv, mode = "serving", pc \in Steps \ {"parents", "syncparents", "journal"},
           pc' \notin {"parents", "syncparents", "journal"},
           upper' = upper, tombMem' = tombMem, op' = op,
           pc' \in {"flush", "phase", "publish"} => stage'[op.id] = stage[op.id],
           BeforeEffect' => BeforeEffect,
           pc' \in {"prepare", "flush", "phase", "publish"} /\ op.kind \in StagedKinds =>
               pc \in {"prepare", "flush", "phase", "publish"},
           pc' \in {"flush", "phase", "publish"} /\ op.kind \in StagedKinds =>
               pc \in {"flush", "phase", "publish"}
    PROVE  WorkInv'
<1>1. View' = View
    BY DEF View
<1>2. HidesBase(op.path)' <=> HidesBase(op.path)
    BY DEF HidesBase
<1>3. Admitted(View, op)' <=> Admitted(View, op)
    BY <1>1 DEF Admitted
<1>4. ParentsMade(op)' <=> ParentsMade(op)
    BY DEF ParentsMade, Destination
<1>5. (CanStage(op)' <=> CanStage(op)) /\ Staged(op)' = Staged(op)
    BY <1>1 DEF CanStage, Staged, Destination
<1>6. QED BY <1>2, <1>3, <1>4, <1>5 DEF WorkInv

(* After the effect only the tombstones to come are relied on.                         *)
LEMMA WorkLate ==
    ASSUME WorkInv, mode = "serving", pc \in Steps \ {"parents", "syncparents", "journal"},
           pc' \in Published,
           pc' = "source" => op.kind \notin RemovingKinds, tombMem' = tombMem, op' = op
    PROVE  WorkInv'
<1>1. HidesBase(op.path)' <=> HidesBase(op.path)
    BY DEF HidesBase
<1>2. ~BeforeEffect'
    BY DEF BeforeEffect, Unpublished, Published
<1>3. QED BY <1>1, <1>2 DEF WorkInv, Published

(* Only the entry itself is left to remove beneath what unlink and rmdir admit.        *)
LEMMA RemovesOne ==
    ASSUME TypeOK, TombstonesAgree, TreeInv, mode = "serving", op.kind \in RemovingKinds,
           Admitted(View, op), NEW q \in RemovableLeaf(upper, op.path)
    PROVE  q = op.path
<1>1. /\ q \in Paths /\ Under(op.path, q) /\ Exists(upper, q) /\ op.path \in Paths
      /\ TreeShaped(View)
    BY ServedView DEF TypeOK, Operations, RemovableLeaf, TreeInv
<1>2. Exists(View, q)
    BY <1>1, VisibleWhen DEF View
<1>3. SUFFICES ASSUME Beneath(op.path, q) PROVE FALSE
    BY <1>1 DEF Beneath
<1>4. CASE op.kind = "unlink"
    <2>1. ~IsDir(View, op.path)
        BY <1>4 DEF Admitted, CreatingKinds
    <2>2. QED BY <1>1, <1>2, <1>3, <2>1 DEF TreeShaped
<1>5. CASE op.kind = "rmdir"
    <2>1. Children(View, op.path) = {}
        BY <1>5 DEF Admitted, CreatingKinds
    <2>2. QED BY <1>1, <1>2, <1>3, <2>1, EmptyBeneath
<1>6. QED BY <1>4, <1>5 DEF RemovingKinds

(* An idle engine has no mutation under way.                                           *)
LEMMA RunningIdle ==
    ASSUME result' # "running", mode' # "serving" \/ pc' = "idle"
    PROVE  RunningInv'
BY DEF RunningInv

(* What a completed mutation makes visible depends on its request only.                *)
LEMMA AppliedSame ==
    ASSUME NEW tree, NEW a, NEW b, a.kind = b.kind, a.path = b.path, a.target = b.target,
           a.val = b.val
    PROVE  Applied(tree, a) = Applied(tree, b)
BY DEF Applied, ValAfter

(* A step that changes neither layers nor journal keeps the account of the mutation.   *)
LEMMA RunningKept ==
    ASSUME RunningInv, UNCHANGED <<upper, tombDB, tombMem, journal, op>>,
           UNCHANGED history \/ UNCHANGED <<old, new, result, clean>>,
           BeforeEffect' => BeforeEffect,
           CrashCompletes' => CrashCompletes /\ stage' = stage,
           mode' = mode, pc' = "idle" <=> pc = "idle"
    PROVE  RunningInv'
<1>1. result' = result /\ clean' = clean /\ old' = old /\ new' = new /\ op' = op
    BY DEF history
<1>2. PublishingRows' = PublishingRows /\ View' = View
    BY DEF PublishingRows, View
<1>3. stage' = stage => \A row : Settled(row)' = Settled(row)
    BY DEF Settled
<1>4. QED BY <1>1, <1>2, <1>3 DEF RunningInv

(* The rename of the staged entry does not change what settling its row gives.         *)
LEMMA SettledPublished ==
    ASSUME TypeOK, op.id \in Ids, op.kind \in StagedKinds, Exists(stage[op.id],
           Destination(op)),
           upper' = Overlay(upper, stage[op.id], Destination(op)),
           stage' = [stage EXCEPT ![op.id] = EmptyTree], tombDB' = tombDB,
           NEW row, row.id = op.id, SameWork(row, op)
    PROVE  Settled(row)' = Settled(row)
<1>1. /\ stage'[row.id] = EmptyTree /\ Destination(row) = Destination(op) /\ row.kind \in StagedKinds
      /\ Destination(row) \in Paths
    BY DEF TypeOK, SameWork, Destination, Operations
<1>2. ~Exists(stage'[row.id], Destination(row))
    BY <1>1 DEF EmptyTree, Absent, Exists
<1>3. StoreTombstoned(tombDB, row)' = StoreTombstoned(tombDB, row)
    BY DEF StoreTombstoned
<1>4. QED BY <1>1, <1>2, <1>3 DEF Settled

(* Nor does removing an entry that settling the row removes.                           *)
LEMMA SettledLess ==
    ASSUME upper \in Trees, NEW row, row.kind \in LeavingKinds,
           row.kind \in StagedKinds => ~Exists(stage[row.id], Destination(row)),
           NEW q \in Paths, Under(row.path, q), upper' = [upper EXCEPT ![q] = Absent],
           stage' = stage, tombDB' = tombDB
    PROVE  Settled(row)' = Settled(row)
<1>1. row.kind \notin StagedKinds \ {"rename"}
    BY DEF LeavingKinds, RemovingKinds, StagedKinds, CreatingKinds, ReplacingKinds
<1>2. ~Exists(stage'[row.id], Destination(row)) \/ row.kind \notin StagedKinds
    OBVIOUS
<1>3. StoreTombstoned(tombDB, row)' = StoreTombstoned(tombDB, row)
    BY DEF StoreTombstoned
<1>4. [p \in Paths |-> IF Under(row.path, p) THEN Absent ELSE upper'[p]]
        = [p \in Paths |-> IF Under(row.path, p) THEN Absent ELSE upper[p]]
    BY DEF Trees
<1>5. Settled(row) = VisibleIn([p \in Paths |-> IF Under(row.path, p) THEN Absent ELSE upper[p]],
                               StoreTombstoned(tombDB, row))
    BY <1>1 DEF Settled
<1>6. Settled(row)' = VisibleIn([p \in Paths |-> IF Under(row.path, p) THEN Absent ELSE upper'[p]],
                                StoreTombstoned(tombDB, row)')
    BY <1>1, <1>2 DEF Settled
<1>7. QED BY <1>3, <1>4, <1>5, <1>6

(* A mutation that goes on has no outcome yet.                                         *)
LEMMA OutcomeRunning ==
    ASSUME result' = "running"
    PROVE  OutcomeInv'
BY DEF OutcomeInv

(* The outcome stands while layers and published rows do.                              *)
LEMMA OutcomeKept ==
    ASSUME OutcomeInv, UNCHANGED <<upper, tombDB, old, new, result, clean>>,
           PublishingRows' = PublishingRows,
           \A row \in PublishingRows : stage'[row.id] = stage[row.id],
           mode' = "serving" => journal' = {} \/ (mode = "serving" /\ journal' = journal)
    PROVE  OutcomeInv'
<1>1. StoredView' = StoredView /\ ShapeOf(StoredView)' = ShapeOf(StoredView)
    BY DEF StoredView, ShapeOf
<1>2. ASSUME NEW row \in PublishingRows
      PROVE  /\ ShapeOf(Settled(row))' = ShapeOf(Settled(row))
             /\ Exists(stage[row.id], Destination(row))' <=> Exists(stage[row.id], Destination(row))
             /\ ParentsMade(row)' <=> ParentsMade(row)
    <2>1. Settled(row)' = Settled(row)
        BY <1>2 DEF Settled
    <2>2. QED BY <1>2, <2>1 DEF ShapeOf, Exists, ParentsMade
<1>3. QED BY <1>1, <1>2 DEF OutcomeInv

(* An error reported before the publication: nothing has changed.                      *)
LEMMA ErrorOutcome ==
    ASSUME TombstonesAgree, RunningInv, mode = "serving", pc # "idle", BeforeEffect,
           UNCHANGED <<upper, tombDB, old, new, clean>>, result' = "error",
           clean /\ "abandon" \notin FaultPoints => PublishingRows' = {}
    PROVE  OutcomeInv'
<1>1. ShapeOf(StoredView)' = ShapeOf(StoredView)
    BY DEF StoredView, ShapeOf
<1>2. clean => ShapeOf(StoredView) = old
    BY ServedView DEF RunningInv
<1>3. QED BY <1>1, <1>2 DEF OutcomeInv

(* What a crash or a late error leaves to recovery.                                    *)
LEMMA LeftToRecovery ==
    ASSUME TypeOK, StageInv, LeftInv, RowInv, WorkInv, RunningInv, mode = "serving", clean,
           CrashCompletes, NEW row \in PublishingRows
    PROVE  /\ PublishingRows = {row} /\ ShapeOf(Settled(row)) = new
           /\ Exists(stage[row.id], Destination(row)) => ParentsMade(row)
<1>1. result = "running" /\ pc \in Published \cup {"publish", "abandon"}
    BY DEF RunningInv, CrashCompletes, Published
<1>2. row \in journal /\ row.id = op.id /\ ShapeOf(Settled(row)) = new
    BY <1>1 DEF RunningInv, PublishingRows
<1>3. PublishingRows = {row}
    BY <1>1, <1>2 DEF RunningInv, RowInv, PublishingRows
<1>4. Destination(row) = Destination(op) /\ Destination(op) \in Paths
    BY <1>1, <1>2, OwnRow DEF Published, Destination, TypeOK, Operations
<1>5. CASE pc = "publish"
    BY <1>2, <1>3, <1>4, <1>5 DEF StageInv, OnlyOwnStage, WorkInv, ParentsMade
<1>6. CASE pc # "publish"
    <2>0. row.kind = op.kind
        BY <1>1, <1>2, OwnRow DEF Published, SameWork
    <2>1. stage[op.id] = EmptyTree
        BY <1>1, <1>2, <1>6, <2>0, OthersUnstaged
           DEF StageInv, OnlyOwnStage, CrashCompletes, Published
    <2>2. ~Exists(stage[row.id], Destination(row))
        BY <1>2, <1>4, <2>1 DEF EmptyTree, Absent, Exists
    <2>3. QED BY <1>2, <1>3, <2>2
<1>7. QED BY <1>2, <1>3, <1>5, <1>6

(* An error reported after the publication: a restart settles the row.                 *)
LEMMA LateOutcome ==
    ASSUME TypeOK, StageInv, LeftInv, RowInv, WorkInv, RunningInv, mode = "serving",
           pc \in Published,
           UNCHANGED <<upper, stage, tombDB, journal, old, new, clean>>, result' = "late"
    PROVE  OutcomeInv'
<1>1. PublishingRows' = PublishingRows
    BY DEF PublishingRows
<1>2. PublishingRows # {}
    BY OwnRow DEF Published, PublishingRows
<1>3. ASSUME NEW row \in PublishingRows, clean
      PROVE  /\ PublishingRows = {row} /\ ShapeOf(Settled(row))' = new
             /\ Exists(stage[row.id], Destination(row))' => ParentsMade(row)'
    <2>1. /\ PublishingRows = {row} /\ ShapeOf(Settled(row)) = new
          /\ Exists(stage[row.id], Destination(row)) => ParentsMade(row)
        BY <1>3, LeftToRecovery DEF CrashCompletes
    <2>2. Settled(row)' = Settled(row)
        BY DEF Settled
    <2>3. QED BY <2>1, <2>2 DEF ShapeOf, Exists, ParentsMade
<1>4. QED BY <1>1, <1>2, <1>3 DEF OutcomeInv

(* The last step of an operation makes visible what settling its row gives.            *)
LEMMA FinishSettles ==
    ASSUME TypeOK, TreeInv, ProgressInv, pc = "finish", op.kind \in Kinds, upper' = upper,
           tombDB' = StoreTombstoned(tombDB, op),
           NEW row, row.id = op.id, SameWork(row, op)
    PROVE  ShapeOf(StoredView)' = ShapeOf(Settled(row))
<1>1. /\ row.kind = op.kind /\ row.path = op.path /\ Destination(row) = Destination(op)
      /\ op.path \in Paths
    BY DEF SameWork, Destination, TypeOK, Operations
<1>2. StoreTombstoned(tombDB, row) = tombDB'
    BY DEF SameWork, StoreTombstoned
<1>3. row.kind \in StagedKinds => ~Exists(stage[row.id], Destination(row))
    BY <1>1 DEF ProgressInv, Published
<1>4. ASSUME NEW q \in Paths, row.kind \in LeavingKinds, Under(row.path, q)
      PROVE  ~Exists(upper, q)
    <2>1. ~Exists(upper, row.path) /\ ~IsDir(upper, row.path)
        BY <1>1, <1>4 DEF ProgressInv, Exists, IsDir, Dir, Nothing
    <2>2. QED BY <1>1, <1>4, <2>1 DEF TreeInv, TreeShaped, Beneath
<1>5. ASSUME NEW q \in Paths
      PROVE  VisibleIn(upper, tombDB')[q] = Settled(row)[q]
    <2>1. VisibleIn(upper, tombDB')[q] = IF Exists(upper, q) THEN upper[q]
                                         ELSE IF Shows(tombDB', q) THEN Base[q] ELSE Absent
        BY VisibleWhen DEF VisibleIn, Shows
    <2>2. /\ row.kind \in LeavingKinds /\ Under(row.path, q) =>
                Settled(row)[q] = IF Shows(tombDB', q) THEN Base[q] ELSE Absent
          /\ ~(row.kind \in LeavingKinds /\ Under(row.path, q)) =>
                Settled(row)[q] = IF upper[q].kind # Nothing THEN upper[q]
                                  ELSE IF Shows(tombDB', q) THEN Base[q] ELSE Absent
        BY <1>1, <1>2, <1>3, SettledEntry
    <2>3. QED BY <1>4, <2>1, <2>2 DEF Exists
<1>6. StoredView' = VisibleIn(upper, tombDB')
    BY DEF StoredView
<1>7. ShapeOf(StoredView)' = ShapeOf(VisibleIn(upper, tombDB'))
    BY <1>6 DEF ShapeOf
<1>8. QED BY <1>5, <1>7 DEF ShapeOf

(* Once its parents are there, recovery makes none.                                    *)
LEMMA NoneMade ==
    ASSUME upper \in Trees, NEW to \in Paths,
           \A a \in Paths : Beneath(a, to) => IsDir(upper, a)
    PROVE  WithParents(upper, to) = upper
BY DEF WithParents, Trees, IsDir, Exists, Dir, Nothing

(* The row that recovery settles tells the outcome it settles.                         *)
LEMMA RecoveredOutcome ==
    ASSUME RowInv, OutcomeInv, mode = "recovering", result # "running", clean,
           pc \in Published \cup {"publish"}
    PROVE  \/ result = "torn" \/ (result = "error" /\ "abandon" \in FaultPoints)
           \/ result \notin {"ok", "error", "late", "crashed"}
           \/ /\ result \in {"late", "crashed"}
              /\ \E row \in journal : /\ row.id = op.id /\ SameWork(row, op)
                                      /\ PublishingRows = {row} /\ ShapeOf(Settled(row)) = new
                                      /\ Exists(stage[row.id], Destination(row)) => ParentsMade(row)
<1>1. PICK row \in journal : row.id = op.id
    BY OwnRow DEF Published
<1>2. SameWork(row, op) /\ row \in PublishingRows
    BY <1>1, OwnRow DEF Published, PublishingRows
<1>3. QED BY <1>1, <1>2 DEF OutcomeInv

-----------------------------------------------------------------------------
(* Every step keeps the invariant. *)

(* Every step keeps the rows apart and the one of the operation under way. *)
LEMMA RowStep ==
    ASSUME TypeOK, OperationInv, StageInv, RowInv, [Next]_vars
    PROVE  RowInv'
<1> USE NoOpFields DEF RowInv, SameWork, At, Recovering, storage, metadata, Published
<1>1. ASSUME NEW dir \in Paths, ReadDir(dir)
      PROVE  RowInv'
    BY <1>1 DEF ReadDir
<1>2. ASSUME NEW r \in Requests, BeginMutation(r)
      PROVE  RowInv'
    BY <1>2 DEF BeginMutation
<1>3. CASE create_missing_upper_parent_directories
    BY <1>3 DEF create_missing_upper_parent_directories, Reply
<1>3s. CASE sync_copied_directory
    BY <1>3s DEF sync_copied_directory, Reply
<1>4. CASE begin_recovery_operation
    <2>1. nextId \in Nat /\ \A row \in journal : row.id \in Nat
        BY BoundsAssumption DEF TypeOK, Rows, Ids
    <2>2. CASE op' = NoOp /\ pc' = "idle" /\ journal' = journal
        <3>1. nextId' \in {nextId, nextId + 1}
            BY <1>4 DEF begin_recovery_operation
        <3>2. QED BY <2>1, <2>2, <3>1
    <2>3. CASE /\ \E row : /\ journal' = journal \cup {row} /\ SameWork(row, op')
                           /\ row.id = nextId /\ row.phase = "prepared"
               /\ op'.id = nextId /\ nextId' = nextId + 1
               /\ pc' = IF op.kind \in RemovingKinds THEN "phase" ELSE "prepare"
        <3>1. PICK row : /\ journal' = journal \cup {row} /\ SameWork(row, op')
                         /\ row.id = nextId /\ row.phase = "prepared"
            BY <2>3
        <3>2. \A a, b \in journal' : a.id = b.id => a = b
            BY <2>1, <3>1
        <3>3. \A a \in journal' : a.id < nextId'
            BY <2>1, <2>3, <3>1
        <3>4. row \in journal' /\ row.id = op'.id /\ pc' \in {"phase", "prepare"}
            BY <2>3, <3>1
        <3>5. QED BY <3>1, <3>2, <3>3, <3>4
    <2>4. QED BY <1>4, <2>2, <2>3, BeginEffect
<1>5. CASE prepare_stage
    BY <1>5 DEF prepare_stage
<1>6. CASE flush_stage
    BY <1>6 DEF flush_stage
<1>7. CASE set_recovery_operation_phase
    BY <1>7, PhaseRows
<1>8. CASE publish_staged_operation
    BY <1>8 DEF publish_staged_operation
<1>9. CASE sync_destination
    BY <1>9 DEF sync_destination, Reply
<1>10. CASE remove_upper_source
    BY <1>10 DEF remove_upper_source, Reply
<1>11. CASE sync_source
    BY <1>11 DEF sync_source, Reply
<1>12. CASE finish_recovery_operation
    BY <1>12 DEF finish_recovery_operation, Reply
<1>13. CASE discard_stage
    BY <1>13 DEF discard_stage
<1>14. CASE abandon_recovery_operation
    BY <1>14 DEF abandon_recovery_operation, Reply
<1>15. CASE Crash
    BY <1>15 DEF Crash
<1>16. CASE Restart
    BY <1>16 DEF Restart
<1>17. CASE recover_next_operation
    <2>1. CASE op' = NoOp /\ pc' = "idle" /\ mode' = "refused"
        BY <1>17, <2>1, RecoverEffect
    <2>2. CASE /\ mode' = "recovering"
               /\ \E row \in journal :
                     /\ SameWork(op', row) /\ op'.id = row.id /\ row.path # Root
                     /\ pc' = IF row.phase = "prepared" THEN "discard"
                              ELSE IF row.kind \in RemovingKinds THEN "source" ELSE "publish"
        <3>1. PICK row \in journal :
                  /\ SameWork(op', row) /\ op'.id = row.id
                  /\ pc' = IF row.phase = "prepared" THEN "discard"
                           ELSE IF row.kind \in RemovingKinds THEN "source" ELSE "publish"
            BY <2>2
        <3>2. row.phase \in {"prepared", "publishing"}
            BY DEF TypeOK, Rows
        <3>3. journal' = journal /\ nextId' = nextId
            BY <1>17, RecoverEffect
        <3>4. QED BY <3>1, <3>2, <3>3
    <2>3. QED BY <1>17, <2>1, <2>2, RecoverEffect
<1>18. CASE recover_rollback
    BY <1>18 DEF recover_rollback
<1>19. CASE publish_staged_entry
    BY <1>19 DEF publish_staged_entry, Refuse
<1>20. CASE recover_sync
    BY <1>20 DEF recover_sync
<1>21. CASE remove_upper_entry
    BY <1>21 DEF remove_upper_entry, Refuse
<1>22. CASE recover_sync_source
    BY <1>22 DEF recover_sync_source
<1>23. CASE recover_finish
    BY <1>23 DEF recover_finish
<1>24. CASE recover_error
    BY <1>24 DEF recover_error, Refuse
<1>25. CASE open_workspace
    BY <1>25 DEF open_workspace
<1>26. CASE UNCHANGED vars
    BY <1>26 DEF vars
<1>27. QED
    BY <1>1, <1>2, <1>3, <1>3s, <1>4, <1>5, <1>6, <1>7, <1>8, <1>9, <1>10, <1>11, <1>12, <1>13,
       <1>14, <1>15, <1>16, <1>17, <1>18, <1>19, <1>20, <1>21, <1>22, <1>23, <1>24, <1>25, <1>26
       DEF Next, Mutation, recover_interrupted_operations

(* Every step keeps what the progress of an operation implies. *)
LEMMA ProgressStep ==
    ASSUME TypeOK, OperationInv, RowInv, StageInv, ProgressInv, [Next]_vars
    PROVE  ProgressInv'
<1> USE NoOpFields DEF ProgressInv, At, Recovering, storage, metadata, Published, LeavingKinds
<1>1. ASSUME NEW dir \in Paths, ReadDir(dir)
      PROVE  ProgressInv'
    BY <1>1 DEF ReadDir
<1>2. ASSUME NEW r \in Requests, BeginMutation(r)
      PROVE  ProgressInv'
    BY <1>2 DEF BeginMutation
<1>3. CASE create_missing_upper_parent_directories
    BY <1>3 DEF create_missing_upper_parent_directories, Reply
<1>3s. CASE sync_copied_directory
    BY <1>3s DEF sync_copied_directory, Reply
<1>4. CASE begin_recovery_operation
    BY <1>4, BeginEffect DEF begin_recovery_operation
<1>5. CASE prepare_stage
    BY <1>5 DEF prepare_stage
<1>6. CASE flush_stage
    BY <1>6 DEF flush_stage
<1>7. CASE set_recovery_operation_phase
    <2>1. op.kind \in Kinds /\ (op.kind \in RemovingKinds => op.kind \notin StagedKinds)
        BY <1>7, PhaseRows
           DEF OperationInv, StagedKinds, RemovingKinds, CreatingKinds, ReplacingKinds
    <2>2. QED BY <1>7, <2>1, PhaseRows DEF Kinds
<1>8. CASE publish_staged_operation
    <2>1. op.kind \in StagedKinds /\ op.id \in Ids /\ mode' = "serving" /\ op' = op
        BY <1>8 DEF publish_staged_operation, StageInv, OnlyOwnStage, OperationInv, Steps
    <2>2. CASE stage' = [stage EXCEPT ![op.id] = EmptyTree] /\ pc' = "sync"
        <3>1. stage'[op.id] = EmptyTree /\ Destination(op) \in Paths
            BY <2>1, <2>2 DEF TypeOK, Destination, Operations
        <3>2. Destination(op)' = Destination(op)
            BY <2>1 DEF Destination
        <3>3. ~Exists(stage'[op.id], Destination(op))
            BY <3>1 DEF EmptyTree, Absent, Exists
        <3>4. QED BY <2>1, <2>2, <3>2, <3>3
    <2>3. CASE pc' = "discard"
        BY <2>1, <2>3
    <2>4. QED BY <1>8, <2>2, <2>3 DEF publish_staged_operation
<1>9. CASE sync_destination
    <2>1. op.kind \in StagedKinds /\ ~Exists(stage[op.id], Destination(op)) /\ mode' = "serving"
        BY <1>9 DEF sync_destination
    <2>2. op.kind # "rename" => op.kind \notin RemovingKinds \cup {"rename"}
        BY <2>1 DEF StagedKinds, RemovingKinds, CreatingKinds, ReplacingKinds
    <2>3. CASE op' = op /\ pc' = IF op.kind = "rename" THEN "source" ELSE "finish"
        <3>1. Exists(stage[op.id], Destination(op))' <=> Exists(stage[op.id], Destination(op))
            BY <1>9, <2>3 DEF sync_destination, Exists, Destination
        <3>2. QED BY <2>1, <2>2, <2>3, <3>1
    <2>4. CASE op' = NoOp /\ pc' = "idle"
        BY <2>1, <2>4
    <2>5. QED BY <1>9, <2>3, <2>4 DEF sync_destination, Reply
<1>10. CASE remove_upper_source
    <2>1. /\ op.kind \in LeavingKinds /\ mode' = "serving" /\ op.path \in Paths
          /\ op.kind \in StagedKinds => ~Exists(stage[op.id], Destination(op))
        BY <1>10 DEF remove_upper_source, TypeOK, Operations
    <2>2. \/ op' = NoOp /\ pc' = "idle"
          \/ /\ op' = op /\ pc' \in {"finish", "syncsource", "source", "abandon"}
             /\ pc' \in {"finish", "syncsource"} => ~Exists(upper', op.path)
        <3>1. ASSUME NEW q \in RemovableLeaf(upper, op.path),
                     upper' = [upper EXCEPT ![q] = Absent],
                     pc' = IF q = op.path THEN "syncsource" ELSE "source"
              PROVE  /\ pc' \in {"syncsource", "source"}
                     /\ pc' = "syncsource" => ~Exists(upper', op.path)
            BY <2>1, <3>1 DEF TypeOK, Trees, Exists, Absent
        <3>2. QED BY <1>10, <3>1 DEF remove_upper_source, Reply
    <2>3. op' = op => (Exists(stage[op.id], Destination(op))' <=> Exists(stage[op.id], Destination(op)))
        BY <1>10 DEF remove_upper_source, Exists, Destination
    <2>4. QED BY <2>1, <2>2, <2>3
<1>11. CASE sync_source
    BY <1>11 DEF sync_source, Reply
<1>12. CASE finish_recovery_operation
    BY <1>12 DEF finish_recovery_operation, Reply
<1>13. CASE discard_stage
    BY <1>13 DEF discard_stage
<1>14. CASE abandon_recovery_operation
    BY <1>14 DEF abandon_recovery_operation, Reply
<1>15. CASE Crash
    BY <1>15 DEF Crash
<1>16. CASE Restart
    BY <1>16 DEF Restart
<1>17. CASE recover_next_operation
    <2>1. CASE op' = NoOp /\ pc' = "idle" /\ mode' = "refused"
        BY <2>1
    <2>2. CASE /\ mode' = "recovering"
               /\ \E row \in journal :
                     /\ SameWork(op', row) /\ op'.id = row.id /\ row.path # Root
                     /\ pc' = IF row.phase = "prepared" THEN "discard"
                              ELSE IF row.kind \in RemovingKinds THEN "source" ELSE "publish"
        <3>1. PICK row \in journal :
                  /\ SameWork(op', row) /\ op'.id = row.id /\ row.path # Root
                  /\ pc' = IF row.phase = "prepared" THEN "discard"
                           ELSE IF row.kind \in RemovingKinds THEN "source" ELSE "publish"
            BY <2>2
        <3>2. op'.kind = row.kind /\ op'.path = row.path /\ row.kind \in Kinds
            BY <3>1 DEF SameWork, TypeOK, Rows
        <3>3. row.kind \in RemovingKinds => row.kind \notin StagedKinds
            BY DEF StagedKinds, RemovingKinds, CreatingKinds, ReplacingKinds
        <3>4. QED BY <2>2, <3>1, <3>2, <3>3 DEF Kinds
    <2>3. QED BY <1>17, <2>1, <2>2, RecoverEffect
<1>18. CASE recover_rollback
    BY <1>18 DEF recover_rollback
<1>19. CASE publish_staged_entry
    <2>1. op.kind \in StagedKinds /\ op.id \in Ids /\ mode = "recovering" /\ op.path # Root
        BY <1>19 DEF publish_staged_entry, OperationInv, Steps
    <2>2. CASE Refuse
        BY <2>2 DEF Refuse
    <2>3. CASE /\ stage' = [stage EXCEPT ![op.id] = EmptyTree]
               /\ pc' = "sync" /\ mode' = mode /\ op' = op
        <3>1. stage'[op.id] = EmptyTree /\ Destination(op) \in Paths
            BY <2>1, <2>3 DEF TypeOK, Destination, Operations
        <3>2. Destination(op)' = Destination(op)
            BY <2>3 DEF Destination
        <3>3. ~Exists(stage'[op.id], Destination(op))
            BY <3>1 DEF EmptyTree, Absent, Exists
        <3>4. QED BY <2>1, <2>3, <3>2, <3>3
    <2>4. CASE /\ ~Exists(stage[op.id], Destination(op)) /\ stage' = stage
               /\ pc' = "sync" /\ mode' = mode /\ op' = op
        <3>1. ~Exists(stage[op.id], Destination(op))'
            BY <2>4 DEF Exists, Destination
        <3>2. QED BY <2>1, <2>4, <3>1
    <2>5. QED BY <1>19, <2>2, <2>3, <2>4 DEF publish_staged_entry
<1>20. CASE recover_sync
    <2>1. op.kind \in StagedKinds /\ ~Exists(stage[op.id], Destination(op))
          /\ mode = "recovering" /\ op.path # Root
        BY <1>20 DEF recover_sync
    <2>2. op.kind # "rename" => op.kind \notin RemovingKinds \cup {"rename"}
        BY <2>1 DEF StagedKinds, RemovingKinds, CreatingKinds, ReplacingKinds
    <2>3. ~Exists(stage[op.id], Destination(op))'
        BY <1>20, <2>1 DEF recover_sync, Exists, Destination
    <2>4. op' = op /\ mode' = mode /\ pc' = IF op.kind = "rename" THEN "source" ELSE "finish"
        BY <1>20 DEF recover_sync
    <2>5. QED BY <2>1, <2>2, <2>3, <2>4
<1>21. CASE remove_upper_entry
    <2>1. /\ op.kind \in LeavingKinds /\ mode = "recovering" /\ op.path \in Paths /\ op.path # Root
          /\ op.kind \in StagedKinds => ~Exists(stage[op.id], Destination(op))
        BY <1>21 DEF remove_upper_entry, TypeOK, Operations
    <2>2. \/ op' = NoOp /\ pc' = "idle"
          \/ /\ op' = op /\ mode' = mode /\ stage' = stage
             /\ pc' \in {"finish", "syncsource", "source"}
             /\ pc' \in {"finish", "syncsource"} => ~Exists(upper', op.path)
        <3>1. ASSUME NEW q \in RemovableLeaf(upper, op.path),
                     upper' = [upper EXCEPT ![q] = Absent],
                     pc' = IF q = op.path THEN "syncsource" ELSE "source"
              PROVE  /\ pc' \in {"syncsource", "source"}
                     /\ pc' = "syncsource" => ~Exists(upper', op.path)
            BY <2>1, <3>1 DEF TypeOK, Trees, Exists, Absent
        <3>2. QED BY <1>21, <3>1 DEF remove_upper_entry, Refuse
    <2>3. op' = op /\ stage' = stage =>
              (Exists(stage[op.id], Destination(op))' <=> Exists(stage[op.id], Destination(op)))
        BY DEF Exists, Destination
    <2>4. QED BY <2>1, <2>2, <2>3
<1>22. CASE recover_sync_source
    BY <1>22 DEF recover_sync_source
<1>23. CASE recover_finish
    BY <1>23 DEF recover_finish
<1>24. CASE recover_error
    BY <1>24 DEF recover_error, Refuse
<1>25. CASE open_workspace
    BY <1>25 DEF open_workspace
<1>26. CASE UNCHANGED vars
    BY <1>26 DEF vars
<1>27. QED
    BY <1>1, <1>2, <1>3, <1>3s, <1>4, <1>5, <1>6, <1>7, <1>8, <1>9, <1>10, <1>11, <1>12, <1>13,
       <1>14, <1>15, <1>16, <1>17, <1>18, <1>19, <1>20, <1>21, <1>22, <1>23, <1>24, <1>25, <1>26
       DEF Next, Mutation, recover_interrupted_operations

(* Every step leaves trees. *)
LEMMA TreeStep ==
    ASSUME Ordinary, TypeOK, OperationInv, TombstonesAgree, SInv, RowInv, ProgressInv,
           HangInv, BareInv, WorkInv, TreeInv, [Next]_vars, KeepsStorage
    PROVE  TreeInv'
<1> USE NoOpFields, SameLayers DEF StoredView, At, Recovering, storage, metadata, Published
<1>1. ASSUME NEW dir \in Paths, ReadDir(dir)
      PROVE  TreeInv'
    BY <1>1 DEF ReadDir
<1>2. ASSUME NEW r \in Requests, BeginMutation(r)
      PROVE  TreeInv'
    BY <1>2 DEF BeginMutation
<1>3. CASE create_missing_upper_parent_directories
    <2>1. /\ tombDB' = tombDB /\ TreeShaped(upper')
          /\ \A p \in Paths : Shape(StoredView'[p]) = Shape(StoredView[p])
        BY <1>3, CopyUpEffect
    <2> HIDE DEF StoredView
    <2>2. \A p \in Paths : StoredView'[p].kind = StoredView[p].kind
        BY <2>1 DEF Shape
    <2>3. TreeShaped(StoredView')
        BY <2>2, TreeByKinds DEF TreeInv
    <2>4. QED BY <2>1, <2>3 DEF TreeInv
<1>3s. CASE sync_copied_directory
    BY <1>3s DEF sync_copied_directory, Reply
<1>4. CASE begin_recovery_operation
    BY <1>4, BeginEffect DEF begin_recovery_operation
<1>5. CASE prepare_stage
    BY <1>5 DEF prepare_stage
<1>6. CASE flush_stage
    BY <1>6 DEF flush_stage
<1>7. CASE set_recovery_operation_phase
    BY <1>7, PhaseRows
<1>8. CASE publish_staged_operation
    <2>1. CASE upper' = upper
        BY <1>8, <2>1 DEF publish_staged_operation
    <2>2. CASE /\ CanRename(upper, stage[op.id], Destination(op))
               /\ upper' = Overlay(upper, stage[op.id], Destination(op))
        <3>1. /\ op.kind \in StagedKinds /\ op.id \in Ids /\ Destination(op) \in Paths
              /\ Destination(op) # Root /\ mode = "serving" /\ pc = "publish" /\ tombDB' = tombDB
            BY <1>8, <2>2 DEF publish_staged_operation, SInv, StageInv, OnlyOwnStage, OperationInv, Steps,
               CanRename, TypeOK, Operations, Destination
        <3>2. /\ Hanging(stage[op.id], Destination(op))
              /\ \A a \in Paths : Beneath(a, Destination(op)) => IsDir(upper, a)
            BY <3>1 DEF SInv, StageInv, OnlyOwnStage, WorkInv, ParentsMade
        <3>3. upper \in Trees /\ stage[op.id] \in Trees /\ tombDB \in SUBSET Paths
            BY <3>1 DEF TypeOK
        <3>4. \A r, q \in Paths : Beneath(r, q) /\ stage[op.id][r].kind = Leaf =>
                  ~Shows(tombDB, q) /\ ~Exists(stage[op.id], q)
            BY <3>1, OwnRow, VisibleWhen DEF BareInv
        <3>5. TreeShaped(upper') /\ TreeShaped(VisibleIn(upper', tombDB))
            BY ONLY <2>2, <3>1, <3>2, <3>3, <3>4, OverlayTrees, TreeInv
               DEF TreeInv, StoredView
        <3>6. QED BY <3>1, <3>5 DEF TreeInv
    <2>3. QED BY <1>8, <2>1, <2>2 DEF publish_staged_operation
<1>9. CASE sync_destination
    BY <1>9 DEF sync_destination, Reply
<1>10. CASE remove_upper_source
    <2>1. ASSUME NEW q \in RemovableLeaf(upper, op.path),
                 upper' = [upper EXCEPT ![q] = Absent], tombDB' = tombDB
          PROVE  TreeInv'
        <3>1. q \in Paths /\ Under(op.path, q) /\ Children(upper, q) = {} /\ Exists(upper, q)
            BY <2>1 DEF RemovableLeaf
        <3>2. op.path \in Paths /\ op.path # Root /\ upper \in Trees /\ tombDB \in SUBSET Paths
            BY <1>10 DEF TypeOK, Operations, OperationInv, remove_upper_source
        <3>3. q # Root
            BY <3>1, <3>2, NotRoot
        <3>4. TreeShaped(upper') /\ TreeShaped(VisibleIn(upper', tombDB))
            BY ONLY <2>1, <3>1, <3>2, <3>3, RemovalTrees, TreeInv DEF TreeInv, StoredView
        <3>5. QED BY <2>1, <3>4 DEF TreeInv
    <2>2. tombDB' = tombDB
        BY <1>10 DEF remove_upper_source
    <2>3. CASE upper' = upper
        BY <2>2, <2>3
    <2>4. QED BY <1>10, <2>1, <2>2, <2>3 DEF remove_upper_source
<1>11. CASE sync_source
    BY <1>11 DEF sync_source, Reply
<1>12. CASE finish_recovery_operation
    <2>1. ASSUME pc = "finish", upper' = upper, tombDB' = StoreTombstoned(tombDB, op)
          PROVE  TreeInv'
        <3>1. /\ \A p \in Paths : Exists(StoredView', p) => Exists(StoredView, p)
              /\ tombDB' \in SUBSET Paths
            BY <2>1, FinishUncovers
        <3>2. upper \in Trees /\ tombDB \in SUBSET Paths
            BY DEF TypeOK
        <3>3. TreeShaped(VisibleIn(upper, tombDB'))
            BY ONLY <2>1, <3>1, <3>2, TombstoneTrees, TreeInv DEF TreeInv, StoredView
        <3>4. QED BY <2>1, <3>3 DEF TreeInv
    <2>2. QED BY <1>12, <2>1 DEF finish_recovery_operation
<1>13. CASE discard_stage
    BY <1>13 DEF discard_stage
<1>14. CASE abandon_recovery_operation
    BY <1>14 DEF abandon_recovery_operation, Reply
<1>15. CASE Crash
    BY <1>15 DEF Crash, KeepsStorage
<1>16. CASE Restart
    BY <1>16 DEF Restart
<1>17. CASE recover_next_operation
    BY <1>17, RecoverEffect
<1>18. CASE recover_rollback
    BY <1>18 DEF recover_rollback
<1>19. CASE publish_staged_entry
    <2>1. CASE upper' = upper /\ tombDB' = tombDB
        BY <2>1
    <2> DEFINE made == WithParents(upper, Destination(op))
    <2>2. CASE /\ \A a \in Paths : Beneath(a, Destination(op)) => IsDir(made, a)
               /\ CanRename(made, stage[op.id], Destination(op))
               /\ upper' = Overlay(made, stage[op.id], Destination(op))
               /\ tombDB' = tombDB
        <3>1. /\ op.kind \in StagedKinds /\ op.id \in Ids /\ Destination(op) \in Paths
              /\ Destination(op) # Root /\ pc = "publish" /\ op.id \in Nat
            BY <1>19, <2>2 DEF publish_staged_entry, ProgressInv, OperationInv, Steps,
               CanRename, TypeOK, Operations, Destination
        <3>2. Hanging(stage[op.id], Destination(op))
            <4>1. PICK row \in journal : row.id = op.id /\ SameWork(row, op)
                BY <3>1 DEF RowInv
            <4>2. Destination(row) = Destination(op)
                BY <4>1 DEF SameWork, Destination
            <4>3. QED BY <4>1, <4>2 DEF HangInv
        <3>3. upper \in Trees /\ stage[op.id] \in Trees /\ tombDB \in SUBSET Paths
            BY <3>1 DEF TypeOK
        <3>4. \A r, q \in Paths : Beneath(r, q) /\ stage[op.id][r].kind = Leaf =>
                  ~Shows(tombDB, q) /\ ~Exists(stage[op.id], q)
            BY <3>1, OwnRow, VisibleWhen DEF BareInv
        <3>5. made \in Trees
            BY <3>1, <3>3, WithParentsType
        <3>6. TreeShaped(made) /\ TreeShaped(VisibleIn(made, tombDB))
            BY ONLY <2>2, <3>1, <3>3, ParentsTrees, TreeInv DEF TreeInv, StoredView
        <3> HIDE DEF made
        <3>7. TreeShaped(upper') /\ TreeShaped(VisibleIn(upper', tombDB))
            BY ONLY <2>2, <3>1, <3>2, <3>3, <3>4, <3>5, <3>6, OverlayTrees
        <3>8. QED BY <2>2, <3>7 DEF TreeInv
    <2>3. QED BY <1>19, <2>1, <2>2 DEF publish_staged_entry, Refuse
<1>20. CASE recover_sync
    BY <1>20 DEF recover_sync
<1>21. CASE remove_upper_entry
    <2>1. ASSUME NEW q \in RemovableLeaf(upper, op.path),
                 upper' = [upper EXCEPT ![q] = Absent], tombDB' = tombDB
          PROVE  TreeInv'
        <3>1. q \in Paths /\ Under(op.path, q) /\ Children(upper, q) = {} /\ Exists(upper, q)
            BY <2>1 DEF RemovableLeaf
        <3>2. op.path \in Paths /\ op.path # Root /\ upper \in Trees /\ tombDB \in SUBSET Paths
            BY <1>21 DEF TypeOK, Operations, ProgressInv, remove_upper_entry
        <3>3. q # Root
            BY <3>1, <3>2, NotRoot
        <3>4. TreeShaped(upper') /\ TreeShaped(VisibleIn(upper', tombDB))
            BY ONLY <2>1, <3>1, <3>2, <3>3, RemovalTrees, TreeInv DEF TreeInv, StoredView
        <3>5. QED BY <2>1, <3>4 DEF TreeInv
    <2>2. tombDB' = tombDB
        BY <1>21 DEF remove_upper_entry, Refuse
    <2>3. CASE upper' = upper
        BY <2>2, <2>3
    <2>4. QED BY <1>21, <2>1, <2>2, <2>3 DEF remove_upper_entry, Refuse
<1>22. CASE recover_sync_source
    BY <1>22 DEF recover_sync_source
<1>23. CASE recover_finish
    <2>1. ASSUME pc = "finish", upper' = upper, tombDB' = StoreTombstoned(tombDB, op)
          PROVE  TreeInv'
        <3>1. /\ \A p \in Paths : Exists(StoredView', p) => Exists(StoredView, p)
              /\ tombDB' \in SUBSET Paths
            BY <2>1, FinishUncovers
        <3>2. upper \in Trees /\ tombDB \in SUBSET Paths
            BY DEF TypeOK
        <3>3. TreeShaped(VisibleIn(upper, tombDB'))
            BY ONLY <2>1, <3>1, <3>2, TombstoneTrees, TreeInv DEF TreeInv, StoredView
        <3>4. QED BY <2>1, <3>3 DEF TreeInv
    <2>2. QED BY <1>23, <2>1 DEF recover_finish
<1>24. CASE recover_error
    BY <1>24 DEF recover_error, Refuse
<1>25. CASE open_workspace
    BY <1>25 DEF open_workspace
<1>26. CASE UNCHANGED vars
    BY <1>26 DEF vars
<1>27. QED
    BY <1>1, <1>2, <1>3, <1>3s, <1>4, <1>5, <1>6, <1>7, <1>8, <1>9, <1>10, <1>11, <1>12, <1>13,
       <1>14, <1>15, <1>16, <1>17, <1>18, <1>19, <1>20, <1>21, <1>22, <1>23, <1>24, <1>25, <1>26
       DEF Next, Mutation, recover_interrupted_operations

(* Every step keeps left stages from having rows for long. *)
LEMMA LeftStep ==
    ASSUME Ordinary, TypeOK, StageInv, RowInv, LeftInv, [Next]_vars
    PROVE  LeftInv'
<1> USE DEF LeftInv, At, Recovering, storage, metadata, history
<1>1. ASSUME NEW dir \in Paths, ReadDir(dir)
      PROVE  LeftInv'
    BY <1>1 DEF ReadDir
<1>2. ASSUME NEW r \in Requests, BeginMutation(r)
      PROVE  LeftInv'
    BY <1>2 DEF BeginMutation
<1>3. CASE create_missing_upper_parent_directories
    BY <1>3 DEF create_missing_upper_parent_directories, Reply
<1>3s. CASE sync_copied_directory
    BY <1>3s DEF sync_copied_directory, Reply
<1>4. CASE begin_recovery_operation
    <2>1. mode = "serving" /\ pc = "journal" /\ left' = left
        BY <1>4 DEF begin_recovery_operation, Reply
    <2>2. \A row \in journal' : row \in journal \/ row.id = nextId
        BY <1>4, BeginEffect
    <2>3. nextId \notin left
        BY DEF StageInv, TypeOK
    <2>4. QED BY <2>1, <2>2, <2>3
<1>5. CASE prepare_stage
    BY <1>5 DEF prepare_stage
<1>6. CASE flush_stage
    BY <1>6 DEF flush_stage
<1>7. CASE set_recovery_operation_phase
    <2>1. left' = left
        BY <1>7 DEF set_recovery_operation_phase
    <2>2. \A row \in journal' : \E was \in journal : row.id = was.id
        BY <1>7, PhaseRows
    <2>3. QED BY <1>7, <2>1, <2>2, PhaseRows
<1>8. CASE publish_staged_operation
    BY <1>8 DEF publish_staged_operation
<1>9. CASE sync_destination
    BY <1>9 DEF sync_destination, Reply
<1>10. CASE remove_upper_source
    BY <1>10 DEF remove_upper_source, Reply
<1>11. CASE sync_source
    BY <1>11 DEF sync_source, Reply
<1>12. CASE finish_recovery_operation
    BY <1>12 DEF finish_recovery_operation, Reply
<1>13. CASE discard_stage
    <2>1. /\ mode = "serving" /\ pc = "discard" /\ mode' = mode /\ op' = op /\ journal' = journal
          /\ \/ left' = left
             \/ left' = left \cup {op.id} /\ pc' = "abandon" /\ "discard" \in FaultPoints
        BY <1>13 DEF discard_stage, Fault
    <2>2. \A row \in journal : row.id = op.id => row.kind \in StagedKinds
        BY <2>1, OwnRow DEF StageInv, OnlyOwnStage, SameWork
    <2>3. QED BY <2>1, <2>2
<1>14. CASE abandon_recovery_operation
    <2>1. mode = "serving" /\ left' = left
        BY <1>14 DEF abandon_recovery_operation, Reply
    <2>2. CASE journal' = {row \in journal : row.id # op.id}
        BY <2>1, <2>2
    <2>3. CASE Fault("abandon") /\ journal' = journal
        BY <2>1, <2>3 DEF Ordinary, Fault
    <2>4. QED BY <1>14, <2>2, <2>3 DEF abandon_recovery_operation
<1>15. CASE Crash
    BY <1>15 DEF Crash
<1>16. CASE Restart
    BY <1>16 DEF Restart
<1>17. CASE recover_next_operation
    BY <1>17 DEF recover_next_operation, Refuse, RecoverySame
<1>18. CASE recover_rollback
    BY <1>18 DEF recover_rollback, RecoverySame
<1>19. CASE publish_staged_entry
    BY <1>19 DEF publish_staged_entry, Refuse, RecoverySame
<1>20. CASE recover_sync
    BY <1>20 DEF recover_sync, RecoverySame
<1>21. CASE remove_upper_entry
    BY <1>21 DEF remove_upper_entry, Refuse, RecoverySame
<1>22. CASE recover_sync_source
    BY <1>22 DEF recover_sync_source, RecoverySame
<1>23. CASE recover_finish
    BY <1>23 DEF recover_finish, RecoverySame
<1>24. CASE recover_error
    BY <1>24 DEF recover_error, Refuse
<1>25. CASE open_workspace
    BY <1>25 DEF open_workspace
<1>26. CASE UNCHANGED vars
    BY <1>26 DEF vars
<1>27. QED
    BY <1>1, <1>2, <1>3, <1>3s, <1>4, <1>5, <1>6, <1>7, <1>8, <1>9, <1>10, <1>11, <1>12, <1>13,
       <1>14, <1>15, <1>16, <1>17, <1>18, <1>19, <1>20, <1>21, <1>22, <1>23, <1>24, <1>25, <1>26
       DEF Next, Mutation, recover_interrupted_operations

(* Every step keeps staged leaves bare. *)
LEMMA BareStep ==
    ASSUME Ordinary, TypeOK, OperationInv, TombstonesAgree, SInv, RowInv, HangInv, LeftInv, WorkInv,
           TreeInv, BareInv, [Next]_vars, KeepsStorage
    PROVE  BareInv'
<1> USE NoOpFields, NoOpStage, SameLayers DEF At, Recovering, storage, metadata, Published
<1>0. \A row \in journal : row.id \in Ids
    BY DEF TypeOK, Rows
<1>1. ASSUME NEW dir \in Paths, ReadDir(dir)
      PROVE  BareInv'
    BY <1>1, <1>0, BareShrinks DEF ReadDir
<1>2. ASSUME NEW r \in Requests, BeginMutation(r)
      PROVE  BareInv'
    BY <1>2, <1>0, BareShrinks DEF BeginMutation
<1>3. CASE create_missing_upper_parent_directories
    <2>1. mode = "serving" /\ pc = "parents" /\ stage' = stage
        BY <1>3, CopyUpEffect
    <2>2. \A row \in journal' : stage'[row.id] = EmptyTree
        BY <1>3, <2>1, CopyUpEffect, OthersUnstaged DEF SInv
    <2>3. QED BY <2>2, <1>0, BareShrinks
<1>3s. CASE sync_copied_directory
    BY <1>3s, <1>0, BareShrinks DEF sync_copied_directory, Reply
<1>4. CASE begin_recovery_operation
    <2>1. \A row \in journal' : stage'[row.id] = EmptyTree
        BY <1>4, BegunUnstaged DEF SInv
    <2>2. QED BY <2>1, <1>0, BareShrinks
<1>5. CASE prepare_stage
    <2>1. CASE stage' = stage
        BY <1>5, <2>1, <1>0, BareShrinks DEF prepare_stage
    <2>2. CASE stage' = [stage EXCEPT ![op.id] = Staged(op)]
        <3>1. mode = "serving" /\ pc = "prepare" /\ StoredView' = StoredView
            BY <1>5 DEF prepare_stage
        <3>2. /\ op.kind \in StagedKinds /\ op.id \in Ids /\ op.id \in Nat /\ Admitted(View, op)
              /\ \A row \in journal : row.id # op.id => stage[row.id] = EmptyTree
            BY <3>1, OthersUnstaged DEF SInv, StageInv, OnlyOwnStage, OperationInv, Steps, WorkInv, BeforeEffect,
               Unpublished, TypeOK, Operations
        <3>3. StoredView = View /\ TreeShaped(View)
            BY <3>1, ServedView DEF TreeInv
        <3>4. SUFFICES ASSUME NEW row \in journal, NEW r \in Paths, NEW q \in Paths,
                              Beneath(r, q), stage'[row.id][r].kind = Leaf
                       PROVE  ~Exists(View, q) /\ ~Exists(stage'[row.id], q)
            BY <1>5, <3>1, <3>3 DEF BareInv, prepare_stage
        <3>5. stage'[op.id] = Staged(op) /\ (row.id # op.id => stage'[row.id] = EmptyTree)
            BY <1>0, <2>2, <3>2 DEF TypeOK
        <3>6. row.id = op.id
            BY <3>4, <3>5 DEF EmptyTree, Absent, Leaf, Nothing
        <3>7. QED BY <3>2, <3>3, <3>4, <3>5, <3>6, StagedBare
    <2>3. QED BY <1>5, <2>1, <2>2 DEF prepare_stage
<1>6. CASE flush_stage
    BY <1>6, <1>0, BareShrinks DEF flush_stage
<1>7. CASE set_recovery_operation_phase
    BY <1>7, PhaseRows, <1>0, BareShrinks
<1>8. CASE publish_staged_operation
    <2>1. CASE stage' = stage /\ upper' = upper
        BY <1>8, <2>1, <1>0, BareShrinks DEF publish_staged_operation
    <2>2. CASE stage' = [stage EXCEPT ![op.id] = EmptyTree]
        <3>1. \A row \in journal : row.id # op.id => stage[row.id] = EmptyTree
            BY <1>8, OthersUnstaged DEF publish_staged_operation, SInv
        <3>2. \A row \in journal' : stage'[row.id] = EmptyTree
            BY <1>0, <1>8, <2>2, <3>1 DEF TypeOK, publish_staged_operation
        <3>3. QED BY <3>2, <1>0, BareShrinks
    <2>3. QED BY <1>8, <2>1, <2>2 DEF publish_staged_operation
<1>9. CASE sync_destination
    BY <1>9, <1>0, BareShrinks DEF sync_destination, Reply
<1>10. CASE remove_upper_source
    <2>0. \A row \in journal' : \E was \in journal : row.id = was.id
        BY <1>10 DEF remove_upper_source
    <2>1. ASSUME NEW q \in RemovableLeaf(upper, op.path),
                 upper' = [upper EXCEPT ![q] = Absent], tombDB' = tombDB,
                 stage' = stage
          PROVE  BareInv'
        <3>1. \A p \in Paths : Exists(upper', p) => Exists(upper, p)
            BY <2>1 DEF TypeOK, Trees, Exists, Absent
        <3>2. \A p \in Paths : Exists(StoredView', p) => Exists(StoredView, p)
            BY <2>1, <3>1, VisibleWhen DEF StoredView
        <3>3. QED BY <2>0, <2>1, <3>2, <1>0, BareShrinks
    <2>2. QED BY <1>10, <2>1, <1>0, BareShrinks DEF remove_upper_source
<1>11. CASE sync_source
    BY <1>11, <1>0, BareShrinks DEF sync_source, Reply
<1>12. CASE finish_recovery_operation
    <2>0. \A row \in journal' : \E was \in journal : row.id = was.id
        BY <1>12 DEF finish_recovery_operation, Reply
    <2>1. ASSUME pc = "finish", upper' = upper, tombDB' = StoreTombstoned(tombDB, op),
                 stage' = stage
          PROVE  BareInv'
        <3>1. \A p \in Paths : Exists(StoredView', p) => Exists(StoredView, p)
            BY <2>1, FinishUncovers
        <3>2. QED BY <2>0, <2>1, <3>1, <1>0, BareShrinks
    <2>2. QED BY <1>12, <2>1, <1>0, BareShrinks DEF finish_recovery_operation
<1>13. CASE discard_stage
    <2>0. \A row \in journal' : \E was \in journal : row.id = was.id
        BY <1>13 DEF discard_stage
    <2>1. ASSUME NEW q \in RemovableLeaf(stage[op.id], Destination(op)),
                 stage' = [stage EXCEPT ![op.id][q] = Absent],
                 upper' = upper, tombDB' = tombDB
          PROVE  BareInv'
        <3>1. op.id \in Ids /\ q \in Paths
            BY <2>1, <1>13 DEF OperationInv, Steps, RemovableLeaf, discard_stage
        <3>2. \A i \in Ids, p \in Paths : stage'[i][p] = stage[i][p] \/ stage'[i][p] = Absent
            BY <2>1, <3>1 DEF TypeOK, Trees
        <3>3. QED BY <2>0, <2>1, <3>2, <1>0, BareShrinks
    <2>2. QED BY <1>13, <2>1, <1>0, BareShrinks DEF discard_stage
<1>14. CASE abandon_recovery_operation
    BY <1>14, <1>0, BareShrinks DEF abandon_recovery_operation, Reply
<1>15. CASE Crash
    BY <1>15, <1>0, BareShrinks DEF Crash, KeepsStorage
<1>16. CASE Restart
    BY <1>16, <1>0, BareShrinks DEF Restart
<1>17. CASE recover_next_operation
    BY <1>17, RecoverEffect, <1>0, BareShrinks
<1>18. CASE recover_rollback
    <2>0. \A row \in journal' : \E was \in journal : row.id = was.id
        BY <1>18 DEF recover_rollback
    <2>1. ASSUME NEW q \in RemovableLeaf(stage[op.id], Destination(op)),
                 stage' = [stage EXCEPT ![op.id][q] = Absent],
                 upper' = upper, tombDB' = tombDB
          PROVE  BareInv'
        <3>1. op.id \in Ids /\ q \in Paths
            BY <2>1, <1>18 DEF OperationInv, Steps, RemovableLeaf, recover_rollback
        <3>2. \A i \in Ids, p \in Paths : stage'[i][p] = stage[i][p] \/ stage'[i][p] = Absent
            BY <2>1, <3>1 DEF TypeOK, Trees
        <3>3. QED BY <2>0, <2>1, <3>2, <1>0, BareShrinks
    <2>2. QED BY <1>18, <2>1, <1>0, BareShrinks DEF recover_rollback
<1>19. CASE publish_staged_entry
    <2>1. CASE stage' = stage /\ upper' = upper /\ tombDB' = tombDB
        <3>1. journal' = journal
            BY <1>19 DEF publish_staged_entry, Refuse
        <3>2. QED BY <2>1, <3>1, <1>0, BareShrinks
    <2>2. CASE stage' = [stage EXCEPT ![op.id] = EmptyTree] /\ Exists(stage[op.id], Destination(op))
        <3>1. op.id \in Ids /\ Destination(op) \in Paths
            BY <1>19
               DEF publish_staged_entry, OperationInv, Steps, TypeOK, Operations, Destination
        <3>2. stage[op.id] # EmptyTree
            BY <2>2, <3>1 DEF EmptyTree, Absent, Exists
        <3>3. PICK own \in journal : own.id = op.id
            BY <1>19, OwnRow DEF publish_staged_entry
        <3>4. \A row \in journal : row.id # op.id => stage[row.id] = EmptyTree
            BY <3>2, <3>3 DEF HangInv
        <3>5. \A row \in journal' : stage'[row.id] = EmptyTree
            BY <1>0, <1>19, <2>2, <3>1, <3>4 DEF TypeOK, publish_staged_entry, Refuse
        <3>6. QED BY <3>5, <1>0, BareShrinks
    <2>3. QED BY <1>19, <2>1, <2>2 DEF publish_staged_entry, Refuse, Exists
<1>20. CASE recover_sync
    BY <1>20, <1>0, BareShrinks DEF recover_sync
<1>21. CASE remove_upper_entry
    <2>0. \A row \in journal' : \E was \in journal : row.id = was.id
        BY <1>21 DEF remove_upper_entry, Refuse
    <2>1. ASSUME NEW q \in RemovableLeaf(upper, op.path),
                 upper' = [upper EXCEPT ![q] = Absent], tombDB' = tombDB,
                 stage' = stage
          PROVE  BareInv'
        <3>1. \A p \in Paths : Exists(upper', p) => Exists(upper, p)
            BY <2>1 DEF TypeOK, Trees, Exists, Absent
        <3>2. \A p \in Paths : Exists(StoredView', p) => Exists(StoredView, p)
            BY <2>1, <3>1, VisibleWhen DEF StoredView
        <3>3. QED BY <2>0, <2>1, <3>2, <1>0, BareShrinks
    <2>2. QED BY <1>21, <2>1, <1>0, BareShrinks DEF remove_upper_entry, Refuse
<1>22. CASE recover_sync_source
    BY <1>22, <1>0, BareShrinks DEF recover_sync_source
<1>23. CASE recover_finish
    <2>0. \A row \in journal' : \E was \in journal : row.id = was.id
        BY <1>23 DEF recover_finish
    <2>1. ASSUME pc = "finish", upper' = upper, tombDB' = StoreTombstoned(tombDB, op),
                 stage' = stage
          PROVE  BareInv'
        <3>1. \A p \in Paths : Exists(StoredView', p) => Exists(StoredView, p)
            BY <2>1, FinishUncovers
        <3>2. QED BY <2>0, <2>1, <3>1, <1>0, BareShrinks
    <2>2. QED BY <1>23, <2>1, <1>0, BareShrinks DEF recover_finish
<1>24. CASE recover_error
    BY <1>24, <1>0, BareShrinks DEF recover_error, Refuse
<1>25. CASE open_workspace
    BY <1>25, <1>0, BareShrinks DEF open_workspace
<1>26. CASE UNCHANGED vars
    BY <1>26, <1>0, BareShrinks DEF vars
<1>27. QED
    BY <1>1, <1>2, <1>3, <1>3s, <1>4, <1>5, <1>6, <1>7, <1>8, <1>9, <1>10, <1>11, <1>12, <1>13,
       <1>14, <1>15, <1>16, <1>17, <1>18, <1>19, <1>20, <1>21, <1>22, <1>23, <1>24, <1>25, <1>26
       DEF Next, Mutation, recover_interrupted_operations

(* Every step keeps stages with their rows. *)
LEMMA HangStep ==
    ASSUME Ordinary, TypeOK, OperationInv, StageInv, PresentInv, RowInv, LeftInv, HangInv,
           [Next]_vars, KeepsStorage
    PROVE  HangInv'
<1> USE NoOpFields, NoOpStage DEF SameWork, At, Recovering, storage, metadata, Published
<1>0. /\ \A row \in journal : row.id \in Ids
      /\ TypeOK'
    BY TypeStep DEF TypeOK, Rows
<1>a. \A row \in journal' : row.id \in Ids
    BY <1>0 DEF TypeOK, Rows
<1>1. ASSUME NEW dir \in Paths, ReadDir(dir)
      PROVE  HangInv'
    BY <1>1, <1>0, <1>a, HangKept DEF ReadDir
<1>2. ASSUME NEW r \in Requests, BeginMutation(r)
      PROVE  HangInv'
    BY <1>2, <1>0, <1>a, HangKept DEF BeginMutation
<1>3. CASE create_missing_upper_parent_directories
    BY <1>3, <1>0, <1>a, HangKept DEF create_missing_upper_parent_directories, Reply
<1>3s. CASE sync_copied_directory
    BY <1>3s, <1>0, <1>a, HangKept DEF sync_copied_directory, Reply
<1>4. CASE begin_recovery_operation
    <2>1. mode = "serving" /\ pc = "journal" /\ stage' = stage
        BY <1>4 DEF begin_recovery_operation
    <2>2. \A row \in journal' : stage'[row.id] = EmptyTree
        BY <1>4, BegunUnstaged
    <2>3. \A row \in journal' : Hanging(stage'[row.id], Destination(row))
        BY <1>a, <2>2, HangingEmpty
    <2>4. QED BY <2>2, <2>3 DEF HangInv
<1>5. CASE prepare_stage
    <2>1. CASE stage' = stage
        BY <1>5, <2>1, <1>0, <1>a, HangKept DEF prepare_stage
    <2>2. CASE CanStage(op) /\ stage' = [stage EXCEPT ![op.id] = Staged(op)]
        <3>1. /\ mode = "serving" /\ pc = "prepare" /\ journal' = journal
              /\ op.id \in Ids /\ op.kind \in StagedKinds
              /\ \A row \in journal : row.id # op.id => stage[row.id] = EmptyTree
            BY <1>5, OthersUnstaged DEF prepare_stage, OperationInv, Steps, StageInv, OnlyOwnStage
        <3>2. Hanging(Staged(op), Destination(op))
            BY <2>2, <3>1, StagedHangs DEF TypeOK, PresentInv
        <3>3. /\ stage'[op.id] = Staged(op)
              /\ \A row \in journal' : row.id # op.id => stage'[row.id] = EmptyTree
            BY <1>0, <2>2, <3>1 DEF TypeOK
        <3>4. ASSUME NEW row \in journal' PROVE Hanging(stage'[row.id], Destination(row))
            <4>1. CASE row.id = op.id
                <5>1. Destination(row) = Destination(op)
                    BY <3>1, <3>4, <4>1, OwnRow
                <5>2. QED BY <3>2, <3>3, <4>1, <5>1
            <4>2. CASE row.id # op.id
                BY <1>a, <3>3, <3>4, <4>2, HangingEmpty
            <4>3. QED BY <4>1, <4>2
        <3>5. QED BY <3>3, <3>4 DEF HangInv
    <2>3. QED BY <1>5, <2>1, <2>2 DEF prepare_stage
<1>6. CASE flush_stage
    BY <1>6, <1>0, <1>a, HangKept DEF flush_stage
<1>7. CASE set_recovery_operation_phase
    <2>1. stage' = stage
        BY <1>7, PhaseRows
    <2>2. \A row \in journal' : \E was \in journal : row.id = was.id /\ SameWork(row, was)
        BY <1>7, PhaseRows
    <2>3. QED BY <1>0, <1>a, <2>1, <2>2, HangKept
<1>8. CASE publish_staged_operation
    <2>1. \A i \in Ids : stage'[i] = stage[i] \/ stage'[i] = EmptyTree
        BY <1>8 DEF publish_staged_operation, TypeOK
    <2>2. QED BY <1>8, <2>1, <1>0, <1>a, HangKept DEF publish_staged_operation
<1>9. CASE sync_destination
    BY <1>9, <1>0, <1>a, HangKept DEF sync_destination, Reply
<1>10. CASE remove_upper_source
    BY <1>10, <1>0, <1>a, HangKept DEF remove_upper_source, Reply
<1>11. CASE sync_source
    BY <1>11, <1>0, <1>a, HangKept DEF sync_source, Reply
<1>12. CASE finish_recovery_operation
    BY <1>12, <1>0, <1>a, HangKept DEF finish_recovery_operation, Reply
<1>13. CASE discard_stage
    <2>1. op.id \in Ids
        BY <1>13 DEF OperationInv, Steps, discard_stage
    <2>2. ASSUME NEW q \in RemovableLeaf(stage[op.id], Destination(op)),
                 stage' = [stage EXCEPT ![op.id][q] = Absent],
                 journal' = journal
          PROVE  HangInv'
        BY <2>1, <2>2, <1>13, HangLess DEF discard_stage
    <2>3. QED BY <1>13, <2>2, <1>0, <1>a, HangKept DEF discard_stage
<1>14. CASE abandon_recovery_operation
    BY <1>14, <1>0, <1>a, HangKept DEF abandon_recovery_operation, Reply
<1>15. CASE Crash
    BY <1>15, <1>0, <1>a, HangKept DEF Crash, KeepsStorage
<1>16. CASE Restart
    BY <1>16, <1>0, <1>a, HangKept DEF Restart
<1>17. CASE recover_next_operation
    BY <1>17, RecoverEffect, <1>0, <1>a, HangKept
<1>18. CASE recover_rollback
    <2>1. op.id \in Ids
        BY <1>18 DEF OperationInv, Steps, recover_rollback
    <2>2. ASSUME NEW q \in RemovableLeaf(stage[op.id], Destination(op)),
                 stage' = [stage EXCEPT ![op.id][q] = Absent],
                 journal' = journal
          PROVE  HangInv'
        BY <2>1, <2>2, <1>18, HangLess DEF recover_rollback
    <2>3. QED BY <1>18, <2>2, <1>0, <1>a, HangKept DEF recover_rollback
<1>19. CASE publish_staged_entry
    <2>1. \A i \in Ids : stage'[i] = stage[i] \/ stage'[i] = EmptyTree
        BY <1>19 DEF publish_staged_entry, TypeOK, Refuse
    <2>2. QED BY <1>19, <2>1, <1>0, <1>a, HangKept DEF publish_staged_entry, Refuse
<1>20. CASE recover_sync
    BY <1>20, <1>0, <1>a, HangKept DEF recover_sync
<1>21. CASE remove_upper_entry
    BY <1>21, <1>0, <1>a, HangKept DEF remove_upper_entry, Refuse
<1>22. CASE recover_sync_source
    BY <1>22, <1>0, <1>a, HangKept DEF recover_sync_source
<1>23. CASE recover_finish
    BY <1>23, <1>0, <1>a, HangKept DEF recover_finish
<1>24. CASE recover_error
    BY <1>24, <1>0, <1>a, HangKept DEF recover_error, Refuse
<1>25. CASE open_workspace
    BY <1>25, <1>0, <1>a, HangKept DEF open_workspace
<1>26. CASE UNCHANGED vars
    BY <1>26, <1>0, <1>a, HangKept DEF vars
<1>27. QED
    BY <1>1, <1>2, <1>3, <1>3s, <1>4, <1>5, <1>6, <1>7, <1>8, <1>9, <1>10, <1>11, <1>12, <1>13,
       <1>14, <1>15, <1>16, <1>17, <1>18, <1>19, <1>20, <1>21, <1>22, <1>23, <1>24, <1>25, <1>26
       DEF Next, Mutation, recover_interrupted_operations

(* Every step keeps what the next one relies on. *)
LEMMA WorkStep ==
    ASSUME TypeOK, OperationInv, TombstonesAgree, StageInv, ProgressInv, TreeInv, WorkInv,
           [Next]_vars
    PROVE  WorkInv'
<1> USE NoOpFields DEF At, Recovering, storage, metadata, Published
<1>1. ASSUME NEW dir \in Paths, ReadDir(dir)
      PROVE  WorkInv'
    BY <1>1, WorkIdle DEF ReadDir
<1>2. ASSUME NEW r \in Requests, BeginMutation(r)
      PROVE  WorkInv'
    <2>1. /\ r.kind \in Kinds /\ r.path \in Paths /\ r.target \in Paths
          /\ op'.kind = r.kind /\ op'.path = r.path /\ op'.target = r.target
          /\ pc' = IF r.kind \in RemovingKinds THEN "journal" ELSE "parents"
          /\ Admitted(View, r) /\ upper' = upper /\ tombMem' = tombMem
        BY <1>2, RequestsAssumption DEF BeginMutation, RequestType
    <2>2. View' = View
        BY <2>1 DEF View
    <2>3. Admitted(View, op)'
        BY <2>1, <2>2, AdmittedSame
    <2>4. r.kind \in RemovingKinds => r.kind \notin StagedKinds
        BY DEF StagedKinds, RemovingKinds, CreatingKinds, ReplacingKinds
    <2>5. QED BY <2>1, <2>3, <2>4 DEF WorkInv
<1>3. CASE create_missing_upper_parent_directories
    <2>1. CASE pc' = "idle"
        BY <2>1, WorkIdle
    <2>2. CASE pc' = "syncparents" /\ op' = op
        <3>1. /\ tombDB' = tombDB /\ tombMem' = tombMem /\ mode = "serving" /\ pc = "parents"
              /\ \A p \in Paths : Shape(StoredView'[p]) = Shape(StoredView[p])
            BY <1>3, CopyUpEffect
        <3>2. StoredView = View /\ StoredView' = View'
            BY <3>1, ServedView DEF StoredView, View
        <3>3. \A p \in Paths : View'[p].kind = View[p].kind
            BY <3>1, <3>2 DEF Shape
        <3>4. op.kind \in Kinds /\ op.path \in Paths /\ op.target \in Paths /\ Admitted(View, op)
            BY <3>1
               DEF OperationInv, TypeOK, Operations, WorkInv, BeforeEffect, Unpublished, Steps
        <3>5. Admitted(View, op)'
            BY <2>2, <3>3, <3>4, AdmittedByKinds
        <3>6. QED BY <2>2, <3>5 DEF WorkInv
    <2>3. CASE pc' = "journal" /\ op' = op /\ ParentsToMake = {} /\ upper' = upper
        <3>1. tombMem' = tombMem /\ mode = "serving" /\ pc = "parents"
            BY <1>3, CopyUpEffect
        <3>2. ParentsMade(op)'
            BY <2>3 DEF ParentsMade, ParentsToMake, Destination
        <3>3. View' = View
            BY <2>3, <3>1 DEF View
        <3>4. Admitted(View, op)
            BY <3>1 DEF WorkInv, BeforeEffect, Unpublished, Steps
        <3>5. Admitted(View, op)'
            BY <2>3, <3>3, <3>4, AdmittedSame
        <3>6. QED BY <2>3, <3>2, <3>5 DEF WorkInv
    <2>4. QED
        BY <1>3, <2>1, <2>2, <2>3
           DEF create_missing_upper_parent_directories, Reply, Outermost
<1>3s. CASE sync_copied_directory
    <2>1. CASE pc' = "idle"
        BY <2>1, WorkIdle
    <2>2. CASE pc' = "parents" /\ op' = op
        <3>1. upper' = upper /\ tombMem' = tombMem /\ mode = "serving" /\ pc = "syncparents"
            BY <1>3s DEF sync_copied_directory
        <3>2. View' = View
            BY <3>1 DEF View
        <3>3. Admitted(View, op)
            BY <3>1 DEF WorkInv, BeforeEffect, Unpublished, Steps
        <3>4. Admitted(View, op)'
            BY <2>2, <3>2, <3>3, AdmittedSame
        <3>5. QED BY <2>2, <3>4 DEF WorkInv
    <2>3. QED BY <1>3s, <2>1, <2>2 DEF sync_copied_directory, Reply
<1>4. CASE begin_recovery_operation
    <2>1. CASE pc' = "idle"
        BY <2>1, WorkIdle
    <2>2. CASE /\ op'.kind = op.kind /\ op'.path = op.path /\ op'.target = op.target
               /\ op'.add <=> op.kind \in RemovingKinds \cup {"rename"} /\ HidesBase(op.path)
               /\ op'.drop <=> op.kind = "rename"
               /\ pc' = IF op.kind \in RemovingKinds THEN "phase" ELSE "prepare"
        <3>1. mode = "serving" /\ pc = "journal" /\ upper' = upper /\ tombMem' = tombMem
            BY <1>4 DEF begin_recovery_operation
        <3>2. View' = View /\ (HidesBase(op.path)' <=> HidesBase(op.path))
            BY <2>2, <3>1 DEF View, HidesBase
        <3>3. Admitted(View, op) /\ (op.kind \in StagedKinds => ParentsMade(op))
            BY <3>1 DEF WorkInv, BeforeEffect, Unpublished, Steps
        <3>4. Admitted(View, op)'
            BY <2>2, <3>2, <3>3, AdmittedSame
        <3>5. op.kind \in StagedKinds => ParentsMade(op)'
            BY <2>2, <3>1, <3>3 DEF ParentsMade, Destination
        <3>6. op.kind \in RemovingKinds => op.kind \notin StagedKinds
            BY DEF StagedKinds, RemovingKinds, CreatingKinds, ReplacingKinds
        <3>7. QED BY <2>2, <3>2, <3>4, <3>5, <3>6 DEF WorkInv, LeavingKinds
    <2>3. QED BY <1>4, <2>1, <2>2, BeginEffect
<1>5. CASE prepare_stage
    <2>1. /\ mode = "serving" /\ pc = "prepare" /\ op' = op /\ upper' = upper /\ tombMem' = tombMem
          /\ op.id \in Ids
        BY <1>5 DEF prepare_stage, OperationInv, Steps
    <2>2. CASE pc' = "discard"
        BY <2>1, <2>2, WorkKept DEF BeforeEffect, Unpublished, Steps
    <2>3. CASE pc' = "flush" /\ CanStage(op) /\ stage' = [stage EXCEPT ![op.id] = Staged(op)]
        <3>1. View' = View /\ (HidesBase(op.path)' <=> HidesBase(op.path))
            BY <2>1 DEF View, HidesBase
        <3>2. Admitted(View, op)' <=> Admitted(View, op)
            BY <2>1, <3>1, AdmittedSame
        <3>3. ParentsMade(op)' <=> ParentsMade(op)
            BY <2>1 DEF ParentsMade, Destination
        <3>4. (CanStage(op)' <=> CanStage(op)) /\ Staged(op)' = Staged(op)
            BY <2>1, <3>1 DEF CanStage, Staged, Destination
        <3>5. stage'[op.id] = Staged(op)
            BY <2>1, <2>3 DEF TypeOK
        <3>6. QED BY <2>1, <2>3, <3>1, <3>2, <3>3, <3>4, <3>5
                  DEF WorkInv, BeforeEffect, Unpublished, Steps
    <2>4. QED BY <1>5, <2>2, <2>3 DEF prepare_stage
<1>6. CASE flush_stage
    BY <1>6, WorkKept DEF flush_stage, BeforeEffect, Unpublished, Steps
<1>7. CASE set_recovery_operation_phase
    <2>1. pc' \in {"source", "publish", "abandon", "discard"}
          /\ (pc' = "source" => op.kind \in RemovingKinds)
        BY <1>7, PhaseRows
    <2>2. QED BY <1>7, <2>1, PhaseRows, WorkKept DEF BeforeEffect, Unpublished, Steps
<1>8. CASE publish_staged_operation
    <2>1. mode = "serving" /\ pc = "publish" /\ op' = op /\ tombMem' = tombMem
        BY <1>8 DEF publish_staged_operation
    <2>2. CASE pc' = "discard" /\ upper' = upper
        BY <2>1, <2>2, WorkKept DEF BeforeEffect, Unpublished, Steps
    <2>3. CASE pc' = "sync"
        BY <2>1, <2>3, WorkLate DEF Steps
    <2>4. QED BY <1>8, <2>2, <2>3 DEF publish_staged_operation
<1>9. CASE sync_destination
    <2>1. CASE op' = op /\ pc' = IF op.kind = "rename" THEN "source" ELSE "finish"
        BY <1>9, <2>1, WorkLate DEF sync_destination, Steps, RemovingKinds
    <2>2. QED BY <1>9, <2>1, WorkIdle DEF sync_destination, Reply
<1>10. CASE remove_upper_source
    <2>1. mode = "serving" /\ pc = "source" /\ tombMem' = tombMem
        BY <1>10 DEF remove_upper_source
    <2>2. CASE pc' = "idle"
        BY <2>2, WorkIdle
    <2>3. CASE pc' \in {"finish", "syncsource"} /\ op' = op
        BY <2>1, <2>3, WorkLate DEF Steps
    <2>4. CASE pc' = "abandon" /\ op' = op /\ upper' = upper /\ op.kind \in RemovingKinds
        BY <2>1, <2>4, WorkKept DEF BeforeEffect, Unpublished, Steps
    <2>5. ASSUME NEW q \in RemovableLeaf(upper, op.path), pc' = "source", q # op.path,
                 op' = op
          PROVE  WorkInv'
        <3>1. op.kind \notin RemovingKinds
            <4>1. SUFFICES ASSUME op.kind \in RemovingKinds PROVE FALSE
                OBVIOUS
            <4>2. Admitted(View, op)
                BY <2>1, <4>1 DEF WorkInv, BeforeEffect
            <4>3. QED BY <2>1, <2>5, <4>1, <4>2, RemovesOne
        <3>2. QED BY <2>1, <2>5, <3>1, WorkLate DEF Steps
    <2>6. QED BY <1>10, <2>2, <2>3, <2>4, <2>5 DEF remove_upper_source, Reply
<1>11. CASE sync_source
    <2>1. CASE op' = op /\ pc' = "finish"
        BY <1>11, <2>1, WorkLate DEF sync_source, Steps
    <2>2. QED BY <1>11, <2>1, WorkIdle DEF sync_source, Reply
<1>12. CASE finish_recovery_operation
    BY <1>12, WorkIdle DEF finish_recovery_operation, Reply
<1>13. CASE discard_stage
    BY <1>13, WorkKept DEF discard_stage, BeforeEffect, Unpublished, Steps
<1>14. CASE abandon_recovery_operation
    BY <1>14, WorkIdle DEF abandon_recovery_operation, Reply
<1>15. CASE Crash
    BY <1>15, WorkIdle DEF Crash
<1>16. CASE Restart
    BY <1>16, WorkIdle DEF Restart
<1>17. CASE recover_next_operation
    BY <1>17, RecoverEffect, WorkIdle
<1>18. CASE recover_rollback
    BY <1>18, WorkIdle DEF recover_rollback
<1>19. CASE publish_staged_entry
    BY <1>19, WorkIdle DEF publish_staged_entry, Refuse
<1>20. CASE recover_sync
    BY <1>20, WorkIdle DEF recover_sync
<1>21. CASE remove_upper_entry
    BY <1>21, WorkIdle DEF remove_upper_entry, Refuse
<1>22. CASE recover_sync_source
    BY <1>22, WorkIdle DEF recover_sync_source
<1>23. CASE recover_finish
    BY <1>23, WorkIdle DEF recover_finish
<1>24. CASE recover_error
    BY <1>24, WorkIdle DEF recover_error, Refuse
<1>25. CASE open_workspace
    BY <1>25, WorkIdle DEF open_workspace
<1>26. CASE UNCHANGED vars
    <2>1. View' = View /\ op' = op /\ upper' = upper /\ stage' = stage /\ pc' = pc /\ mode' = mode
        BY <1>26 DEF vars, View
    <2>2. HidesBase(op.path)' <=> HidesBase(op.path)
        BY <1>26, <2>1 DEF vars, HidesBase
    <2>3. (Admitted(View, op)' <=> Admitted(View, op)) /\ (BeforeEffect' <=> BeforeEffect)
        BY <2>1, AdmittedSame DEF BeforeEffect
    <2>4. ParentsMade(op)' <=> ParentsMade(op)
        BY <2>1 DEF ParentsMade, Destination
    <2>5. (CanStage(op)' <=> CanStage(op)) /\ Staged(op)' = Staged(op)
        BY <2>1 DEF CanStage, Staged, Destination
    <2>6. QED BY <2>1, <2>2, <2>3, <2>4, <2>5 DEF WorkInv
<1>27. QED
    BY <1>1, <1>2, <1>3, <1>3s, <1>4, <1>5, <1>6, <1>7, <1>8, <1>9, <1>10, <1>11, <1>12, <1>13,
       <1>14, <1>15, <1>16, <1>17, <1>18, <1>19, <1>20, <1>21, <1>22, <1>23, <1>24, <1>25, <1>26
       DEF Next, Mutation, recover_interrupted_operations

(* Every step keeps what the history says of the mutation under way. *)
LEMMA RunningStep ==
    ASSUME Ordinary, TypeOK, OperationInv, TombstonesAgree, SInv, RowInv, ProgressInv,
           TreeInv, WorkInv, RunningInv, [Next]_vars
    PROVE  RunningInv'
<1> USE NoOpFields DEF At, Recovering, storage, metadata, Published
<1>0. result = "running" <=> mode = "serving" /\ pc # "idle"
    BY DEF RunningInv
<1>1. ASSUME NEW dir \in Paths, ReadDir(dir)
      PROVE  RunningInv'
    BY <1>1, <1>0, RunningIdle DEF ReadDir, history, RecoverySame
<1>2. ASSUME NEW r \in Requests, BeginMutation(r)
      PROVE  RunningInv'
    <2>1. /\ op'.kind = r.kind /\ op'.path = r.path /\ op'.target = r.target /\ op'.val = r.val
          /\ pc' \in {"journal", "parents"} /\ mode' = "serving" /\ upper' = upper /\ tombMem' = tombMem
          /\ old' = ShapeOf(View) /\ new' = Applied(ShapeOf(View), r) /\ result' = "running"
          /\ clean' => ~\E row \in journal : row.phase = "publishing"
          /\ journal' = journal
        BY <1>2 DEF BeginMutation
    <2>2. View' = View /\ new' = Applied(old', op')
        BY <2>1, AppliedSame DEF View
    <2>3. clean' => PublishingRows' = {}
        BY <2>1 DEF PublishingRows
    <2>4. QED BY <2>1, <2>2, <2>3 DEF RunningInv
<1>3. CASE create_missing_upper_parent_directories
    <2>1. CASE pc' = "idle" /\ result' = "error"
        BY <2>1, RunningIdle
    <2>2. CASE pc' = "journal" /\ UNCHANGED <<upper, op, history>>
        BY <1>3, <2>2, CopyUpEffect, RunningKept
           DEF create_missing_upper_parent_directories, BeforeEffect, CrashCompletes, Unpublished, Steps
    <2>3. CASE pc' = "syncparents" /\ UNCHANGED <<op, history>>
        <3>1. /\ tombDB' = tombDB /\ tombMem' = tombMem /\ mode = "serving" /\ pc = "parents"
              /\ mode' = mode /\ journal' = journal
              /\ \A p \in Paths : Shape(StoredView'[p]) = Shape(StoredView[p])
            BY <1>3, CopyUpEffect DEF create_missing_upper_parent_directories
        <3>2. StoredView = View /\ StoredView' = View'
            BY <3>1, ServedView DEF StoredView, View
        <3>3. ShapeOf(View') = ShapeOf(View)
            BY <3>1, <3>2 DEF ShapeOf
        <3>4. PublishingRows' = PublishingRows
            BY <3>1 DEF PublishingRows
        <3>5. ShapeOf(View)' = ShapeOf(View')
            BY DEF ShapeOf
        <3>6. BeforeEffect /\ ~CrashCompletes'
            BY <2>3, <3>1 DEF BeforeEffect, CrashCompletes, Unpublished, Steps
        <3>7. result' = result /\ clean' = clean /\ old' = old /\ new' = new /\ op' = op
            BY <2>3 DEF history
        <3>8. QED BY <2>3, <3>1, <3>3, <3>4, <3>5, <3>6, <3>7 DEF RunningInv
    <2>4. QED BY <1>3, <2>1, <2>2, <2>3 DEF create_missing_upper_parent_directories, Reply
<1>3s. CASE sync_copied_directory
    <2>1. CASE pc' = "idle" /\ result' = "error"
        BY <2>1, RunningIdle
    <2>2. CASE pc' = "parents" /\ UNCHANGED <<op, history>>
        BY <1>3s, <2>2, RunningKept
           DEF sync_copied_directory, BeforeEffect, CrashCompletes, Unpublished, Steps
    <2>3. QED BY <1>3s, <2>1, <2>2 DEF sync_copied_directory, Reply
<1>4. CASE begin_recovery_operation
    <2>1. CASE pc' = "idle" /\ result' = "error"
        BY <2>1, RunningIdle
    <2>2. CASE UNCHANGED history /\ pc' # "idle"
        <3>1. /\ mode = "serving" /\ pc = "journal" /\ mode' = mode /\ upper' = upper /\ tombMem' = tombMem
              /\ result' = result /\ clean' = clean /\ old' = old /\ new' = new /\ op'.val = op.val
            BY <1>4, <2>2 DEF begin_recovery_operation, Reply, history, TypeOK, Operations
        <3>2. /\ \E row : journal' = journal \cup {row} /\ row.phase = "prepared"
              /\ op'.kind = op.kind /\ op'.path = op.path /\ op'.target = op.target
              /\ pc' \in {"phase", "prepare"}
            BY <1>4, <2>2, BeginEffect
        <3>3. PublishingRows' = PublishingRows
            BY <3>2 DEF PublishingRows
        <3>4. \A row \in journal : row.id # op.id
            <4>1. op.id = 0
                BY <3>1 DEF SInv, StageInv, OnlyOwnStage
            <4>2. QED BY <4>1, NoOpStage DEF TypeOK, Rows
        <3>5. result = "running" /\ clean => PublishingRows = {}
            BY <3>4 DEF RunningInv, PublishingRows
        <3>6. View' = View /\ Applied(old, op') = Applied(old, op) /\ BeforeEffect
            BY <3>1, <3>2, AppliedSame DEF View, BeforeEffect, Unpublished, Steps
        <3>7. QED BY <3>1, <3>2, <3>3, <3>5, <3>6 DEF RunningInv
    <2>3. QED BY <1>4, <2>1, <2>2, BeginEffect DEF begin_recovery_operation, Reply
<1>5. CASE prepare_stage
    BY <1>5, RunningKept DEF prepare_stage, BeforeEffect, CrashCompletes, Unpublished, Steps
<1>6. CASE flush_stage
    BY <1>6, RunningKept DEF flush_stage, BeforeEffect, CrashCompletes, Unpublished, Steps
<1>7. CASE set_recovery_operation_phase
    <2>1. /\ mode = "serving" /\ pc = "phase" /\ mode' = mode /\ op' = op /\ View' = View
          /\ upper' = upper /\ stage' = stage /\ tombDB' = tombDB /\ pc' # "idle" /\ pc' \in Steps
        BY <1>7, PhaseRows DEF View, Steps
    <2>2. /\ result' = result /\ clean' = clean /\ old' = old /\ new' = new
        BY <1>7 DEF set_recovery_operation_phase, history
    <2>3. SUFFICES ASSUME result = "running", clean
                   PROVE  /\ PublishingRows' \subseteq {row \in journal' : row.id = op.id}
                          /\ CrashCompletes' =>
                                \A row \in PublishingRows' : ShapeOf(Settled(row))' = new
        <3>1. BeforeEffect
            BY <2>1 DEF BeforeEffect, Unpublished, Steps
        <3>2. QED BY <1>0, <2>1, <2>2, <3>1 DEF RunningInv
    <2>4. PublishingRows = {}
        <3>1. \A row \in journal : row.id = op.id => row.phase = "prepared"
            BY <2>1, OwnRow
        <3>2. QED BY <2>3, <3>1 DEF RunningInv, PublishingRows
    <2>5. CASE journal' = journal
        BY <2>4, <2>5 DEF PublishingRows
    <2>6. CASE \A row \in journal' : \E was \in journal :
                   /\ row.id = was.id /\ SameWork(row, was)
                   /\ IF was.id = op.id THEN row.phase = "publishing" ELSE row = was
        <3>1. ASSUME NEW row \in PublishingRows'
              PROVE  row.id = op.id /\ ShapeOf(Settled(row))' = new
            <4>1. row \in journal' /\ row.phase = "publishing"
                BY <3>1 DEF PublishingRows
            <4>2. PICK was \in journal :
                     /\ row.id = was.id /\ SameWork(row, was)
                     /\ IF was.id = op.id THEN row.phase = "publishing" ELSE row = was
                BY <2>6, <4>1
            <4>3. was.id = op.id
                BY <2>4, <4>1, <4>2 DEF PublishingRows
            <4>4. SameWork(row, op)
                BY <2>1, <4>2, <4>3, OwnRow DEF SameWork
            <4>5. ShapeOf(Settled(row)) = Applied(ShapeOf(View), op)
                BY <2>1, <4>2, <4>3, <4>4, SettledApplies DEF SInv
            <4>6. Applied(ShapeOf(View), op) = new
                BY <2>1, <2>3 DEF RunningInv, BeforeEffect, Unpublished, Steps
            <4>7. Settled(row)' = Settled(row)
                BY <2>1 DEF Settled
            <4>8. ShapeOf(Settled(row))' = ShapeOf(Settled(row)')
                BY DEF ShapeOf
            <4>9. QED BY <4>2, <4>3, <4>5, <4>6, <4>7, <4>8
        <3>2. QED BY <3>1 DEF PublishingRows
    <2>7. QED BY <1>7, <2>5, <2>6, PhaseRows
<1>8. CASE publish_staged_operation
    <2>1. mode = "serving" /\ pc = "publish" /\ op' = op /\ op.kind \in StagedKinds /\ op.id \in Ids
        BY <1>8 DEF publish_staged_operation, SInv, StageInv, OnlyOwnStage, OperationInv, Steps
    <2>2. CASE pc' = "discard" /\ upper' = upper
        <3>1. op.kind \notin RemovingKinds
            BY <2>1 DEF StagedKinds, RemovingKinds, CreatingKinds, ReplacingKinds
        <3>2. QED BY <1>8, <2>1, <2>2, <3>1, RunningKept
              DEF publish_staged_operation, BeforeEffect, CrashCompletes, Unpublished, Steps
    <2>3. CASE /\ pc' = "sync" /\ upper' = Overlay(upper, stage[op.id], Destination(op))
               /\ stage' = [stage EXCEPT ![op.id] = EmptyTree]
        <3>1. /\ result' = result /\ clean' = clean /\ old' = old /\ new' = new
              /\ mode' = mode /\ tombDB' = tombDB /\ journal' = journal
            BY <1>8 DEF publish_staged_operation, history
        <3>2. Exists(stage[op.id], Destination(op))
            BY <2>1 DEF SInv, PresentInv
        <3>3. ASSUME NEW row \in journal, row.id = op.id
              PROVE  ShapeOf(Settled(row))' = ShapeOf(Settled(row))
            <4>1. SameWork(row, op)
                BY <2>1, <3>3, OwnRow
            <4>2. Settled(row)' = Settled(row)
                BY <2>1, <2>3, <3>1, <3>2, <3>3, <4>1, SettledPublished
            <4>3. QED BY <4>2 DEF ShapeOf
        <3>4. PublishingRows' = PublishingRows /\ PublishingRows \subseteq journal
            BY <3>1 DEF PublishingRows
        <3>5. CrashCompletes /\ ~BeforeEffect'
            BY <2>1, <2>3 DEF CrashCompletes, BeforeEffect, Unpublished
        <3>6. QED BY <1>0, <2>1, <2>3, <3>1, <3>3, <3>4, <3>5 DEF RunningInv
    <2>4. QED BY <1>8, <2>2, <2>3 DEF publish_staged_operation
<1>9. CASE sync_destination
    <2>1. CASE pc' = "idle" /\ result' = "late"
        BY <2>1, RunningIdle
    <2>2. CASE UNCHANGED <<op, history>> /\ pc' = IF op.kind = "rename" THEN "source" ELSE "finish"
        BY <1>9, <2>2, RunningKept
           DEF sync_destination, BeforeEffect, CrashCompletes, Unpublished, Steps, RemovingKinds
    <2>3. QED BY <1>9, <2>1, <2>2 DEF sync_destination, Reply
<1>10. CASE remove_upper_source
    <2>1. /\ mode = "serving" /\ pc = "source" /\ mode' = mode /\ stage' = stage /\ tombDB' = tombDB
          /\ tombMem' = tombMem /\ journal' = journal /\ op.kind \in LeavingKinds
        BY <1>10 DEF remove_upper_source, ProgressInv
    <2>2. CASE pc' = "idle" /\ result' = "late"
        BY <2>2, RunningIdle
    <2>3. CASE /\ pc' = "finish" \/ (pc' = "abandon" /\ op.kind \in RemovingKinds)
               /\ UNCHANGED <<upper, op, history>>
        BY <2>1, <2>3, RunningKept DEF BeforeEffect, CrashCompletes, Unpublished, Steps
    <2>4. ASSUME NEW q \in RemovableLeaf(upper, op.path),
                 upper' = [upper EXCEPT ![q] = Absent],
                 pc' = IF q = op.path THEN "syncsource" ELSE "source", UNCHANGED <<op, history>>
          PROVE  RunningInv'
        <3>1. q \in Paths /\ Under(op.path, q) /\ upper \in Trees
            BY <2>4 DEF RemovableLeaf, TypeOK
        <3>2. op.kind \in RemovingKinds => q = op.path
            <4>1. SUFFICES ASSUME op.kind \in RemovingKinds PROVE q = op.path
                OBVIOUS
            <4>2. Admitted(View, op)
                BY <2>1, <4>1 DEF WorkInv, BeforeEffect
            <4>3. QED BY <2>1, <2>4, <4>1, <4>2, RemovesOne
        <3>3. ~BeforeEffect' /\ CrashCompletes /\ pc' # "idle"
            BY <2>1, <2>4, <3>2 DEF BeforeEffect, Unpublished, CrashCompletes
        <3>4. ASSUME NEW row \in journal, row.id = op.id
              PROVE  ShapeOf(Settled(row))' = ShapeOf(Settled(row))
            <4>1. SameWork(row, op) /\ Destination(row) = Destination(op)
                BY <2>1, <3>4, OwnRow
            <4>2. row.kind \in LeavingKinds /\ row.path = op.path
                BY <2>1, <4>1 DEF SameWork
            <4>3. row.kind \in StagedKinds => ~Exists(stage[row.id], Destination(row))
                BY <2>1, <3>4, <4>1 DEF ProgressInv, SameWork
            <4>4. Settled(row)' = Settled(row)
                BY <2>1, <2>4, <3>1, <4>2, <4>3, SettledLess
            <4>5. QED BY <4>4 DEF ShapeOf
        <3>5. PublishingRows' = PublishingRows /\ PublishingRows \subseteq journal
            BY <2>1 DEF PublishingRows
        <3>6. /\ result' = result /\ clean' = clean /\ old' = old /\ new' = new /\ op' = op
            BY <2>4 DEF history
        <3>7. QED BY <1>0, <2>1, <3>3, <3>4, <3>5, <3>6 DEF RunningInv
    <2>5. QED BY <1>10, <2>2, <2>3, <2>4 DEF remove_upper_source, Reply
<1>11. CASE sync_source
    <2>1. CASE pc' = "idle" /\ result' = "late"
        BY <2>1, RunningIdle
    <2>2. CASE UNCHANGED <<op, history>> /\ pc' = "finish"
        BY <1>11, <2>2, RunningKept
           DEF sync_source, BeforeEffect, CrashCompletes, Unpublished
    <2>3. QED BY <1>11, <2>1, <2>2 DEF sync_source, Reply
<1>12. CASE finish_recovery_operation
    BY <1>12, <1>0, RunningIdle DEF finish_recovery_operation, Reply, history, RecoverySame
<1>13. CASE discard_stage
    <2>1. op.kind \notin RemovingKinds
        BY <1>13 DEF discard_stage, SInv, StageInv, OnlyOwnStage, StagedKinds, RemovingKinds,
           CreatingKinds, ReplacingKinds
    <2>2. QED BY <1>13, <2>1, RunningKept
          DEF discard_stage, BeforeEffect, CrashCompletes, Unpublished, Steps
<1>14. CASE abandon_recovery_operation
    BY <1>14, <1>0, RunningIdle DEF abandon_recovery_operation, Reply, history, RecoverySame
<1>15. CASE Crash
    BY <1>15, <1>0, RunningIdle DEF Crash, history, RecoverySame
<1>16. CASE Restart
    BY <1>16, <1>0, RunningIdle DEF Restart, history, RecoverySame
<1>17. CASE recover_next_operation
    <2>1. result' = result
        BY <1>17 DEF recover_next_operation, RecoverySame, history
    <2>2. QED BY <1>0, <1>17, <2>1, RecoverEffect, RunningIdle
<1>18. CASE recover_rollback
    BY <1>18, <1>0, RunningIdle DEF recover_rollback, history, RecoverySame
<1>19. CASE publish_staged_entry
    BY <1>19, <1>0, RunningIdle DEF publish_staged_entry, Refuse, history, RecoverySame
<1>20. CASE recover_sync
    BY <1>20, <1>0, RunningIdle DEF recover_sync, history, RecoverySame
<1>21. CASE remove_upper_entry
    BY <1>21, <1>0, RunningIdle DEF remove_upper_entry, Refuse, history, RecoverySame
<1>22. CASE recover_sync_source
    BY <1>22, <1>0, RunningIdle DEF recover_sync_source, history, RecoverySame
<1>23. CASE recover_finish
    BY <1>23, <1>0, RunningIdle DEF recover_finish, history, RecoverySame
<1>24. CASE recover_error
    BY <1>24, <1>0, RunningIdle DEF recover_error, Refuse, history, RecoverySame
<1>25. CASE open_workspace
    BY <1>25, <1>0, RunningIdle DEF open_workspace, history, RecoverySame
<1>26. CASE UNCHANGED vars
    BY <1>26, RunningKept DEF vars, BeforeEffect, CrashCompletes
<1>27. QED
    BY <1>1, <1>2, <1>3, <1>3s, <1>4, <1>5, <1>6, <1>7, <1>8, <1>9, <1>10, <1>11, <1>12, <1>13,
       <1>14, <1>15, <1>16, <1>17, <1>18, <1>19, <1>20, <1>21, <1>22, <1>23, <1>24, <1>25, <1>26
       DEF Next, Mutation, recover_interrupted_operations

(* A crash after the row is in phase publishing leaves the row of the operation alone, *)
(* unless it interrupts its rolling back.                                              *)
LEMMA CrashedPublished ==
    ASSUME TypeOK, OperationInv, SInv, RowInv, RunningInv, clean, mode = "serving", pc # "idle",
           ~RollingBackPublication, NEW row \in PublishingRows
    PROVE  row \in journal /\ row.id = op.id /\ CrashCompletes
<1> USE DEF Published
<1>1. row \in journal /\ row.id = op.id /\ row.phase = "publishing"
    BY DEF RunningInv, PublishingRows
<1>2. pc \notin {"parents", "syncparents", "journal"}
    <2>1. op.id # 0
        BY <1>1, NoOpStage DEF TypeOK, Rows
    <2>2. QED BY <2>1 DEF SInv, StageInv, OnlyOwnStage
<1>3. pc \notin {"prepare", "flush", "phase"}
    <2>1. SUFFICES ASSUME pc \in {"prepare", "flush", "phase"} PROVE FALSE
        OBVIOUS
    <2>2. QED BY <1>1, <2>1, OwnRow
<1>4. pc # "discard"
    BY <1>1 DEF RollingBackPublication, SInv, StageInv, OnlyOwnStage
<1>5. pc = "abandon" => op.kind \in RemovingKinds
    <2>1. op.kind \in Kinds
        BY DEF OperationInv
    <2>2. QED BY <1>1, <2>1 DEF RollingBackPublication, Kinds
<1>6. QED BY <1>1, <1>2, <1>3, <1>4, <1>5 DEF CrashCompletes, TypeOK, Steps

(* Every step keeps what the history says of the last mutation. *)
LEMMA OutcomeStep ==
    ASSUME Ordinary, TypeOK, OperationInv, TombstonesAgree, SInv, RowInv, ProgressInv,
           LeftInv, HangInv, TreeInv, WorkInv, RunningInv, OutcomeInv, [Next]_vars, KeepsStorage
    PROVE  OutcomeInv'
<1> USE NoOpFields DEF At, Recovering, storage, metadata, Published
<1>0. result = "running" <=> mode = "serving" /\ pc # "idle"
    BY DEF RunningInv
<1>1. ASSUME NEW dir \in Paths, ReadDir(dir)
      PROVE  OutcomeInv'
    BY <1>1, <1>0, OutcomeKept DEF ReadDir, history, RecoverySame, PublishingRows
<1>2. ASSUME NEW r \in Requests, BeginMutation(r)
      PROVE  OutcomeInv'
    BY <1>2, <1>0, OutcomeRunning DEF BeginMutation, history, RecoverySame, PublishingRows
<1>3. CASE create_missing_upper_parent_directories
    <2>1. CASE pc' = "idle" /\ result' = "error" /\ UNCHANGED <<upper, old, new, clean>>
        <3>1. mode = "serving" /\ pc = "parents" /\ tombDB' = tombDB /\ journal' = journal
            BY <1>3, CopyUpEffect
        <3>2. \A row \in journal : row.id # op.id
            <4>1. op.id = 0
                BY <3>1 DEF SInv, StageInv, OnlyOwnStage
            <4>2. QED BY <4>1, NoOpStage DEF TypeOK, Rows
        <3>3. clean => PublishingRows' = {}
            BY <1>0, <3>1, <3>2 DEF RunningInv, PublishingRows
        <3>4. QED BY <2>1, <3>1, <3>3, ErrorOutcome DEF BeforeEffect, Unpublished, Steps
    <2>2. CASE UNCHANGED history
        BY <1>0, <1>3, <2>2, OutcomeRunning
           DEF create_missing_upper_parent_directories, history
    <2>3. QED BY <1>3, <2>1, <2>2 DEF create_missing_upper_parent_directories, Reply
<1>3s. CASE sync_copied_directory
    <2>1. CASE result' = "error" /\ UNCHANGED <<old, new, clean>>
        <3>1. /\ mode = "serving" /\ pc = "syncparents"
              /\ tombDB' = tombDB /\ upper' = upper /\ journal' = journal
            BY <1>3s DEF sync_copied_directory
        <3>2. \A row \in journal : row.id # op.id
            <4>1. op.id = 0
                BY <3>1 DEF SInv, StageInv, OnlyOwnStage
            <4>2. QED BY <4>1, NoOpStage DEF TypeOK, Rows
        <3>3. clean => PublishingRows' = {}
            BY <1>0, <3>1, <3>2 DEF RunningInv, PublishingRows
        <3>4. QED BY <2>1, <3>1, <3>3, ErrorOutcome DEF BeforeEffect, Unpublished, Steps
    <2>2. CASE UNCHANGED history
        BY <1>0, <1>3s, <2>2, OutcomeRunning DEF sync_copied_directory, history
    <2>3. QED BY <1>3s, <2>1, <2>2 DEF sync_copied_directory, Reply
<1>4. CASE begin_recovery_operation
    <2>1. CASE result' = "error" /\ UNCHANGED <<old, new, clean>> /\ journal' = journal
        <3>1. mode = "serving" /\ pc = "journal" /\ tombDB' = tombDB /\ upper' = upper /\ journal' = journal
            BY <1>4, <2>1 DEF begin_recovery_operation
        <3>2. \A row \in journal : row.id # op.id
            <4>1. op.id = 0
                BY <3>1 DEF SInv, StageInv, OnlyOwnStage
            <4>2. QED BY <4>1, NoOpStage DEF TypeOK, Rows
        <3>3. clean => PublishingRows' = {}
            BY <1>0, <3>1, <3>2 DEF RunningInv, PublishingRows
        <3>4. QED BY <2>1, <3>1, <3>3, ErrorOutcome DEF BeforeEffect, Unpublished, Steps
    <2>2. CASE UNCHANGED history
        BY <1>0, <1>4, <2>2, OutcomeRunning DEF begin_recovery_operation, history
    <2>3. QED BY <1>4, <2>1, <2>2 DEF begin_recovery_operation, Reply
<1>5. CASE prepare_stage
    BY <1>5, <1>0, OutcomeRunning DEF prepare_stage, history, RecoverySame, PublishingRows
<1>6. CASE flush_stage
    BY <1>6, <1>0, OutcomeRunning DEF flush_stage, history, RecoverySame, PublishingRows
<1>7. CASE set_recovery_operation_phase
    BY <1>0, <1>7, OutcomeRunning DEF set_recovery_operation_phase, history
<1>8. CASE publish_staged_operation
    BY <1>8, <1>0, OutcomeRunning
       DEF publish_staged_operation, history, RecoverySame, PublishingRows
<1>9. CASE sync_destination
    <2>1. CASE UNCHANGED history
        BY <1>0, <1>9, <2>1, OutcomeRunning DEF sync_destination, history
    <2>2. CASE result' = "late" /\ UNCHANGED <<old, new, clean>>
        BY <1>9, <2>2, LateOutcome DEF sync_destination, SInv
    <2>3. QED BY <1>9, <2>1, <2>2 DEF sync_destination, Reply
<1>10. CASE remove_upper_source
    <2>1. CASE UNCHANGED history
        BY <1>0, <1>10, <2>1, OutcomeRunning DEF remove_upper_source, history
    <2>2. CASE result' = "late" /\ UNCHANGED <<old, new, clean, upper>>
        BY <1>10, <2>2, LateOutcome DEF remove_upper_source, SInv
    <2>3. QED BY <1>10, <2>1, <2>2 DEF remove_upper_source, Reply
<1>11. CASE sync_source
    <2>1. CASE UNCHANGED history
        BY <1>0, <1>11, <2>1, OutcomeRunning DEF sync_source, history
    <2>2. CASE result' = "late" /\ UNCHANGED <<old, new, clean>>
        BY <1>11, <2>2, LateOutcome DEF sync_source, SInv
    <2>3. QED BY <1>11, <2>1, <2>2 DEF sync_source, Reply
<1>12. CASE finish_recovery_operation
    <2>1. mode = "serving" /\ pc = "finish" /\ upper' = upper /\ stage' = stage
        BY <1>12 DEF finish_recovery_operation
    <2>2. CASE result' = "late" /\ UNCHANGED <<old, new, clean, tombDB, journal>>
        BY <2>1, <2>2, LateOutcome DEF SInv
    <2>3. CASE /\ result' = "ok" /\ UNCHANGED <<old, new, clean>>
               /\ tombDB' = StoreTombstoned(tombDB, op)
               /\ journal' = {row \in journal : row.id # op.id}
        <3>1. SUFFICES ASSUME clean PROVE PublishingRows' = {} /\ ShapeOf(StoredView)' = new
            BY <2>3 DEF OutcomeInv
        <3>2. /\ PublishingRows \subseteq {row \in journal : row.id = op.id}
              /\ \A row \in PublishingRows : ShapeOf(Settled(row)) = new
            BY <1>0, <2>1, <3>1 DEF RunningInv, CrashCompletes
        <3>3. PublishingRows' = {}
            BY <2>3, <3>2 DEF PublishingRows
        <3>4. PICK row \in journal : row.id = op.id
            BY <2>1, OwnRow
        <3>5. SameWork(row, op) /\ row.phase = "publishing"
            BY <2>1, <3>4, OwnRow
        <3>6. row \in PublishingRows /\ op.kind \in Kinds
            BY <2>1, <3>4, <3>5 DEF PublishingRows, OperationInv
        <3>7. ShapeOf(StoredView)' = ShapeOf(Settled(row))
            BY <2>1, <2>3, <3>4, <3>5, <3>6, FinishSettles
        <3>8. QED BY <3>2, <3>3, <3>6, <3>7
    <2>4. QED BY <1>12, <2>2, <2>3 DEF finish_recovery_operation, Reply
<1>13. CASE discard_stage
    BY <1>13, <1>0, OutcomeRunning DEF discard_stage, history, RecoverySame, PublishingRows
<1>14. CASE abandon_recovery_operation
    <2>1. /\ mode = "serving" /\ pc = "abandon" /\ upper' = upper /\ tombDB' = tombDB
          /\ result' = "error" /\ UNCHANGED <<old, new, clean>>
        BY <1>14 DEF abandon_recovery_operation, Reply
    <2>2. clean /\ "abandon" \notin FaultPoints => PublishingRows' = {}
        <3>1. SUFFICES ASSUME clean, "abandon" \notin FaultPoints PROVE PublishingRows' = {}
            OBVIOUS
        <3>2. journal' = {row \in journal : row.id # op.id}
            BY <1>14, <3>1 DEF abandon_recovery_operation, Fault
        <3>3. QED BY <1>0, <2>1, <3>1, <3>2 DEF RunningInv, PublishingRows
    <2>3. QED BY <2>1, <2>2, ErrorOutcome DEF BeforeEffect, Unpublished, Steps
<1>15. CASE Crash
    <2>1. /\ UNCHANGED <<upper, stage, tombDB, journal, old, new, clean>> /\ mode' = "down"
        BY <1>15 DEF Crash, KeepsStorage
    <2>2. PublishingRows' = PublishingRows
        BY <2>1 DEF PublishingRows
    <2>3. CASE mode # "serving" \/ pc = "idle"
        BY <1>15, <2>1, <2>2, <2>3, OutcomeKept DEF Crash
    <2>4. CASE mode = "serving" /\ pc # "idle"
        <3>1. result' = IF RollingBackPublication THEN "torn" ELSE "crashed"
            BY <1>15, <2>4 DEF Crash
        <3>2. SUFFICES ASSUME clean, ~RollingBackPublication
                       PROVE  /\ PublishingRows = {} => ShapeOf(StoredView)' \in {old, new}
                              /\ \A row \in PublishingRows :
                                    /\ PublishingRows = {row} /\ ShapeOf(Settled(row))' = new
                                    /\ Exists(stage[row.id], Destination(row))' => ParentsMade(row)'
            BY <2>1, <2>2, <3>1 DEF OutcomeInv
        <3>3. ASSUME PublishingRows = {} PROVE ShapeOf(StoredView)' \in {old, new}
            <4>1. pc \in Steps /\ pc \notin Published \cup {"publish"}
                <5>1. SUFFICES ASSUME pc \in Published \cup {"publish"} PROVE FALSE
                    BY <2>4 DEF TypeOK
                <5>2. QED BY <3>3, <5>1, OwnRow DEF PublishingRows
            <4>2. ShapeOf(View) = old
                BY <1>0, <2>4, <3>2, <4>1 DEF RunningInv, BeforeEffect, Unpublished
            <4>3. ShapeOf(StoredView)' = ShapeOf(StoredView)
                BY <2>1 DEF StoredView, ShapeOf
            <4>4. QED BY <2>4, <4>2, <4>3, ServedView
        <3>4. ASSUME NEW row \in PublishingRows
              PROVE  /\ PublishingRows = {row} /\ ShapeOf(Settled(row))' = new
                     /\ Exists(stage[row.id], Destination(row))' => ParentsMade(row)'
            <4>1. CrashCompletes
                BY <2>4, <3>2, <3>4, CrashedPublished
            <4>2. /\ PublishingRows = {row} /\ ShapeOf(Settled(row)) = new
                  /\ Exists(stage[row.id], Destination(row)) => ParentsMade(row)
                BY <2>4, <3>2, <3>4, <4>1, LeftToRecovery DEF SInv
            <4>3. Settled(row)' = Settled(row)
                BY <2>1 DEF Settled
            <4>4. QED BY <2>1, <4>2, <4>3 DEF ShapeOf, Exists, ParentsMade
        <3>5. QED BY <3>3, <3>4
    <2>5. QED BY <2>3, <2>4
<1>16. CASE Restart
    BY <1>16, <1>0, OutcomeKept DEF Restart, history, RecoverySame, PublishingRows
<1>17. CASE recover_next_operation
    <2>1. UNCHANGED <<old, new, result, clean>> /\ mode' # "serving"
        BY <1>17, RecoverEffect DEF recover_next_operation, RecoverySame, history
    <2>2. PublishingRows' = PublishingRows
        BY <1>17, RecoverEffect DEF PublishingRows
    <2>3. QED BY <1>17, <2>1, <2>2, RecoverEffect, OutcomeKept
<1>18. CASE recover_rollback
    <2>1. /\ mode = "recovering" /\ mode' = mode /\ pc = "discard" /\ op.id \in Ids
          /\ UNCHANGED <<upper, tombDB, old, new, result, clean>>
        BY <1>18 DEF recover_rollback, RecoverySame, history, OperationInv, Steps
    <2>2. \A row \in journal : row.id = op.id => row.phase = "prepared"
        BY <2>1, OwnRow
    <2>3. PublishingRows' = PublishingRows
        BY <1>18, <2>2 DEF recover_rollback, PublishingRows
    <2>4. \A row \in PublishingRows : row.id \in Ids /\ row.id # op.id
        BY <2>2 DEF PublishingRows, TypeOK, Rows
    <2>5. \A row \in PublishingRows : stage'[row.id] = stage[row.id]
        BY <1>18, <2>4 DEF recover_rollback, TypeOK
    <2>6. QED BY <2>1, <2>3, <2>5, OutcomeKept
<1>19. CASE publish_staged_entry
    <2>1. /\ mode = "recovering" /\ pc = "publish" /\ mode' # "serving" /\ journal' = journal
          /\ UNCHANGED <<tombDB, old, new, result, clean>> /\ PublishingRows' = PublishingRows
        BY <1>19 DEF publish_staged_entry, Refuse, RecoverySame, history, PublishingRows
    <2>2. CASE upper' = upper /\ stage' = stage
        BY <2>1, <2>2, OutcomeKept
    <2>3. CASE /\ Exists(stage[op.id], Destination(op))
               /\ upper' = Overlay(WithParents(upper, Destination(op)), stage[op.id], Destination(op))
               /\ stage' = [stage EXCEPT ![op.id] = EmptyTree]
        <3>1. /\ op.kind \in StagedKinds /\ op.id \in Ids /\ Destination(op) \in Paths
              /\ upper \in Trees /\ result # "running"
            BY <1>0, <2>1
               DEF ProgressInv, OperationInv, Steps, TypeOK, Operations, Destination
        <3>2. SUFFICES ASSUME clean, result \in {"late", "crashed"},
                              NEW row \in journal, row.id = op.id, SameWork(row, op),
                              PublishingRows = {row}, ShapeOf(Settled(row)) = new,
                              Exists(stage[row.id], Destination(row)) => ParentsMade(row)
                       PROVE  /\ ShapeOf(Settled(row))' = new
                              /\ ~Exists(stage[row.id], Destination(row))'
            <4>1. CASE ~clean
                BY <2>1, <4>1 DEF OutcomeInv
            <4>2. CASE clean /\ result \notin {"late", "crashed"}
                BY <2>1, <3>1, <4>2, RecoveredOutcome DEF OutcomeInv
            <4>3. CASE clean /\ result \in {"late", "crashed"}
                <5>1. PICK row \in journal :
                        /\ row.id = op.id /\ SameWork(row, op)
                        /\ PublishingRows = {row} /\ ShapeOf(Settled(row)) = new
                        /\ Exists(stage[row.id], Destination(row)) => ParentsMade(row)
                    BY <2>1, <3>1, <4>3, RecoveredOutcome
                <5>2. ShapeOf(Settled(row))' = new /\ ~Exists(stage[row.id], Destination(row))'
                    BY <3>2, <4>3, <5>1
                <5>3. QED BY <2>1, <4>3, <5>1, <5>2 DEF OutcomeInv
            <4>4. QED BY <4>1, <4>2, <4>3
        <3>3. Destination(row) = Destination(op)
            BY <3>2 DEF SameWork, Destination
        <3>4. WithParents(upper, Destination(op)) = upper
            BY <2>3, <3>1, <3>2, <3>3, NoneMade DEF ParentsMade
        <3>5. Settled(row)' = Settled(row)
            BY <2>1, <2>3, <3>1, <3>2, <3>4, SettledPublished
        <3>6. stage'[row.id] = EmptyTree /\ Destination(row) \in Paths
            BY <2>3, <3>1, <3>2, <3>3 DEF TypeOK
        <3>7. QED BY <3>2, <3>5, <3>6 DEF ShapeOf, Exists, EmptyTree, Absent
    <2>4. QED BY <1>19, <2>2, <2>3 DEF publish_staged_entry, Refuse
<1>20. CASE recover_sync
    BY <1>20, <1>0, OutcomeKept DEF recover_sync, history, RecoverySame, PublishingRows
<1>21. CASE remove_upper_entry
    <2>1. /\ mode = "recovering" /\ pc = "source" /\ mode' # "serving" /\ journal' = journal
          /\ UNCHANGED <<tombDB, stage, old, new, result, clean>> /\ PublishingRows' = PublishingRows
        BY <1>21 DEF remove_upper_entry, Refuse, RecoverySame, history, PublishingRows
    <2>2. CASE upper' = upper
        BY <2>1, <2>2, OutcomeKept
    <2>3. ASSUME NEW q \in RemovableLeaf(upper, op.path),
                 upper' = [upper EXCEPT ![q] = Absent]
          PROVE  OutcomeInv'
        <3>1. /\ op.kind \in LeavingKinds /\ upper \in Trees /\ op.path \in Paths
              /\ q \in Paths /\ Under(op.path, q) /\ result # "running"
              /\ op.kind \in StagedKinds => ~Exists(stage[op.id], Destination(op))
            BY <1>0, <2>1, <2>3 DEF ProgressInv, TypeOK, Operations, RemovableLeaf
        <3>2. CASE ~clean
            BY <2>1, <3>2 DEF OutcomeInv
        <3>3. CASE clean /\ result \notin {"late", "crashed"}
            BY <2>1, <3>1, <3>3, RecoveredOutcome DEF OutcomeInv
        <3>4. CASE clean /\ result \in {"late", "crashed"}
            <4>1. PICK row \in journal :
                    /\ row.id = op.id /\ SameWork(row, op)
                    /\ PublishingRows = {row} /\ ShapeOf(Settled(row)) = new
                    /\ Exists(stage[row.id], Destination(row)) => ParentsMade(row)
                BY <2>1, <3>1, <3>4, RecoveredOutcome
            <4>2. row.kind = op.kind /\ row.path = op.path /\ Destination(row) = Destination(op)
                BY <4>1 DEF SameWork, Destination
            <4>3. Settled(row)' = Settled(row)
                BY <2>1, <2>3, <3>1, <4>1, <4>2, SettledLess
            <4>4. ASSUME Exists(stage[row.id], Destination(row))' PROVE ParentsMade(row)'
                <5>1. Exists(stage[row.id], Destination(row))
                    BY <2>1, <4>4 DEF Exists
                <5>2. Destination(row) = op.path /\ op.kind # "rename"
                    BY <3>1, <4>1, <4>2, <5>1 DEF Destination, LeavingKinds, StagedKinds
                <5>3. \A a \in Paths : Beneath(a, op.path) => a # q
                    BY <3>1, UnderAntisymmetric DEF Beneath
                <5>4. QED BY <2>3, <3>1, <4>1, <5>1, <5>2, <5>3
                             DEF ParentsMade, IsDir, Trees
            <4>5. QED BY <2>1, <3>4, <4>1, <4>3, <4>4 DEF OutcomeInv, ShapeOf
        <3>5. QED BY <3>2, <3>3, <3>4
    <2>4. QED BY <1>21, <2>2, <2>3 DEF remove_upper_entry, Refuse
<1>22. CASE recover_sync_source
    BY <1>22, <1>0, OutcomeKept
       DEF recover_sync_source, history, RecoverySame, PublishingRows
<1>23. CASE recover_finish
    <2>1. /\ mode = "recovering" /\ pc = "finish" /\ mode' = mode /\ upper' = upper
          /\ UNCHANGED <<stage, old, new, result, clean>>
          /\ tombDB' = StoreTombstoned(tombDB, op)
          /\ journal' = {row \in journal : row.id # op.id}
        BY <1>23 DEF recover_finish, RecoverySame, history
    <2>2. result # "running" /\ op.kind \in Kinds
        BY <1>0, <2>1 DEF OperationInv
    <2>3. CASE ~clean
        BY <2>1, <2>3 DEF OutcomeInv
    <2>4. CASE clean /\ result \notin {"late", "crashed"}
        BY <2>1, <2>2, <2>4, RecoveredOutcome DEF OutcomeInv
    <2>5. CASE clean /\ result \in {"late", "crashed"}
        <3>1. PICK row \in journal :
                /\ row.id = op.id /\ SameWork(row, op)
                /\ PublishingRows = {row} /\ ShapeOf(Settled(row)) = new
            BY <2>1, <2>2, <2>5, RecoveredOutcome
        <3>2. PublishingRows' = {}
            BY <2>1, <3>1 DEF PublishingRows
        <3>3. ShapeOf(StoredView)' = new
            BY <2>1, <2>2, <3>1, FinishSettles
        <3>4. QED BY <2>1, <2>5, <3>2, <3>3 DEF OutcomeInv
    <2>6. QED BY <2>3, <2>4, <2>5
<1>24. CASE recover_error
    BY <1>24, <1>0, OutcomeKept
       DEF recover_error, Refuse, history, RecoverySame, PublishingRows
<1>25. CASE open_workspace
    <2>1. PublishingRows = {} /\ PublishingRows' = {} /\ journal' = {}
        BY <1>25 DEF open_workspace, PublishingRows
    <2>2. QED BY <1>25, <2>1, OutcomeKept DEF open_workspace, history
<1>26. CASE UNCHANGED vars
    BY <1>26, <1>0, OutcomeKept DEF vars, history, RecoverySame, PublishingRows
<1>27. QED
    BY <1>1, <1>2, <1>3, <1>3s, <1>4, <1>5, <1>6, <1>7, <1>8, <1>9, <1>10, <1>11, <1>12, <1>13,
       <1>14, <1>15, <1>16, <1>17, <1>18, <1>19, <1>20, <1>21, <1>22, <1>23, <1>24, <1>25, <1>26
       DEF Next, Mutation, recover_interrupted_operations

-----------------------------------------------------------------------------
(* What a power loss leaves. *)

(* The directory c of q that lies where "to" does is "to", if q lies under it. *)
LEMMA PrefixIs ==
    ASSUME NEW to \in Paths, to # Root, NEW q \in Paths, Under(to, q)
    PROVE  /\ SubSeq(q, 1, Len(Parent(to)) + 1) = to
           /\ Beneath(Parent(to), q)
<1>1. /\ to \in Seq(Names) /\ q \in Seq(Names) /\ Len(to) \in Nat /\ Len(q) \in Nat
      /\ Len(to) =< Len(q) /\ \A i \in 1..Len(to) : to[i] = q[i]
    BY PathsAssumption DEF Under
<1>2. Len(to) > 0
    BY <1>1 DEF Root
<1>3. Len(to) - 1 \in Nat /\ Len(to) - 1 =< Len(to)
    BY <1>1, <1>2
<1>4. Len(Parent(to)) = Len(to) - 1 /\ \A i \in 1..(Len(to) - 1) : Parent(to)[i] = to[i]
    BY <1>1, <1>3, PrefixProperties DEF Parent
<1>5. Len(Parent(to)) + 1 = Len(to)
    BY <1>1, <1>4
<1>6. SubSeq(q, 1, Len(to)) = to
    <2>1. Len(SubSeq(q, 1, Len(to))) = Len(to) /\ \A i \in 1..Len(to) : SubSeq(q, 1, Len(to))[i] = q[i]
        BY <1>1, PrefixProperties
    <2>2. SubSeq(q, 1, Len(to)) \in Seq(Names)
        BY <1>1
    <2>3. QED BY <1>1, <2>1, <2>2
<1>7. Under(Parent(to), q)
    BY <1>1, <1>4 DEF Under
<1>8. Parent(to) # q
    BY <1>1, <1>3, <1>4
<1>9. QED BY <1>5, <1>6, <1>7, <1>8 DEF Beneath

(* The directory an entry lies in. *)
LEMMA ParentPath ==
    ASSUME NEW to \in Paths, to # Root
    PROVE  Parent(to) \in Paths /\ Beneath(Parent(to), to) /\ Parent(to) # to
<1>1. to \in Seq(Names) /\ Len(to) \in Nat /\ Len(to) > 0
    BY PathsAssumption DEF Root
<1>2. Parent(to) \in Paths
    BY <1>1, PathsAssumption DEF Parent
<1>3. QED BY <1>2, PrefixIs, UnderReflexive DEF Beneath

(* The sync of its directory makes one changed entry and all beneath it durable.       *)
LEMMA SyncedEntry ==
    ASSUME TypeOK, NEW to \in Paths, to # Root,
           \A q \in Paths : disk.upper[q] = upper[q] \/ Under(to, q),
           upper[to] # disk.upper[to], IsDir(disk.upper, Parent(to))
    PROVE  Synced(Parent(to)) = upper
<1>1. ASSUME NEW q \in Paths PROVE Synced(Parent(to))[q] = upper[q]
    <2>1. CASE ~Under(to, q)
        BY <2>1 DEF Synced
    <2>2. CASE Under(to, q)
        <3> DEFINE c == SubSeq(q, 1, Len(Parent(to)) + 1)
        <3>1. c = to /\ Beneath(Parent(to), q)
            BY <2>2, PrefixIs
        <3>2. upper[c] # disk.upper[c]
            BY <3>1
        <3>3. QED BY <3>1, <3>2 DEF Synced
    <2>3. QED BY <2>1, <2>2
<1>2. Synced(Parent(to)) = [q \in Paths |-> Synced(Parent(to))[q]] /\ upper = [q \in Paths |-> upper[q]]
    BY DEF Synced, TypeOK, Trees
<1>3. QED BY <1>1, <1>2

(* What prepare_stage makes is made of files of its own.                               *)
LEMMA StagedNumbers ==
    ASSUME TypeOK, op.kind \in StagedKinds, op.id \in Nat, NEW q \in Paths
    PROVE  /\ Staged(op)[q].ino \in {0, op.id}
           /\ Exists(Staged(op), q) => Staged(op)[q].ino = op.id
<1>1. /\ op.path \in Paths /\ op.target \in Paths /\ View \in Trees /\ op.val \in Vals
      /\ Absent.ino = 0 /\ Absent.kind = Nothing
    BY VisibleType DEF TypeOK, Operations, View, Absent
<1>2. ASSUME NEW to \in Paths,
             NEW copy, copy = materialize_visible_entry_at(View, op.path, to, op.id)
      PROVE  /\ copy \in Trees
             /\ copy[q] = Absent \/ copy[q].ino = op.id
    <2>1. copy \in Trees
        BY <1>1, <1>2, MaterializeType
    <2>2. \A s \in Paths : [View[s] EXCEPT !.ino = op.id].ino = op.id
        BY <1>1 DEF Trees, Entries
    <2>3. copy[q] = Absent
            \/ \E s \in Paths : copy[q] = [View[s] EXCEPT !.ino = op.id]
        BY <1>2 DEF materialize_visible_entry_at
    <2>4. QED BY <2>1, <2>2, <2>3
<1>3. CASE op.kind \in CreatingKinds
    <2> DEFINE e == [kind |-> IF op.kind = "mkdir" THEN Dir ELSE Leaf, val |-> op.val, ino |-> op.id]
    <2>1. Staged(op) = [EmptyTree EXCEPT ![op.path] = e]
        BY <1>3 DEF Staged
    <2>2. e.ino = op.id
        OBVIOUS
    <2> HIDE DEF e
    <2>3. Staged(op)[q] = IF q = op.path THEN e ELSE Absent
        BY <1>1, <2>1 DEF EmptyTree
    <2>4. QED BY <1>1, <2>2, <2>3 DEF Exists
<1>4. CASE op.kind = "rename"
    <2>1. Staged(op) = materialize_visible_entry_at(View, op.path, op.target, op.id)
        BY <1>4 DEF Staged, CreatingKinds
    <2>2. QED BY <1>1, <1>2, <2>1 DEF Exists
<1>5. CASE op.kind \in ReplacingKinds
    <2> DEFINE copy == materialize_visible_entry_at(View, op.path, op.path, op.id)
    <2>1. Staged(op) = [copy EXCEPT ![op.path].val = ValAfter(op, View[op.path].val)]
        BY <1>5 DEF Staged, ReplacingKinds, CreatingKinds
    <2>2. copy \in Trees /\ (copy[q] = Absent \/ copy[q].ino = op.id)
        BY <1>1, <1>2
    <2> HIDE DEF copy
    <2>3. Staged(op)[q].ino = copy[q].ino /\ Staged(op)[q].kind = copy[q].kind
        BY <1>1, <2>1, <2>2 DEF Trees, Entries
    <2>4. QED BY <1>1, <2>2, <2>3 DEF Exists
<1>6. QED BY <1>3, <1>4, <1>5 DEF StagedKinds

(* Until the first crash the Workspace is served: what a step may be.                  *)
LEMMA FirstServes ==
    ASSUME TypeOK, mode = "serving", crashes' = 0, [Next]_vars
    PROVE  \/ \E dir \in Paths : ReadDir(dir)
           \/ \E r \in Requests : BeginMutation(r)
           \/ create_missing_upper_parent_directories \/ sync_copied_directory
           \/ begin_recovery_operation
           \/ prepare_stage \/ flush_stage \/ set_recovery_operation_phase
           \/ publish_staged_operation \/ sync_destination \/ remove_upper_source
           \/ sync_source \/ finish_recovery_operation
           \/ discard_stage \/ abandon_recovery_operation
           \/ UNCHANGED vars
<1>1. ~Crash
    <2>1. crashes \in Nat
        BY BoundsAssumption DEF TypeOK
    <2>2. QED BY <2>1 DEF Crash
<1>2. ~recover_interrupted_operations
    BY DEF recover_interrupted_operations, recover_next_operation, recover_rollback,
       publish_staged_entry, recover_sync, remove_upper_entry, recover_sync_source,
       recover_finish, open_workspace, Recovering
<1>3. ~Restart /\ ~recover_error
    BY DEF Restart, recover_error
<1>4. QED BY <1>1, <1>2, <1>3 DEF Next, Mutation

(* Until then it goes on being served, and no error is reported late.                  *)
LEMMA UndisturbedStep ==
    ASSUME Undisturbed, TypeOK, FaultPoints \cap (Published \cup {"syncparents"}) = {}, crashes' = 0, [Next]_vars
    PROVE  Undisturbed'
<1> USE DEF Undisturbed, At, history, Published
<1>1. ASSUME NEW dir \in Paths, ReadDir(dir)
      PROVE  Undisturbed'
    BY <1>1 DEF ReadDir
<1>2. ASSUME NEW r \in Requests, BeginMutation(r)
      PROVE  Undisturbed'
    BY <1>2 DEF BeginMutation
<1>3. CASE create_missing_upper_parent_directories
    BY <1>3 DEF create_missing_upper_parent_directories, Reply
<1>3s. CASE sync_copied_directory
    BY <1>3s DEF sync_copied_directory, Reply
<1>4. CASE begin_recovery_operation
    BY <1>4 DEF begin_recovery_operation, Reply
<1>5. CASE prepare_stage
    BY <1>5 DEF prepare_stage
<1>6. CASE flush_stage
    BY <1>6 DEF flush_stage
<1>7. CASE set_recovery_operation_phase
    BY <1>7 DEF set_recovery_operation_phase
<1>8. CASE publish_staged_operation
    BY <1>8 DEF publish_staged_operation
<1>9. CASE sync_destination
    BY <1>9 DEF sync_destination, Reply, Fault
<1>10. CASE remove_upper_source
    BY <1>10 DEF remove_upper_source, Reply, Fault
<1>11. CASE sync_source
    BY <1>11 DEF sync_source, Reply, Fault
<1>12. CASE finish_recovery_operation
    BY <1>12 DEF finish_recovery_operation, Reply, Fault
<1>13. CASE discard_stage
    BY <1>13 DEF discard_stage
<1>14. CASE abandon_recovery_operation
    BY <1>14 DEF abandon_recovery_operation, Reply
<1>15. CASE UNCHANGED vars
    BY <1>15 DEF vars
<1>16. QED BY FirstServes, <1>1, <1>2, <1>3, <1>3s, <1>4, <1>5, <1>6, <1>7, <1>8,
       <1>9, <1>10, <1>11, <1>12, <1>13, <1>14, <1>15

(* Only numbers that were given out have a stage.                                      *)
LEMMA StagesNumbered ==
    ASSUME TypeOK, SInv, RowInv, mode = "serving", pc \notin {"idle", "parents", "syncparents", "journal"}
    PROVE  \A i \in Ids : i >= nextId => stage[i] = EmptyTree
<1>1. PICK row \in journal : row.id = op.id
    BY OwnRow
<1>2. op.id < nextId /\ nextId \in Nat /\ op.id \in Nat /\ Ids \subseteq Nat
    BY <1>1, BoundsAssumption DEF RowInv, TypeOK, Operations, Ids
<1>3. QED BY <1>2 DEF SInv, StageInv, OnlyOwnStage

(* What is staged is synced before its row says publishing, and the stage of a row is   *)
(* empty on disk once the published entry is synced.                                   *)
LEMMA DiskStageStep ==
    ASSUME Undisturbed, TypeOK, OperationInv, SInv, DiskHang, DiskStage, crashes' = 0, [Next]_vars
    PROVE  DiskStage'
<1> USE DEF Undisturbed, At, Published, DiskStage, Journalled, Steps, storage
<1>1. ASSUME NEW dir \in Paths, ReadDir(dir)
      PROVE  DiskStage'
    BY <1>1 DEF ReadDir, SInv, StageInv, OnlyOwnStage
<1>2. ASSUME NEW r \in Requests, BeginMutation(r)
      PROVE  DiskStage'
    BY <1>2 DEF BeginMutation, SInv, StageInv, OnlyOwnStage
<1>3. CASE create_missing_upper_parent_directories
    <2>1. disk'.stage = disk.stage /\ mode' = "serving" /\ pc' \in {"syncparents", "journal", "idle"}
        BY <1>3 DEF create_missing_upper_parent_directories, Reply, TypeOK
    <2>2. QED BY <2>1
<1>3s. CASE sync_copied_directory
    <2>1. disk'.stage = disk.stage /\ mode' = "serving" /\ pc' \in {"parents", "idle"}
        BY <1>3s DEF sync_copied_directory, Reply, TypeOK
    <2>2. QED BY <2>1
<1>4. CASE begin_recovery_operation
    <2>1. /\ mode = "serving" /\ pc = "journal" /\ UNCHANGED <<disk, stage>>
          /\ op.id = 0 /\ nextId \in Ids
        BY <1>4, BeginEffect, BoundsAssumption
           DEF begin_recovery_operation, SInv, StageInv, OnlyOwnStage, OperationInv, TypeOK, Ids
    <2>2. CASE pc' = "idle"
        BY <2>2
    <2>3. CASE /\ op'.id = nextId /\ op'.kind = op.kind
               /\ pc' = IF op.kind \in RemovingKinds THEN "phase" ELSE "prepare"
        <3>1. disk.stage[nextId] = EmptyTree /\ stage[nextId] = EmptyTree
            BY <2>1, NoOpStage DEF DiskHang, SInv, StageInv, OnlyOwnStage, TypeOK
        <3>2. QED BY <2>1, <2>3, <3>1
    <2>4. QED BY <1>4, <2>2, <2>3, BeginEffect
<1>5. CASE prepare_stage
    BY <1>5 DEF prepare_stage, SInv, StageInv, OnlyOwnStage
<1>6. CASE flush_stage
    <2>1. /\ pc = "flush" /\ op' = op /\ stage' = stage /\ mode' = mode
          /\ op.kind \notin RemovingKinds
        BY <1>6 DEF flush_stage, SInv, StageInv, OnlyOwnStage, StagedKinds, RemovingKinds, CreatingKinds, ReplacingKinds
    <2>2. CASE disk'.stage = stage /\ pc' = "phase"
        BY <2>1, <2>2
    <2>3. CASE pc' = "discard"
        BY <2>1, <2>3
    <2>4. QED BY <1>6, <2>2, <2>3 DEF flush_stage, TypeOK
<1>7. CASE set_recovery_operation_phase
    BY <1>7 DEF set_recovery_operation_phase, SInv, StageInv, OnlyOwnStage
<1>8. CASE publish_staged_operation
    BY <1>8 DEF publish_staged_operation, SInv, StageInv, OnlyOwnStage
<1>9. CASE sync_destination
    <2>1. stage[op.id] = EmptyTree
        BY <1>9 DEF sync_destination, SInv, StageInv, OnlyOwnStage
    <2>2. QED BY <1>9, <2>1 DEF sync_destination, Reply
<1>10. CASE remove_upper_source
    BY <1>10 DEF remove_upper_source, Reply, Fault, SInv, StageInv, OnlyOwnStage
<1>11. CASE sync_source
    <2>1. disk'.stage = disk.stage
        BY <1>11 DEF sync_source, TypeOK
    <2>2. QED BY <1>11, <2>1 DEF sync_source, Reply
<1>12. CASE finish_recovery_operation
    BY <1>12 DEF finish_recovery_operation, Reply, Fault, SInv, StageInv, OnlyOwnStage
<1>13. CASE discard_stage
    BY <1>13 DEF discard_stage, SInv, StageInv, OnlyOwnStage
<1>14. CASE abandon_recovery_operation
    BY <1>14 DEF abandon_recovery_operation, Reply, SInv, StageInv, OnlyOwnStage
<1>15. CASE UNCHANGED vars
    BY <1>15 DEF vars, SInv, StageInv, OnlyOwnStage
<1>16. QED BY FirstServes, <1>1, <1>2, <1>3, <1>3s, <1>4, <1>5, <1>6, <1>7, <1>8,
       <1>9, <1>10, <1>11, <1>12, <1>13, <1>14, <1>15

(* The synced stages, too, are one at a time and hang off the destinations of their     *)
(* rows.                                                                               *)
LEMMA DiskHangStep ==
    ASSUME Undisturbed, TypeOK, OperationInv, SInv, RowInv, HangInv, HangInv', DiskHang,
           crashes' = 0, [Next]_vars
    PROVE  DiskHang'
<1> USE DEF Undisturbed, At, storage, metadata
<1>1. ASSUME NEW dir \in Paths, ReadDir(dir)
      PROVE  DiskHang'
    BY <1>1 DEF ReadDir, DiskHang
<1>2. ASSUME NEW r \in Requests, BeginMutation(r)
      PROVE  DiskHang'
    BY <1>2 DEF BeginMutation, DiskHang
<1>3. CASE create_missing_upper_parent_directories
    <2>1. disk'.stage = disk.stage /\ journal' = journal /\ nextId' = nextId
        BY <1>3 DEF create_missing_upper_parent_directories, TypeOK
    <2>2. QED BY <2>1 DEF DiskHang
<1>3s. CASE sync_copied_directory
    <2>1. disk'.stage = disk.stage /\ journal' = journal /\ nextId' = nextId
        BY <1>3s DEF sync_copied_directory, TypeOK
    <2>2. QED BY <2>1 DEF DiskHang
<1>4. CASE begin_recovery_operation
    <2>1. disk' = disk /\ nextId \in Nat /\ Ids \subseteq Nat
        BY <1>4, BoundsAssumption DEF begin_recovery_operation, TypeOK, Ids
    <2>2. CASE journal' = journal /\ nextId' = nextId
        BY <2>1, <2>2 DEF DiskHang
    <2>3. CASE \E row : journal' = journal \cup {row} /\ row.id = nextId /\ nextId' = nextId + 1
        <3>1. PICK row : journal' = journal \cup {row} /\ row.id = nextId /\ nextId' = nextId + 1
            BY <2>3
        <3>2. nextId \in Ids
            BY <1>4, BoundsAssumption DEF begin_recovery_operation, OperationInv, TypeOK, Ids
        <3>3. disk.stage[nextId] = EmptyTree
            BY <2>1, <3>2 DEF DiskHang
        <3>4. Hanging(disk.stage[nextId], Destination(row))
            BY <3>3, HangingEmpty
        <3>5. QED BY <2>1, <3>1, <3>3, <3>4 DEF DiskHang
    <2>4. QED BY <1>4, <2>2, <2>3, BeginEffect DEF begin_recovery_operation, Reply
<1>5. CASE prepare_stage
    BY <1>5 DEF prepare_stage, DiskHang
<1>6. CASE flush_stage
    <2>1. journal' = journal /\ nextId' = nextId
        BY <1>6 DEF flush_stage
    <2>2. CASE disk' = disk
        BY <2>1, <2>2 DEF DiskHang
    <2>3. CASE disk' = [disk EXCEPT !.stage = stage]
        <3>1. disk'.stage = stage /\ pc = "flush" /\ stage' = stage
            BY <1>6, <2>3 DEF TypeOK, flush_stage
        <3>2. \A i \in Ids : i >= nextId => stage[i] = EmptyTree
            BY <3>1, StagesNumbered
        <3>3. QED BY <2>1, <3>1, <3>2 DEF DiskHang, HangInv
    <2>4. QED BY <1>6, <2>2, <2>3 DEF flush_stage
<1>7. CASE set_recovery_operation_phase
    <2>1. disk' = disk /\ nextId' = nextId
        BY <1>7 DEF set_recovery_operation_phase
    <2>2. ASSUME NEW row \in journal' PROVE \E was \in journal : row.id = was.id /\ SameWork(row, was)
        BY <1>7, <2>2, PhaseRows DEF SameWork
    <2>3. ASSUME NEW row \in journal' PROVE Hanging(disk.stage[row.id], Destination(row))
        <3>1. PICK was \in journal : row.id = was.id /\ SameWork(row, was)
            BY <2>2, <2>3
        <3>2. QED BY <3>1 DEF DiskHang, SameWork, Destination
    <2>4. \A a, b \in journal' :
              disk.stage[a.id] # EmptyTree /\ disk.stage[b.id] # EmptyTree => a.id = b.id
        BY <2>2 DEF DiskHang
    <2>5. QED BY <2>1, <2>3, <2>4 DEF DiskHang
<1>8. CASE publish_staged_operation
    BY <1>8 DEF publish_staged_operation, DiskHang
<1>9. CASE sync_destination
    <2>1. journal' = journal /\ nextId' = nextId
        BY <1>9 DEF sync_destination
    <2>2. CASE disk' = disk
        BY <2>1, <2>2 DEF DiskHang
    <2>3. CASE disk'.stage = stage
        <3>1. pc = "sync" /\ stage' = stage
            BY <1>9 DEF sync_destination
        <3>2. \A i \in Ids : i >= nextId => stage[i] = EmptyTree
            BY <3>1, StagesNumbered
        <3>3. QED BY <2>1, <2>3, <3>1, <3>2 DEF DiskHang, HangInv
    <2>4. QED BY <1>9, <2>2, <2>3 DEF sync_destination
<1>10. CASE remove_upper_source
    BY <1>10 DEF remove_upper_source, Reply, Fault, DiskHang
<1>11. CASE sync_source
    <2>1. disk'.stage = disk.stage /\ journal' = journal /\ nextId' = nextId
        BY <1>11 DEF sync_source, TypeOK
    <2>2. QED BY <2>1 DEF DiskHang
<1>12. CASE finish_recovery_operation
    BY <1>12 DEF finish_recovery_operation, Reply, Fault, DiskHang
<1>13. CASE discard_stage
    BY <1>13 DEF discard_stage, DiskHang
<1>14. CASE abandon_recovery_operation
    BY <1>14 DEF abandon_recovery_operation, Reply, DiskHang
<1>15. CASE UNCHANGED vars
    BY <1>15 DEF vars, DiskHang
<1>16. QED BY FirstServes, <1>1, <1>2, <1>3, <1>3s, <1>4, <1>5, <1>6, <1>7, <1>8,
       <1>9, <1>10, <1>11, <1>12, <1>13, <1>14, <1>15

(* A sync brings no other files.                                                       *)
LEMMA SyncedNumbers ==
    ASSUME Numbered(upper), Numbered(disk.upper), NEW dir
    PROVE  Numbered(Synced(dir))
BY DEF Numbered, Synced

(* An operation gets a number that no file in the upper tree has.                      *)
LEMMA DiskNumbersStep ==
    ASSUME Undisturbed, TypeOK, OperationInv, SInv, RowInv, WorkInv, DiskNumbers,
           DiskUpper, crashes' = 0, [Next]_vars
    PROVE  DiskNumbers'
<1> USE DEF Undisturbed, At, storage, metadata
<1>0. /\ MaxOps \in Nat /\ nextId \in Nat /\ nextId > 0
      /\ \A p \in Paths : upper[p].ino \in Nat /\ disk.upper[p].ino \in Nat
    BY BoundsAssumption DEF TypeOK, Trees, Entries
<1>1. ASSUME NEW dir \in Paths, ReadDir(dir)
      PROVE  DiskNumbers'
    BY <1>1 DEF ReadDir, DiskNumbers, Numbered
<1>2. ASSUME NEW r \in Requests, BeginMutation(r)
      PROVE  DiskNumbers'
    BY <1>2 DEF BeginMutation, DiskNumbers, Numbered
<1>3. CASE create_missing_upper_parent_directories
    <2>1. nextId' = nextId /\ pc' \in {"syncparents", "journal", "idle"} /\ disk' = disk
        BY <1>3 DEF create_missing_upper_parent_directories, Reply
    <2>2. CASE upper' = upper
        BY <2>1, <2>2 DEF DiskNumbers, Numbered
    <2>3. CASE \E dir \in Outermost(ParentsToMake) :
                  upper' = [upper EXCEPT ![dir] = [Base[dir] EXCEPT !.ino = MaxOps + nextId]]
        <3>1. PICK dir \in Paths :
                  upper' = [upper EXCEPT ![dir] = [Base[dir] EXCEPT !.ino = MaxOps + nextId]]
            BY <2>3 DEF Outermost, ParentsToMake
        <3> DEFINE copy == [Base[dir] EXCEPT !.ino = MaxOps + nextId]
        <3>2. copy.ino = MaxOps + nextId
            BY BaseAssumption DEF Trees, Entries
        <3> HIDE DEF copy
        <3>3. upper' = [upper EXCEPT ![dir] = copy]
            BY <3>1 DEF copy
        <3>4. copy.ino > MaxOps
            BY <1>0, <3>2
        <3>5. \A p \in Paths : upper'[p].ino < nextId \/ upper'[p].ino > MaxOps
            BY <3>3, <3>4 DEF TypeOK, Trees, DiskNumbers, Numbered
        <3>6. QED BY <2>1, <3>5 DEF DiskNumbers, Numbered
    <2>4. QED BY <1>3, <2>2, <2>3 DEF create_missing_upper_parent_directories
<1>3s. CASE sync_copied_directory
    <2>1. upper' = upper /\ nextId' = nextId /\ pc' \in {"parents", "idle"}
        BY <1>3s DEF sync_copied_directory, Reply
    <2>2. disk' = disk \/ \E dir : disk'.upper = Synced(dir)
        BY <1>3s DEF sync_copied_directory, TypeOK
    <2>3. Numbered(disk'.upper)
        BY <2>2, SyncedNumbers DEF DiskNumbers
    <2>4. QED BY <2>1, <2>3 DEF DiskNumbers, Numbered
<1>4. CASE begin_recovery_operation
    <2>1. upper' = upper /\ disk' = disk
        BY <1>4 DEF begin_recovery_operation
    <2>2. CASE pc' = "idle" /\ nextId' = nextId
        BY <2>1, <2>2 DEF DiskNumbers, Numbered
    <2>3. CASE nextId' = nextId + 1 /\ op'.id = nextId
        <3>1. nextId =< MaxOps
            BY <1>4 DEF begin_recovery_operation, OperationInv
        <3>2. \A p \in Paths : disk.upper[p].ino # nextId
            BY <1>0, <3>1 DEF DiskNumbers, Numbered
        <3>3. QED BY <1>0, <2>1, <2>3, <3>2 DEF DiskNumbers, Numbered
    <2>4. QED BY <1>4, <2>2, <2>3, BeginEffect DEF begin_recovery_operation, Reply
<1>5. CASE prepare_stage
    BY <1>5 DEF prepare_stage, DiskNumbers, Numbered
<1>6. CASE flush_stage
    <2>1. disk'.upper = disk.upper
        BY <1>6 DEF flush_stage, TypeOK
    <2>2. QED BY <1>6, <2>1 DEF flush_stage, DiskNumbers, Numbered
<1>7. CASE set_recovery_operation_phase
    BY <1>7 DEF set_recovery_operation_phase, DiskNumbers, Numbered
<1>8. CASE publish_staged_operation
    <2>1. disk' = disk /\ nextId' = nextId /\ op' = op /\ pc = "publish"
        BY <1>8 DEF publish_staged_operation
    <2>2. CASE upper' = upper
        BY <1>8, <2>1, <2>2 DEF DiskNumbers, Numbered, publish_staged_operation
    <2>3. CASE upper' = Overlay(upper, stage[op.id], Destination(op))
        <3>1. \E row \in journal : row.id = op.id
            BY <2>1, OwnRow
        <3>2. op.id \in Nat /\ op.id < nextId /\ op.kind \in StagedKinds
            BY <2>1, <3>1 DEF RowInv, TypeOK, Operations, SInv, StageInv, OnlyOwnStage
        <3>3. \A q \in Paths : stage[op.id][q].ino \in {0, op.id}
            BY <2>1, <3>2, StagedNumbers DEF WorkInv
        <3>4. \A q \in Paths : upper'[q].ino < nextId \/ upper'[q].ino > MaxOps
            BY <1>0, <2>3, <3>2, <3>3 DEF Overlay, DiskNumbers, Numbered
        <3>5. QED BY <2>1, <3>4 DEF DiskNumbers, Numbered
    <2>4. QED BY <1>8, <2>2, <2>3 DEF publish_staged_operation
<1>9. CASE sync_destination
    <2>1. upper' = upper /\ nextId' = nextId /\ pc' \notin {"prepare", "flush", "phase", "publish", "sync"}
        BY <1>9 DEF sync_destination, Reply
    <2>2. disk'.upper = disk.upper \/ disk'.upper = Synced(Parent(Destination(op)))
        BY <1>9 DEF sync_destination
    <2>3. Numbered(disk'.upper)
        BY <2>2, SyncedNumbers DEF DiskNumbers
    <2>4. QED BY <2>1, <2>3 DEF DiskNumbers, Numbered
<1>10. CASE remove_upper_source
    <2>1. disk' = disk /\ nextId' = nextId /\ pc' \notin {"prepare", "flush", "phase", "publish", "sync"}
        BY <1>10 DEF remove_upper_source, Reply
    <2>2. upper' = upper \/ \E q \in Paths : upper' = [upper EXCEPT ![q] = Absent]
        BY <1>10 DEF remove_upper_source, RemovableLeaf
    <2>3. Absent.ino < nextId
        BY <1>0 DEF Absent
    <2>4. \A p \in Paths : upper'[p].ino < nextId \/ upper'[p].ino > MaxOps
        BY <2>2, <2>3 DEF DiskNumbers, Numbered, TypeOK, Trees
    <2>5. QED BY <2>1, <2>4 DEF DiskNumbers, Numbered
<1>11. CASE sync_source
    <2>1. upper' = upper /\ nextId' = nextId /\ pc' \notin {"prepare", "flush", "phase", "publish", "sync"}
        BY <1>11 DEF sync_source, Reply
    <2>2. disk'.upper = disk.upper \/ disk'.upper = Synced(Parent(op.path))
        BY <1>11 DEF sync_source, TypeOK
    <2>3. Numbered(disk'.upper)
        BY <2>2, SyncedNumbers DEF DiskNumbers
    <2>4. QED BY <2>1, <2>3 DEF DiskNumbers, Numbered
<1>12. CASE finish_recovery_operation
    BY <1>12 DEF finish_recovery_operation, Reply, Fault, DiskNumbers, Numbered
<1>13. CASE discard_stage
    BY <1>13 DEF discard_stage, DiskNumbers, Numbered
<1>14. CASE abandon_recovery_operation
    BY <1>14 DEF abandon_recovery_operation, Reply, DiskNumbers, Numbered
<1>15. CASE UNCHANGED vars
    BY <1>15 DEF vars, DiskNumbers, Numbered
<1>16. QED BY FirstServes, <1>1, <1>2, <1>3, <1>3s, <1>4, <1>5, <1>6, <1>7, <1>8,
       <1>9, <1>10, <1>11, <1>12, <1>13, <1>14, <1>15

(* The upper tree is synced but for the entry just published or the source just        *)
(* removed, and a step syncs all of it or touches neither the disk nor the tombstones. *)
LEMMA DiskUpperStep ==
    ASSUME FaultPoints \cap (Published \cup {"syncparents"}) = {}, Undisturbed, TypeOK, OperationInv,
           TombstonesAgree, DiskTree, SInv, RowInv,
           ProgressInv, TreeInv, WorkInv, DiskNumbers, DiskUpper, DiskStage, crashes' = 0, [Next]_vars
    PROVE  DiskUpper' /\ (disk.upper' = upper' \/ UNCHANGED <<disk, tombDB>>)
<1> USE DEF Undisturbed, At, storage, metadata
<1>1. ASSUME NEW dir \in Paths, ReadDir(dir)
      PROVE  DiskUpper' /\ (disk.upper' = upper' \/ UNCHANGED <<disk, tombDB>>)
    <2>1. disk.upper = upper /\ disk' = disk /\ upper' = upper /\ pc' \notin {"syncparents", "sync", "source", "syncsource"}
        BY <1>1 DEF ReadDir, DiskUpper
    <2>2. QED BY <2>1 DEF DiskUpper
<1>2. ASSUME NEW r \in Requests, BeginMutation(r)
      PROVE  DiskUpper' /\ (disk.upper' = upper' \/ UNCHANGED <<disk, tombDB>>)
    <2>1. disk.upper = upper /\ disk' = disk /\ upper' = upper /\ pc' \notin {"syncparents", "sync", "source", "syncsource"}
        BY <1>2 DEF BeginMutation, DiskUpper
    <2>2. QED BY <2>1 DEF DiskUpper
<1>3. CASE create_missing_upper_parent_directories
    <2>1. disk.upper = upper /\ disk' = disk /\ tombDB' = tombDB
        BY <1>3 DEF create_missing_upper_parent_directories, DiskUpper
    <2>2. CASE upper' = upper /\ pc' \in {"journal", "idle"}
        BY <2>1, <2>2 DEF DiskUpper
    <2>3. CASE pc' = "syncparents" /\ op' = op
        <3>1. PICK dir \in Outermost(ParentsToMake) :
                  /\ CanCopyUp(dir) /\ Shape(upper'[dir]) = Shape(Base[dir])
                  /\ upper' = [upper EXCEPT ![dir] = [Base[dir] EXCEPT !.ino = MaxOps + nextId]]
                  /\ \A a \in Paths : Beneath(a, dir) => IsDir(upper, a)
            BY <1>3, <2>3, CopyUpEffect
        <3>2. /\ dir \in Paths /\ Beneath(dir, Destination(op)) /\ ~IsDir(upper, dir)
              /\ Destination(op) \in Paths /\ Destination(op)' = Destination(op)
            BY <2>3, <3>1 DEF Outermost, ParentsToMake, TypeOK, Operations, Destination
        <3>3. \A p \in Paths : p # dir => upper'[p] = upper[p]
            BY <3>1 DEF TypeOK, Trees
        <3>4. /\ IsDir(Base, dir) /\ base_is_visible(tombDB, dir) /\ ~Exists(upper, dir)
              /\ dir # Root
            BY <1>3, <3>1, <3>2, CopyUpEffect DEF CanCopyUp, TombstonesAgree, TreeInv, TreeShaped
        <3>5. IsDir(upper', dir)
            BY <3>1, <3>4 DEF IsDir, Shape
        <3>6. ASSUME NEW b \in Paths, Beneath(b, Destination(op)), IsDir(upper', b)
              PROVE  Len(b) =< Len(dir)
            <4>1. CASE b = dir
                BY <4>1, PathsAssumption
            <4>2. CASE b # dir
                <5>1. IsDir(upper, b)
                    BY <3>3, <3>6, <4>2 DEF IsDir
                <5>2. ~Under(dir, b)
                    BY <3>2, <4>2, <5>1 DEF TreeInv, TreeShaped, Beneath, IsDir, Exists, Dir, Nothing
                <5>3. Under(b, dir)
                    BY <3>2, <3>6, <5>2, Comparable DEF Beneath
                <5>4. QED BY <5>3 DEF Under
            <4>3. QED BY <4>1, <4>2
        <3>7. dir \in Innermost(ParentsThere)'
            BY <3>2, <3>5, <3>6 DEF Innermost, ParentsThere, IsDir
        <3>8. \A a \in Paths : Beneath(a, dir) => IsDir(upper', a)
            BY <3>1, <3>3 DEF Beneath, IsDir
        <3>9. ~Exists(disk'.upper, dir) /\ \A q \in Paths : q # dir => disk'.upper[q] = upper'[q]
            BY <2>1, <3>3, <3>4
        <3>10. base_is_visible(tombDB', dir) /\ Shape(upper'[dir]) = Shape(Base[dir])
            BY <2>1, <3>1, <3>4
        <3>11. Unsynced(dir)'
            BY <3>4, <3>7, <3>8, <3>9, <3>10 DEF Unsynced, IsDir, Exists, base_is_visible
        <3>12. QED BY <2>1, <2>3, <3>2, <3>11 DEF DiskUpper
    <2>4. QED BY <1>3, <2>2, <2>3, CopyUpEffect
<1>3s. CASE sync_copied_directory
    <2>1. /\ pc = "syncparents" /\ upper' = upper /\ pc' = "parents"
          /\ \E d \in Innermost(ParentsThere) : disk'.upper = Synced(Parent(d))
        BY <1>3s DEF sync_copied_directory, Fault, TypeOK
    <2>2. PICK dir \in Paths : Unsynced(dir)
        BY <2>1 DEF DiskUpper
    <2>3. PICK d \in Innermost(ParentsThere) : disk'.upper = Synced(Parent(d))
        BY <2>1
    <2>4. d = dir
        <3>1. /\ d \in Paths /\ dir \in Paths /\ Destination(op) \in Paths
              /\ Under(d, Destination(op)) /\ Under(dir, Destination(op))
              /\ Len(d) =< Len(dir) /\ Len(dir) =< Len(d)
            BY <2>2, <2>3 DEF Unsynced, Innermost, ParentsThere, Beneath, TypeOK, Operations, Destination
        <3>2. \/ d \in Seq(Names) /\ dir \in Seq(Names) /\ Under(d, dir)
              \/ d \in Seq(Names) /\ dir \in Seq(Names) /\ Under(dir, d)
            BY <3>1, Comparable, PathsAssumption
        <3>3. Len(d) \in Nat /\ Len(dir) \in Nat
            BY <3>2
        <3>4. Len(d) = Len(dir) /\ \A k \in 1..Len(d) : d[k] = dir[k]
            BY <3>1, <3>2, <3>3 DEF Under
        <3>5. QED BY <3>2, <3>4
    <2>5. IsDir(disk.upper, Parent(dir))
        BY <2>2, ParentPath DEF Unsynced, IsDir
    <2>6. /\ \A q \in Paths : disk.upper[q] = upper[q] \/ Under(dir, q)
          /\ upper[dir] # disk.upper[dir] /\ dir # Root
        BY <2>2, UnderReflexive DEF Unsynced, Innermost, ParentsThere, IsDir, Exists, Dir, Nothing
    <2>7. disk'.upper = upper
        BY <2>3, <2>4, <2>5, <2>6, SyncedEntry
    <2>8. QED BY <2>1, <2>7 DEF DiskUpper
<1>4. CASE begin_recovery_operation
    <2>1. disk.upper = upper /\ disk' = disk /\ upper' = upper /\ pc' \notin {"syncparents", "sync", "source", "syncsource"}
        BY <1>4 DEF begin_recovery_operation, Reply, DiskUpper
    <2>2. QED BY <2>1 DEF DiskUpper
<1>5. CASE prepare_stage
    <2>1. disk.upper = upper /\ disk' = disk /\ upper' = upper /\ pc' \notin {"syncparents", "sync", "source", "syncsource"}
        BY <1>5 DEF prepare_stage, DiskUpper
    <2>2. QED BY <2>1 DEF DiskUpper
<1>6. CASE flush_stage
    <2>1. disk.upper = upper /\ disk'.upper = disk.upper /\ upper' = upper /\ pc' \in {"phase", "discard"}
        BY <1>6 DEF flush_stage, DiskUpper, TypeOK
    <2>2. QED BY <2>1 DEF DiskUpper
<1>7. CASE set_recovery_operation_phase
    <2>1. /\ disk.upper = upper /\ disk' = disk /\ upper' = upper
          /\ pc' \notin {"syncparents", "sync", "syncsource"}
        BY <1>7 DEF set_recovery_operation_phase, DiskUpper
    <2>2. QED BY <2>1 DEF DiskUpper
<1>8. CASE publish_staged_operation
    <2>1. /\ disk.upper = upper /\ disk' = disk /\ op' = op /\ pc = "publish" /\ tombDB' = tombDB
        BY <1>8 DEF publish_staged_operation, DiskUpper
    <2>2. CASE upper' = upper /\ pc' = "discard"
        BY <2>1, <2>2 DEF DiskUpper
    <2>3. CASE /\ CanRename(upper, stage[op.id], Destination(op)) /\ pc' = "sync"
               /\ upper' = Overlay(upper, stage[op.id], Destination(op))
        <3> DEFINE to == Destination(op)
        <3>1. to # Root /\ to \in Paths /\ op.kind \in StagedKinds /\ op.id \in Nat
            BY <2>1, <2>3 DEF CanRename, SInv, StageInv, OnlyOwnStage, TypeOK, Operations, Destination
        <3>2. disk.stage[op.id] = stage[op.id] /\ Exists(stage[op.id], to) /\ stage[op.id] = Staged(op)
            BY <2>1, <3>1 DEF DiskStage, SInv, PresentInv, WorkInv
        <3>3. stage[op.id][to].ino = op.id
            BY <3>1, <3>2, StagedNumbers
        <3>4. upper'[to].ino = op.id
            BY <2>3, <3>1, <3>3, UnderReflexive DEF Overlay
        <3>5. \A a \in Paths : Beneath(a, to) => IsDir(disk.upper, a)
            BY <2>1, <3>1 DEF WorkInv, ParentsMade
        <3>6. to' = to
            BY <2>1 DEF Destination
        <3> HIDE DEF to
        <3>7. upper' = Overlay(disk.upper, disk.stage[op.id], to)
            BY <2>1, <2>3, <3>2 DEF to
        <3>8. /\ Exists(disk.stage[op.id], to)' <=> Exists(disk.stage[op.id], to)
              /\ Overlay(disk.upper, disk.stage[op.id], to)' = Overlay(disk.upper, disk.stage[op.id], to)
              /\ \A a \in Paths : IsDir(disk.upper, a)' <=> IsDir(disk.upper, a)
            BY <2>1, <3>6 DEF Exists, Overlay, IsDir
        <3>9. QED BY <2>1, <2>3, <3>1, <3>2, <3>4, <3>5, <3>6, <3>7, <3>8 DEF DiskUpper, to
    <2>4. QED BY <1>8, <2>2, <2>3 DEF publish_staged_operation
<1>9. CASE sync_destination
    <2>1. /\ pc = "sync" /\ upper' = upper /\ pc' \in {"source", "finish"}
          /\ disk'.upper = Synced(Parent(Destination(op)))
        BY <1>9 DEF sync_destination, Fault, Published
    <2>2. Destination(op) \in Paths /\ Destination(op) # Root
        BY <2>1 DEF DiskUpper, TypeOK, Operations, Destination
    <2>3. \A q \in Paths : disk.upper[q] = upper[q] \/ Under(Destination(op), q)
        BY <2>1 DEF DiskUpper, Overlay
    <2>4. upper[Destination(op)] # disk.upper[Destination(op)]
        BY <2>1, <2>2 DEF DiskUpper, DiskNumbers
    <2>5. IsDir(disk.upper, Parent(Destination(op)))
        BY <2>1, <2>2, ParentPath DEF DiskUpper
    <2>6. disk'.upper = upper
        BY <2>1, <2>2, <2>3, <2>4, <2>5, SyncedEntry
    <2>7. QED BY <2>1, <2>6 DEF DiskUpper
<1>10. CASE remove_upper_source
    <2>1. /\ pc = "source" /\ UNCHANGED <<disk, tombDB>> /\ op' = op /\ op.path \in Paths
          /\ \A q \in Paths : disk.upper[q] = upper[q] \/ (Under(op.path, q) /\ upper[q] = Absent)
        BY <1>10 DEF remove_upper_source, Reply, DiskUpper, Fault, Published, TypeOK, Operations
    <2>2. CASE ~Exists(upper, op.path) /\ upper' = upper /\ pc' = "finish"
        <3>1. disk.upper = upper
            BY <2>1, <2>2 DEF DiskUpper
        <3>2. QED BY <2>1, <2>2, <3>1 DEF DiskUpper
    <2>3. ASSUME NEW q \in RemovableLeaf(upper, op.path), upper' = [upper EXCEPT ![q] = Absent],
                 pc' = IF q = op.path THEN "syncsource" ELSE "source"
          PROVE  DiskUpper'
        <3>1. q \in Paths /\ Under(op.path, q) /\ Exists(upper, q)
            BY <2>3 DEF RemovableLeaf
        <3>2. \A p \in Paths : upper'[p] = IF p = q THEN Absent ELSE upper[p]
            BY <2>3, <3>1 DEF TypeOK, Trees
        <3>3. Exists(upper, op.path)
            <4>1. CASE q = op.path
                BY <3>1, <4>1
            <4>2. CASE q # op.path
                BY <2>1, <3>1, <4>2 DEF TreeInv, TreeShaped, Beneath, IsDir, Exists, Dir, Nothing
            <4>3. QED BY <4>1, <4>2
        <3>4. Exists(disk.upper, op.path)
            BY <2>1, <3>3 DEF Exists, Absent
        <3>5. \A p \in Paths : disk.upper[p] = upper'[p] \/ (Under(op.path, p) /\ upper'[p] = Absent)
            BY <2>1, <3>1, <3>2
        <3>6. CASE q = op.path
            BY <2>1, <2>3, <3>2, <3>4, <3>5, <3>6 DEF DiskUpper, Exists, Absent
        <3>7. CASE q # op.path
            BY <2>1, <2>3, <3>2, <3>3, <3>5, <3>7 DEF DiskUpper, Exists
        <3>8. QED BY <3>6, <3>7
    <2>4. QED BY <1>10, <2>1, <2>2, <2>3 DEF remove_upper_source, Fault, Published
<1>11. CASE sync_source
    <2>1. /\ pc = "syncsource" /\ upper' = upper /\ pc' = "finish"
          /\ disk'.upper = Synced(Parent(op.path))
        BY <1>11 DEF sync_source, Fault, Published, TypeOK
    <2>2. op.path \in Paths /\ op.path # Root
        BY <2>1 DEF ProgressInv, LeavingKinds, OperationInv, TypeOK, Operations
    <2>3. \A q \in Paths : disk.upper[q] = upper[q] \/ Under(op.path, q)
        BY <2>1 DEF DiskUpper
    <2>4. upper[op.path] # disk.upper[op.path]
        BY <2>1 DEF DiskUpper, Exists
    <2>5. IsDir(disk.upper, Parent(op.path))
        BY <2>1, <2>2, ParentPath DEF DiskUpper, DiskTree, TreeShaped
    <2>6. disk'.upper = upper
        BY <2>1, <2>2, <2>3, <2>4, <2>5, SyncedEntry
    <2>7. QED BY <2>1, <2>6 DEF DiskUpper
<1>12. CASE finish_recovery_operation
    <2>1. disk.upper = upper /\ disk' = disk /\ upper' = upper /\ pc' \notin {"syncparents", "sync", "source", "syncsource"}
        BY <1>12 DEF finish_recovery_operation, Reply, DiskUpper
    <2>2. QED BY <2>1 DEF DiskUpper
<1>13. CASE discard_stage
    <2>1. disk.upper = upper /\ disk' = disk /\ upper' = upper /\ pc' \notin {"syncparents", "sync", "source", "syncsource"}
        BY <1>13 DEF discard_stage, DiskUpper
    <2>2. QED BY <2>1 DEF DiskUpper
<1>14. CASE abandon_recovery_operation
    <2>1. disk.upper = upper /\ disk' = disk /\ upper' = upper /\ pc' \notin {"syncparents", "sync", "source", "syncsource"}
        BY <1>14 DEF abandon_recovery_operation, Reply, DiskUpper
    <2>2. QED BY <2>1 DEF DiskUpper
<1>15. CASE UNCHANGED vars
    <2>1. UNCHANGED <<disk, upper, tombDB, op, pc>>
        BY <1>15 DEF vars
    <2>2. \A dir : Unsynced(dir) => Unsynced(dir)'
        BY <2>1 DEF Unsynced, Innermost, ParentsThere, base_is_visible, Exists, IsDir, Destination
    <2>3. QED BY <2>1, <2>2 DEF DiskUpper, Exists, Overlay, IsDir, Destination
<1>16. QED BY FirstServes, <1>1, <1>2, <1>3, <1>3s, <1>4, <1>5, <1>6, <1>7, <1>8,
       <1>9, <1>10, <1>11, <1>12, <1>13, <1>14, <1>15

(* Layers that are synced are lost to no power loss.                                   *)
LEMMA SyncedLayers ==
    /\ disk.upper = upper => LostView = StoredView
    /\ disk.upper' = upper' => LostView' = StoredView'
    /\ UNCHANGED <<disk, tombDB>> => LostView' = LostView
<1>1. disk.upper = upper => LostView = StoredView
    BY DEF LostView, StoredView
<1>2. disk.upper' = upper' => LostView' = StoredView'
    BY DEF LostView, StoredView, VisibleIn, base_is_visible, Exists
<1>3. UNCHANGED <<disk, tombDB>> => LostView' = LostView
    BY DEF LostView, VisibleIn, base_is_visible, Exists
<1>4. QED BY <1>1, <1>2, <1>3

(* A directory that was copied up and not synced shows through from the Base state.    *)
LEMMA UnsyncedView ==
    ASSUME NEW dir \in Paths, Unsynced(dir)
    PROVE  /\ \A p \in Paths : Exists(StoredView, p) => Exists(LostView, p)
           /\ ShapeOf(LostView) = ShapeOf(StoredView)
<1>1. ASSUME NEW p \in Paths
      PROVE  Shape(LostView[p]) = Shape(StoredView[p])
    <2>1. CASE p = dir
        BY <2>1 DEF Unsynced, Innermost, ParentsThere, LostView, StoredView, VisibleIn, Shape,
           IsDir, Exists, Dir, Nothing
    <2>2. CASE p # dir
        <3>1. disk.upper[p] = upper[p]
            BY <2>2 DEF Unsynced
        <3>2. QED BY <3>1 DEF LostView, StoredView, VisibleIn, Exists
    <2>3. QED BY <2>1, <2>2
<1>2. \A p \in Paths : Exists(StoredView, p) => Exists(LostView, p)
    BY <1>1 DEF Shape, Exists
<1>3. QED BY <1>1, <1>2 DEF ShapeOf

(* So what is on disk stays a tree.                                                    *)
LEMMA DiskTreeStep ==
    ASSUME DiskTree, TreeInv', disk.upper' = upper' \/ UNCHANGED <<disk, tombDB>>
    PROVE  DiskTree'
<1>1. CASE disk.upper' = upper'
    <2>1. LostView' = StoredView'
        BY <1>1, SyncedLayers
    <2>2. QED BY <1>1, <2>1 DEF TreeInv, DiskTree, TreeShaped, IsDir, Exists
<1>2. CASE UNCHANGED <<disk, tombDB>>
    <2>1. LostView' = LostView
        BY <1>2, SyncedLayers
    <2>2. QED BY <1>2, <2>1 DEF DiskTree, TreeShaped, IsDir, Exists
<1>3. QED BY <1>1, <1>2

(* A new row has no stage on disk.                                                     *)
LEMMA DiskRows ==
    ASSUME mode = "serving", TypeOK, OperationInv, DiskHang, crashes' = 0, [Next]_vars
    PROVE  \A row \in journal' :
              (\E was \in journal : row.id = was.id) \/ disk.stage[row.id] = EmptyTree
<1>1. CASE begin_recovery_operation
    <2>1. nextId \in Ids /\ nextId \in Nat
        BY <1>1, BeginEffect, BoundsAssumption DEF OperationInv, TypeOK, Ids
    <2>2. disk.stage[nextId] = EmptyTree
        BY <2>1 DEF DiskHang
    <2>3. QED BY <1>1, <2>2, BeginEffect
<1>2. CASE set_recovery_operation_phase
    BY <1>2, PhaseRows
<1>3. CASE ~begin_recovery_operation /\ ~set_recovery_operation_phase
    <2>1. \A row \in journal' : row \in journal
        BY <1>3, FirstServes DEF ReadDir, BeginMutation, create_missing_upper_parent_directories,
           sync_copied_directory, prepare_stage, flush_stage, publish_staged_operation,
           sync_destination, remove_upper_source, sync_source, finish_recovery_operation,
           discard_stage, abandon_recovery_operation, vars, metadata
    <2>2. QED BY <2>1
<1>4. QED BY <1>1, <1>2, <1>3

(* Synced stages stay bare when they are replaced by the stages in use, and when       *)
(* nothing is added to what a power loss would leave.                                  *)
LEMMA DiskBareShrinks ==
    ASSUME DiskBare,
           \A row \in journal' :
              (\E was \in journal : row.id = was.id) \/ disk.stage[row.id] = EmptyTree,
           \/ disk.stage' = stage' /\ disk.upper' = upper' /\ BareInv'
           \/ /\ disk.stage' = disk.stage
              /\ \A p \in Paths : Exists(LostView', p) => Exists(LostView, p)
    PROVE  DiskBare'
<1>1. CASE disk.stage' = stage' /\ disk.upper' = upper' /\ BareInv'
    <2>1. LostView' = StoredView'
        BY <1>1, SyncedLayers
    <2>2. QED BY <1>1, <2>1 DEF BareInv, DiskBare, Exists
<1>2. CASE /\ disk.stage' = disk.stage
           /\ \A p \in Paths : Exists(LostView', p) => Exists(LostView, p)
    <2>1. SUFFICES ASSUME NEW row \in journal', NEW r \in Paths, NEW q \in Paths,
                          Beneath(r, q), disk.stage[row.id][r].kind = Leaf
                   PROVE  ~Exists(LostView', q) /\ ~Exists(disk.stage[row.id], q)
        BY <1>2 DEF DiskBare, Exists
    <2>2. disk.stage[row.id] # EmptyTree
        BY <2>1 DEF EmptyTree, Absent, Leaf, Nothing
    <2>3. PICK was \in journal : row.id = was.id
        BY <2>2
    <2>4. QED BY <1>2, <2>1, <2>3 DEF DiskBare
<1>3. QED BY <1>1, <1>2

(* Nothing lies beneath a synced staged leaf either.                                   *)
LEMMA DiskBareStep ==
    ASSUME Ordinary, FaultPoints \cap (Published \cup {"syncparents"}) = {}, Undisturbed, TypeOK, OperationInv,
           TombstonesAgree, SInv, TreeInv, BareInv', DiskHang, DiskBare, DiskUpper,
           disk.upper' = upper' \/ UNCHANGED <<disk, tombDB>>, crashes' = 0, [Next]_vars
    PROVE  DiskBare'
<1> USE DEF Undisturbed, At, storage, metadata
<1>r. \A row \in journal' :
          (\E was \in journal : row.id = was.id) \/ disk.stage[row.id] = EmptyTree
    BY DiskRows
<1>0. UNCHANGED <<disk, tombDB>> => DiskBare'
    BY SyncedLayers, <1>r, DiskBareShrinks
<1>1. ASSUME NEW dir \in Paths, ReadDir(dir)
      PROVE  DiskBare'
    BY <1>1, <1>0 DEF ReadDir
<1>2. ASSUME NEW r \in Requests, BeginMutation(r)
      PROVE  DiskBare'
    BY <1>2, <1>0 DEF BeginMutation
<1>3. CASE create_missing_upper_parent_directories
    BY <1>3, <1>0 DEF create_missing_upper_parent_directories
<1>3s. CASE sync_copied_directory
    <2>1. CASE UNCHANGED <<disk, tombDB>>
        BY <2>1, <1>0
    <2>2. CASE disk.upper' = upper'
        <3>1. /\ disk'.stage = disk.stage /\ upper' = upper /\ tombDB' = tombDB /\ pc = "syncparents"
            BY <1>3s DEF sync_copied_directory, TypeOK
        <3>2. PICK dir \in Paths : Unsynced(dir)
            BY <3>1 DEF DiskUpper
        <3>3. LostView' = StoredView' /\ StoredView' = StoredView
            BY <2>2, <3>1, SyncedLayers, SameLayers
        <3>4. \A p \in Paths : Exists(StoredView, p) => Exists(LostView, p)
            BY <3>2, UnsyncedView
        <3>5. QED BY <3>1, <3>3, <3>4, <1>r, DiskBareShrinks
    <2>3. QED BY <2>1, <2>2
<1>4. CASE begin_recovery_operation
    BY <1>4, <1>0 DEF begin_recovery_operation, Reply
<1>5. CASE prepare_stage
    BY <1>5, <1>0 DEF prepare_stage
<1>6. CASE flush_stage
    <2>1. CASE UNCHANGED <<disk, tombDB>>
        BY <2>1, <1>0
    <2>2. CASE disk' = [disk EXCEPT !.stage = stage]
        <3>1. /\ disk.upper = upper /\ disk'.stage = stage /\ disk'.upper = disk.upper
              /\ UNCHANGED <<upper, stage>>
            BY <1>6, <2>2 DEF flush_stage, DiskUpper, TypeOK
        <3>2. QED BY <3>1, <1>r, DiskBareShrinks
    <2>3. QED BY <1>6, <2>1, <2>2 DEF flush_stage
<1>7. CASE set_recovery_operation_phase
    BY <1>7, <1>0 DEF set_recovery_operation_phase
<1>8. CASE publish_staged_operation
    BY <1>8, <1>0 DEF publish_staged_operation
<1>9. CASE sync_destination
    <2>1. /\ pc' \in {"source", "finish"} /\ disk'.stage = stage /\ stage' = stage
          /\ disk'.upper = upper' \/ UNCHANGED <<disk, tombDB>>
        BY <1>9 DEF sync_destination, Fault, Published
    <2>2. QED BY <2>1, <1>0, <1>r, DiskBareShrinks
<1>10. CASE remove_upper_source
    BY <1>10, <1>0 DEF remove_upper_source
<1>11. CASE sync_source
    <2>1. CASE UNCHANGED <<disk, tombDB>>
        BY <2>1, <1>0
    <2>2. CASE disk.upper' = upper'
        <3>1. /\ disk'.stage = disk.stage /\ upper' = upper /\ tombDB' = tombDB /\ pc = "syncsource"
            BY <1>11 DEF sync_source, TypeOK
        <3>2. \A q \in Paths : Exists(upper, q) => Exists(disk.upper, q)
            BY <3>1 DEF DiskUpper, Exists, Absent
        <3>3. LostView' = StoredView' /\ StoredView' = StoredView
            BY <2>2, <3>1, SyncedLayers, SameLayers
        <3>4. \A p \in Paths : Exists(StoredView, p) => Exists(LostView, p)
            BY <3>2, VisibleWhen DEF StoredView, LostView
        <3>5. QED BY <3>1, <3>3, <3>4, <1>r, DiskBareShrinks
    <2>3. QED BY <2>1, <2>2
<1>12. CASE finish_recovery_operation
    <2>1. /\ disk.upper = upper /\ disk' = disk /\ upper' = upper /\ pc = "finish"
          /\ tombDB' = StoreTombstoned(tombDB, op)
        BY <1>12 DEF finish_recovery_operation, DiskUpper, Fault, Published
    <2>2. LostView = StoredView /\ LostView' = StoredView'
        BY <2>1, SyncedLayers
    <2>3. \A p \in Paths : Exists(StoredView', p) => Exists(StoredView, p)
        BY <2>1, FinishUncovers
    <2>4. QED BY <2>1, <2>2, <2>3, <1>r, DiskBareShrinks
<1>13. CASE discard_stage
    BY <1>13, <1>0 DEF discard_stage
<1>14. CASE abandon_recovery_operation
    BY <1>14, <1>0 DEF abandon_recovery_operation, Reply
<1>15. CASE UNCHANGED vars
    BY <1>15, <1>0 DEF vars
<1>16. QED BY FirstServes, <1>1, <1>2, <1>3, <1>3s, <1>4, <1>5, <1>6, <1>7, <1>8,
       <1>9, <1>10, <1>11, <1>12, <1>13, <1>14, <1>15

(* What is on disk stays as it must be until the first crash.                          *)
LEMMA DiskStep ==
    ASSUME Ordinary, TypeOK, OperationInv, TombstonesAgree, SInv, RowInv, ProgressInv,
           TreeInv, HangInv, WorkInv, DiskInv, [Next]_vars,
           TypeOK', TreeInv', BareInv', HangInv'
    PROVE  DiskInv'
<1>1. SUFFICES ASSUME PowerLosses # {}, crashes' = 0
               PROVE  /\ Undisturbed' /\ DiskTree' /\ DiskBare' /\ DiskHang'
                      /\ DiskNumbers' /\ DiskUpper' /\ DiskStage'
    BY DEF DiskInv
<1>2. FaultPoints \cap (Published \cup {"syncparents"}) = {}
    BY <1>1 DEF Ordinary
<1>3. crashes = 0
    <2>1. Mutation => crashes' = crashes
        BY DEF Mutation, create_missing_upper_parent_directories, sync_copied_directory,
           begin_recovery_operation, prepare_stage, flush_stage, set_recovery_operation_phase,
           publish_staged_operation, sync_destination, remove_upper_source, sync_source,
           finish_recovery_operation, discard_stage, abandon_recovery_operation
    <2>2. recover_interrupted_operations => crashes' = crashes
        BY DEF recover_interrupted_operations, recover_next_operation, recover_rollback,
           publish_staged_entry, recover_sync, remove_upper_entry, recover_sync_source,
           recover_finish, open_workspace, RecoverySame
    <2>3. Crash \/ crashes' = crashes
        <3>1. \A dir \in Paths : ReadDir(dir) => crashes' = crashes
            BY DEF ReadDir
        <3>2. \A r \in Requests : BeginMutation(r) => crashes' = crashes
            BY DEF BeginMutation
        <3>3. UNCHANGED vars => crashes' = crashes
            BY DEF vars
        <3>4. Restart \/ recover_error => crashes' = crashes
            BY DEF Restart, recover_error
        <3>5. QED BY <2>1, <2>2, <3>1, <3>2, <3>3, <3>4 DEF Next
    <2>4. crashes \in Nat
        BY BoundsAssumption DEF TypeOK
    <2>5. QED BY <1>1, <2>3, <2>4 DEF Crash
<1>4. /\ Undisturbed /\ DiskTree /\ DiskBare /\ DiskHang /\ DiskNumbers /\ DiskUpper /\ DiskStage
      /\ mode = "serving"
    BY <1>1, <1>3 DEF DiskInv, Undisturbed
<1>5. Undisturbed'
    BY <1>1, <1>2, <1>4, UndisturbedStep
<1>6. DiskStage'
    BY <1>1, <1>4, DiskStageStep
<1>7. DiskHang'
    BY <1>1, <1>4, DiskHangStep
<1>8. DiskNumbers'
    BY <1>1, <1>4, DiskNumbersStep
<1>9. DiskUpper' /\ (disk.upper' = upper' \/ UNCHANGED <<disk, tombDB>>)
    BY <1>1, <1>2, <1>4, DiskUpperStep
<1>10. DiskTree'
    BY <1>4, <1>9, DiskTreeStep
<1>11. DiskBare'
    BY <1>1, <1>2, <1>4, <1>9, DiskBareStep
<1>12. QED BY <1>5, <1>6, <1>7, <1>8, <1>9, <1>10, <1>11

(* After a power loss the shapes that recovery needs are there.                     *)
LEMMA LossShapes ==
    ASSUME LosesUnsynced, DiskTree, DiskBare, DiskHang
    PROVE  StoredView' = LostView /\ TreeInv' /\ BareInv' /\ HangInv'
<1>1. StoredView' = LostView
    BY DEF LosesUnsynced, StoredView, LostView, VisibleIn, base_is_visible, Exists
<1>2. TreeInv'
    BY <1>1 DEF LosesUnsynced, TreeInv, DiskTree, TreeShaped, IsDir, Exists
<1>3. BareInv'
    BY <1>1 DEF LosesUnsynced, BareInv, DiskBare, Exists
<1>4. HangInv'
    BY DEF LosesUnsynced, HangInv, DiskHang, Hanging, Exists
<1>5. QED BY <1>1, <1>2, <1>3, <1>4

(* A power loss does not change what settling the row of a published entry gives.      *)
LEMMA LossSettles ==
    ASSUME TypeOK, OperationInv, SInv, RowInv, LeftInv, ProgressInv, WorkInv, DiskUpper, DiskStage,
           mode = "serving", CrashCompletes, LosesUnsynced, NEW row \in journal, row.id = op.id
    PROVE  /\ Settled(row)' = Settled(row)
           /\ Exists(stage[row.id], Destination(row))' => ParentsMade(row)'
<1> USE DEF LosesUnsynced
<1>1. pc \in Published \cup {"publish", "abandon"} /\ op.kind \in Kinds
    BY DEF CrashCompletes, OperationInv, Published
<1>2. /\ SameWork(row, op) /\ Destination(row) = Destination(op) /\ row.kind = op.kind
      /\ row.path = op.path /\ Destination(op) \in Paths /\ op.path \in Paths
      /\ Destination(row)' = Destination(row)
    BY <1>1, OwnRow DEF Published, SameWork, Destination, TypeOK, Operations
<1>3. StoreTombstoned(tombDB, row)' = StoreTombstoned(tombDB, row)
    BY DEF StoreTombstoned
<1>4. \A p \in Paths : EmptyTree[p].kind = Nothing
    BY DEF EmptyTree, Absent
<1>5. CASE pc = "publish"
    <2>1. upper' = upper /\ stage'[op.id] = stage[op.id] /\ op.kind \in StagedKinds
        BY <1>5 DEF DiskUpper, DiskStage, SInv, StageInv, OnlyOwnStage
    <2>2. Settled(row)' = Settled(row)
        BY <2>1, <1>3 DEF Settled
    <2>3. ParentsMade(row)'
        BY <1>2, <1>5, <2>1 DEF WorkInv, ParentsMade, IsDir
    <2>4. QED BY <2>2, <2>3
<1>6. CASE pc = "sync"
    <2>1. /\ Exists(disk.stage[op.id], Destination(op))
          /\ upper = Overlay(disk.upper, disk.stage[op.id], Destination(op))
          /\ \A a \in Paths : Beneath(a, Destination(op)) => IsDir(disk.upper, a)
          /\ stage[op.id] = EmptyTree /\ op.kind \in StagedKinds
        BY <1>6 DEF DiskUpper, SInv, StageInv, OnlyOwnStage, ProgressInv, Published
    <2>2. ~Exists(stage[row.id], Destination(row))
        BY <1>2, <1>4, <2>1 DEF Exists
    <2>3. /\ Exists(stage[row.id], Destination(row))'
          /\ Overlay(upper, stage[row.id], Destination(row))' = upper
        BY <1>2, <2>1 DEF Exists, Overlay
    <2>4. Settled(row)' = Settled(row)
        BY <1>2, <1>3, <2>1, <2>2, <2>3 DEF Settled
    <2>5. ParentsMade(row)'
        BY <1>2, <2>1 DEF ParentsMade, IsDir
    <2>6. QED BY <2>4, <2>5
<1>7. CASE pc \in {"source", "syncsource", "finish", "abandon"}
    <2>0. op.id \in Ids /\ (op.kind \in RemovingKinds => op.id \notin left)
        BY <1>2, OthersUnstaged DEF SInv
    <2>1. disk.stage[op.id] = EmptyTree /\ stage[op.id] = EmptyTree
        BY <1>1, <1>7, <2>0
           DEF DiskStage, Published, CrashCompletes, Journalled, Steps, SInv, StageInv, OnlyOwnStage
    <2>2. ~Exists(stage[row.id], Destination(row)) /\ ~Exists(stage[row.id], Destination(row))'
        BY <1>2, <1>4, <2>1 DEF Exists
    <2>3. CASE upper' = upper
        BY <1>3, <2>2, <2>3 DEF Settled
    <2>4. CASE pc \in {"source", "syncsource"}
        <3>1. row.kind \notin StagedKinds \ {"rename"}
            BY <1>2, <2>4 DEF ProgressInv, LeavingKinds, RemovingKinds, StagedKinds, CreatingKinds,
               ReplacingKinds
        <3>2. [p \in Paths |-> IF Under(row.path, p) THEN Absent ELSE upper'[p]]
                = [p \in Paths |-> IF Under(row.path, p) THEN Absent ELSE upper[p]]
            BY <1>2, <2>4 DEF DiskUpper
        <3>3. Settled(row) = VisibleIn([p \in Paths |-> IF Under(row.path, p) THEN Absent ELSE upper[p]],
                                       StoreTombstoned(tombDB, row))
            BY <2>2, <3>1 DEF Settled
        <3>4. Settled(row)' = VisibleIn([p \in Paths |-> IF Under(row.path, p) THEN Absent ELSE upper'[p]],
                                        StoreTombstoned(tombDB, row)')
            BY <2>2, <3>1 DEF Settled
        <3>5. QED BY <1>3, <2>2, <3>2, <3>3, <3>4
    <2>5. QED BY <1>7, <2>2, <2>3, <2>4 DEF DiskUpper
<1>8. QED BY <1>1, <1>5, <1>6, <1>7 DEF Published

(* Where no row is published, a power loss changes nothing callers can see.            *)
LEMMA LossUnpublished ==
    ASSUME RowInv, DiskUpper, PublishingRows = {}
    PROVE  ShapeOf(LostView) = ShapeOf(StoredView)
<1>1. ASSUME pc \in Published PROVE FALSE
    BY <1>1, OwnRow DEF Published, PublishingRows
<1>2. CASE disk.upper = upper
    BY <1>2, SyncedLayers
<1>3. CASE disk.upper # upper
    <2>1. PICK dir \in Paths : Unsynced(dir)
        BY <1>1, <1>3 DEF Published, DiskUpper
    <2>2. QED BY <2>1, UnsyncedView
<1>4. QED BY <1>2, <1>3

(* A power loss leaves the old tree, the new one, or one published row whose settling  *)
(* gives it.                                                                           *)
LEMMA LossOutcome ==
    ASSUME TypeOK, OperationInv, TombstonesAgree, SInv, RowInv, LeftInv, ProgressInv, HangInv, WorkInv,
           RunningInv, OutcomeInv, Undisturbed, DiskUpper, DiskStage, Crash, LosesUnsynced
    PROVE  OutcomeInv'
<1>1. /\ UNCHANGED <<tombDB, journal, old, new, clean>> /\ mode' = "down" /\ mode = "serving"
      /\ upper' = disk.upper
    BY DEF Crash, LosesUnsynced, Undisturbed
<1>2. PublishingRows' = PublishingRows
    BY <1>1 DEF PublishingRows
<1>3. PublishingRows = {} => ShapeOf(StoredView)' = ShapeOf(StoredView)
    <2>1. ShapeOf(StoredView)' = ShapeOf(LostView)
        BY <1>1 DEF StoredView, LostView, ShapeOf, VisibleIn, base_is_visible, Exists
    <2>2. QED BY <2>1, LossUnpublished
<1>4. CASE pc = "idle"
    <2>1. result' = result /\ result \in {"ok", "error"}
        BY <1>1, <1>4 DEF Crash, Undisturbed, RunningInv
    <2>2. QED BY <1>1, <1>2, <1>3, <2>1 DEF OutcomeInv
<1>5. CASE pc # "idle"
    <2>1. /\ result' = IF RollingBackPublication THEN "torn" ELSE "crashed"
          /\ result = "running"
        BY <1>1, <1>5 DEF Crash, RunningInv
    <2>2. SUFFICES ASSUME clean, ~RollingBackPublication
                   PROVE  /\ PublishingRows = {} => ShapeOf(StoredView)' \in {old, new}
                          /\ \A row \in PublishingRows :
                                /\ PublishingRows = {row} /\ ShapeOf(Settled(row))' = new
                                /\ Exists(stage[row.id], Destination(row))' => ParentsMade(row)'
        BY <1>1, <1>2, <2>1 DEF OutcomeInv
    <2>3. ASSUME PublishingRows = {} PROVE ShapeOf(StoredView)' \in {old, new}
        <3>1. pc \in Steps /\ pc \notin Published \cup {"publish"}
            <4>1. SUFFICES ASSUME pc \in Published \cup {"publish"} PROVE FALSE
                BY <1>5 DEF TypeOK
            <4>2. QED BY <2>3, <4>1, OwnRow DEF PublishingRows, Published
        <3>2. ShapeOf(View) = old
            BY <2>1, <2>2, <3>1 DEF RunningInv, BeforeEffect, Unpublished
        <3>3. ShapeOf(StoredView)' = ShapeOf(StoredView)
            BY <1>3, <2>3
        <3>4. QED BY <1>1, <3>2, <3>3, ServedView
    <2>4. ASSUME NEW row \in PublishingRows
          PROVE  /\ PublishingRows = {row} /\ ShapeOf(Settled(row))' = new
                 /\ Exists(stage[row.id], Destination(row))' => ParentsMade(row)'
        <3>1. row \in journal /\ row.id = op.id /\ CrashCompletes
            BY <1>1, <1>5, <2>2, CrashedPublished
        <3>2. PublishingRows = {row} /\ ShapeOf(Settled(row)) = new
            BY <1>1, <2>2, <3>1, LeftToRecovery DEF SInv
        <3>3. /\ Settled(row)' = Settled(row)
              /\ Exists(stage[row.id], Destination(row))' => ParentsMade(row)'
            BY <1>1, <3>1, LossSettles
        <3>4. QED BY <3>2, <3>3 DEF ShapeOf
    <2>5. QED BY <2>3, <2>4
<1>6. QED BY <1>4, <1>5

-----------------------------------------------------------------------------
(* Results. *)

(* A new Workspace shows the Base state, and nothing is under way.                     *)
LEMMA InitCrash ==
    ASSUME Init
    PROVE  CInv /\ DiskInv
<1> USE DEF Init
<1>1. /\ upper = [EmptyTree EXCEPT ![Root] = Base[Root]] /\ Root \in Paths
      /\ Base \in Trees /\ TreeShaped(Base) /\ EmptyTree \in Trees
    BY ConstantTypes, BaseAssumption
<1>2. \A p \in Paths : upper[p] = IF p = Root THEN Base[Root] ELSE Absent
    BY <1>1 DEF EmptyTree
<1>3. Exists(Base, Root) /\ Absent.kind = Nothing
    BY <1>1 DEF TreeShaped, IsDir, Exists, Dir, Nothing, Absent
<1>4. \A p \in Paths : StoredView[p] = Base[p]
    <2>1. \A p \in Paths : base_is_visible(tombDB, p)
        BY DEF base_is_visible
    <2>2. QED BY <1>2, <1>3, <2>1 DEF StoredView, VisibleIn, Exists
<1>5. TreeInv
    <2>1. TreeShaped(StoredView)
        BY <1>1, <1>4, TreeByKinds
    <2>2. TreeShaped(upper)
        <3>1. ASSUME NEW p \in Paths, NEW q \in Paths, Beneath(p, q), Exists(upper, q)
              PROVE  FALSE
            <4>1. q = Root
                BY <1>2, <1>3, <3>1 DEF Exists
            <4>2. Under(Root, p)
                BY PathsAssumption DEF Under, Root
            <4>3. QED BY <1>1, <3>1, <4>1, <4>2, UnderAntisymmetric DEF Beneath
        <3>2. IsDir(upper, Root)
            BY <1>1, <1>2 DEF TreeShaped, IsDir
        <3>3. QED BY <3>1, <3>2 DEF TreeShaped
    <2>3. QED BY <2>1, <2>2 DEF TreeInv
<1>6. PublishingRows = {} /\ ShapeOf(StoredView) = ShapeOf(Base)
    BY <1>4 DEF PublishingRows, ShapeOf
<1>7. BareInv
    BY DEF BareInv, EmptyTree, Absent, Leaf, Nothing
<1>8. HangInv /\ LeftInv
    BY DEF HangInv, LeftInv
<1>9. RowInv /\ ProgressInv
    BY DEF RowInv, ProgressInv, Published
<1>10. WorkInv
    BY DEF WorkInv, BeforeEffect, Unpublished, Steps
<1>11. RunningInv /\ OutcomeInv
    BY <1>6 DEF RunningInv, OutcomeInv
<1>12. DiskInv
    <2>1. DiskTree /\ DiskBare /\ DiskHang
        BY <1>5, <1>7 DEF DiskTree, DiskBare, DiskHang, TreeInv, BareInv, LostView, StoredView
    <2>2. \A p \in Paths : upper[p].ino < nextId
        BY <1>2, BaseAssumption DEF Absent
    <2>3. DiskNumbers /\ DiskUpper /\ DiskStage
        BY <2>2 DEF DiskNumbers, Numbered, DiskUpper, DiskStage, Published, Journalled, Steps
    <2>4. QED BY <2>1, <2>3 DEF DiskInv, Undisturbed
<1>13. QED BY <1>5, <1>7, <1>8, <1>9, <1>10, <1>11, <1>12 DEF CInv

(* A crash that loses anything is the first, and loses what was not synced.            *)
LEMMA FirstLoss ==
    ASSUME Ordinary, TypeOK, DiskInv, [Next]_vars, ~KeepsStorage
    PROVE  /\ Crash /\ LosesUnsynced
           /\ Undisturbed /\ DiskTree /\ DiskBare /\ DiskHang /\ DiskUpper /\ DiskStage
<1>1. Crash /\ crashes' = crashes + 1 /\ crashes' \in PowerLosses /\ LosesUnsynced
    BY DEF KeepsStorage, Crash, LosesUnsynced, metadata
<1>2. PowerLosses \subseteq {1} /\ crashes \in Nat
    BY <1>1 DEF Ordinary, TypeOK
<1>3. crashes = 0
    BY <1>1, <1>2
<1>4. QED BY <1>1, <1>3 DEF DiskInv

(* The invariant all results follow from.                                              *)
LEMMA CrashInvariance ==
    ASSUME Ordinary
    PROVE  Spec => []((IInv /\ SInv) /\ TombstonesAgree /\ CInv /\ DiskInv)
<1>1. Spec => []((IInv /\ SInv) /\ TombstonesAgree)
    <2>1. CaseDistinct
        BY DEF Ordinary
    <2>2. Spec => []TombstonesAgree
        BY <2>1, TombstoneAgreement
    <2>3. QED BY <2>2, StorageInvariance, PTL
<1>2. Init => CInv /\ DiskInv
    BY InitCrash
<1>3. ASSUME IInv, SInv, TombstonesAgree, CInv, DiskInv, [Next]_vars, IInv'
      PROVE  CInv' /\ DiskInv'
    <2>1. /\ TypeOK /\ OperationInv /\ StageInv /\ PresentInv
          /\ RowInv /\ ProgressInv /\ TreeInv /\ BareInv /\ LeftInv /\ HangInv
          /\ WorkInv /\ RunningInv /\ OutcomeInv
        BY <1>3 DEF IInv, SInv, CInv
    <2>2. RowInv'
        BY <1>3, <2>1, RowStep
    <2>3. ProgressInv'
        BY <1>3, <2>1, ProgressStep
    <2>3l. LeftInv'
        BY <1>3, <2>1, LeftStep
    <2>4. WorkInv'
        BY <1>3, <2>1, WorkStep
    <2>5. RunningInv'
        BY <1>3, <2>1, RunningStep
    <2>6. TreeInv' /\ BareInv' /\ HangInv' /\ OutcomeInv'
        <3>1. CASE KeepsStorage
            <4>1. TreeInv'
                BY <1>3, <2>1, <3>1, TreeStep
            <4>2. BareInv'
                BY <1>3, <2>1, <3>1, BareStep
            <4>3. HangInv'
                BY <1>3, <2>1, <3>1, HangStep
            <4>4. OutcomeInv'
                BY <1>3, <2>1, <3>1, OutcomeStep
            <4>5. QED BY <4>1, <4>2, <4>3, <4>4
        <3>2. CASE ~KeepsStorage
            <4>1. /\ Crash /\ LosesUnsynced
                  /\ Undisturbed /\ DiskTree /\ DiskBare /\ DiskHang /\ DiskUpper /\ DiskStage
                BY <1>3, <2>1, <3>2, FirstLoss
            <4>2. TreeInv' /\ BareInv' /\ HangInv'
                BY <4>1, LossShapes
            <4>3. OutcomeInv'
                BY <1>3, <2>1, <4>1, LossOutcome
            <4>4. QED BY <4>2, <4>3
        <3>3. QED BY <3>1, <3>2
    <2>7. DiskInv'
        <3>1. TypeOK'
            BY <1>3 DEF IInv
        <3>2. QED BY <1>3, <2>1, <2>6, <3>1, DiskStep
    <2>8. QED
        BY <2>2, <2>3, <2>3l, <2>4, <2>5, <2>6, <2>7 DEF CInv
<1>4. /\ ((IInv /\ SInv) /\ TombstonesAgree) /\ CInv /\ DiskInv /\ [Next]_vars
      /\ ((IInv /\ SInv) /\ TombstonesAgree)'
      => (CInv /\ DiskInv)'
    BY <1>3
<1>5. QED BY <1>1, <1>2, <1>4, PTL DEF Spec

(* In a quiet state callers see what is stored.                                        *)
LEMMA QuietView ==
    ASSUME TombstonesAgree, Quiet
    PROVE  StoredView = View /\ (RunningInv => result # "running")
BY ServedView DEF Quiet, RunningInv

(* The merged layers form a tree in every state a caller can observe, whatever failed, *)
(* crashed and was recovered before (resolve_visible_entry).                           *)
THEOREM ViewsAreTrees ==
    ASSUME Ordinary
    PROVE  Spec => []ViewIsTree
<1>1. (IInv /\ SInv) /\ TombstonesAgree /\ CInv /\ DiskInv => ViewIsTree
    BY QuietView DEF ViewIsTree, CInv, TreeInv
<1>2. QED BY <1>1, CrashInvariance, PTL

(* A mutation that was acknowledged is what the Workspace shows, after crashes and     *)
(* interrupted recoveries too (finish_recovery_operation, recover_interrupted_operations). *)
(* Under Ordinary no power loss follows an error of the sync of a new parent directory.    *)
THEOREM AcknowledgedKept ==
    ASSUME Ordinary
    PROVE  Spec => []AcknowledgedSurvives
<1>1. (IInv /\ SInv) /\ TombstonesAgree /\ CInv /\ DiskInv => AcknowledgedSurvives
    BY QuietView DEF AcknowledgedSurvives, CInv, OutcomeInv
<1>2. QED BY <1>1, CrashInvariance, PTL

(* An interrupted mutation has happened completely or not at all once recovery has     *)
(* exposed the Workspace.                                                              *)
THEOREM RecoveryIsAtomic ==
    ASSUME Ordinary
    PROVE  Spec => []RecoveredOldOrNew
<1>1. (IInv /\ SInv) /\ TombstonesAgree /\ CInv /\ DiskInv => RecoveredOldOrNew
    BY QuietView DEF RecoveredOldOrNew, CInv, OutcomeInv, Quiet, PublishingRows
<1>2. QED BY <1>1, CrashInvariance, PTL

(* A mutation that reported an error after its publication has happened once its row   *)
(* is settled.                                                                         *)
THEOREM LateErrorsComplete ==
    ASSUME Ordinary
    PROVE  Spec => []LateErrorCompletes
<1>1. (IInv /\ SInv) /\ TombstonesAgree /\ CInv /\ DiskInv => LateErrorCompletes
    BY QuietView DEF LateErrorCompletes, CInv, OutcomeInv, PublishingRows
<1>2. QED BY <1>1, CrashInvariance, PTL

(* A mutation that reported an error before its publication has changed nothing, if    *)
(* abandon_recovery_operation can delete its row: with the row left behind, recovery   *)
(* takes the mutation for a published one.                                             *)
THEOREM ErrorsChangeNothing ==
    ASSUME Ordinary, "abandon" \notin FaultPoints
    PROVE  Spec => []ErrorKeepsOldState
<1>1. (IInv /\ SInv) /\ TombstonesAgree /\ CInv /\ DiskInv => ErrorKeepsOldState
    BY QuietView DEF ErrorKeepsOldState, CInv, OutcomeInv
<1>2. QED BY <1>1, CrashInvariance, PTL
=============================================================================
