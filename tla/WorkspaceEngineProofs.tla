------------------------ MODULE WorkspaceEngineProofs ------------------------
(***************************************************************************)
(* Machine-checked proofs about WorkspaceEngine, for every universe of      *)
(* paths, every Base state, every set of requests and every pattern of      *)
(* storage errors, crashes and power losses.                                *)
(*                                                                         *)
(* CachedListingsCurrent is not inductive: a mutation forgets listings when *)
(* it starts and changes the layers several steps later.  IInv adds what    *)
(* bridges the gap: from the journal row to the reply nothing the operation *)
(* may change is cached (Forgotten), and the operation under way still has  *)
(* the shape it was journalled with (OperationInv).                         *)
(***************************************************************************)
EXTENDS WorkspaceEngine, TLAPS

(* The shape of the operation under way. *)
OperationInv ==
    /\ pc \in Steps \ {"parents", "syncparents", "journal"} => op.id \in Ids
    /\ IF pc = "idle" THEN op = NoOp ELSE op.kind \in Kinds
    /\ pc \in {"parents", "syncparents", "journal"} => nextId =< MaxOps
    /\ mode = "serving" =>
        /\ op.kind \in RemovingKinds \cup {"rename"} => op.path # Root
        /\ op.kind = "rename" => op.target # Root
        /\ op.add => op.kind \in RemovingKinds \cup {"rename"}
        /\ op.drop => op.kind = "rename"
        /\ pc = "source" => op.kind \in RemovingKinds \cup {"rename"}

(* The listings that a change beneath p may affect. *)
Affected(p, d) == d = p \/ (p # Root /\ (Under(p, d) \/ d = Parent(p)))

(* Every cached listing is the one the tree has. *)
Current(tree, c) ==
    \A d \in Paths : c[d] # {} => IsDir(tree, d) /\ c[d] = Listing(tree, d)

(* Once the row is written, nothing the operation may change is cached. *)
Journalled == mode = "serving" /\ pc \in Steps \ {"parents", "syncparents", "journal"}
Forgotten ==
    \A d \in Paths :
        Affected(op.path, d) \/ (op.kind = "rename" /\ Affected(op.target, d)) => cache[d] = {}

CacheInv ==
    /\ mode # "serving" => \A d \in Paths : cache[d] = {}
    /\ mode = "serving" => Current(View, cache)
    /\ Journalled => Forgotten

IInv == TypeOK /\ OperationInv /\ CacheInv
-----------------------------------------------------------------------------
(* Paths. *)

(* The prefix of a path is a path, as long as it says. *)
LEMMA PrefixProperties ==
    ASSUME NEW c \in Seq(Names), NEW n \in Nat, n =< Len(c)
    PROVE  /\ Len(SubSeq(c, 1, n)) = n
           /\ \A i \in 1..n : SubSeq(c, 1, n)[i] = c[i]
OBVIOUS

(* A path beneath p that is not p itself has its parent beneath p. *)
LEMMA UnderParent ==
    ASSUME NEW p \in Paths, NEW c \in Paths, c # Root, Under(p, c), p # c
    PROVE  Under(p, Parent(c))
<1>1. p \in Seq(Names) /\ c \in Seq(Names) /\ Len(p) \in Nat /\ Len(c) \in Nat
    BY PathsAssumption
<1>2. Len(c) # 0
    BY <1>1 DEF Root
<1>3. Len(Parent(c)) = Len(c) - 1 /\ \A i \in 1..(Len(c) - 1) : Parent(c)[i] = c[i]
    <2>1. Len(c) - 1 \in Nat /\ Len(c) - 1 =< Len(c)
        BY <1>1, <1>2
    <2>2. QED BY <1>1, <2>1, PrefixProperties DEF Parent
<1>4. Len(p) # Len(c)
    <2>1. SUFFICES ASSUME Len(p) = Len(c) PROVE FALSE
        OBVIOUS
    <2>2. \A i \in 1..Len(p) : p[i] = c[i]
        BY DEF Under
    <2>3. p = c
        BY <1>1, <2>1, <2>2
    <2>4. QED BY <2>3
<1>5. QED BY <1>1, <1>3, <1>4 DEF Under

(* Lying beneath is transitive. *)
LEMMA UnderTransitive ==
    ASSUME NEW p \in Paths, NEW q \in Paths, NEW r \in Paths, Under(p, q), Under(q, r)
    PROVE  Under(p, r)
<1>1. Len(p) \in Nat /\ Len(q) \in Nat /\ Len(r) \in Nat
    BY PathsAssumption
<1>2. QED BY <1>1 DEF Under

(* Two trees that differ only beneath p agree on every listing that p does  *)
(* not affect: forget_cached_directory_entries forgets enough.              *)
LEMMA ListingUnchanged ==
    ASSUME NEW one, NEW two, NEW p \in Paths, NEW d \in Paths,
           \A q \in Paths : one[q] # two[q] => q = p \/ (p # Root /\ Under(p, q)),
           ~Affected(p, d)
    PROVE  /\ IsDir(one, d) <=> IsDir(two, d)
           /\ Listing(one, d) = Listing(two, d)
<1>1. one[d] = two[d]
    BY DEF Affected
<1>2. ASSUME NEW c \in Paths, c # Root, Parent(c) = d
      PROVE  one[c] = two[c]
    <2>1. SUFFICES ASSUME one[c] # two[c] PROVE FALSE
        OBVIOUS
    <2>2. p # Root /\ (c = p \/ Under(p, c))
        BY <1>2, <2>1
    <2>3. CASE c = p
        BY <1>2, <2>2, <2>3 DEF Affected
    <2>4. CASE c # p
        <3>1. Under(p, Parent(c))
            BY <1>2, <2>2, <2>4, UnderParent
        <3>2. QED BY <1>2, <2>2, <3>1 DEF Affected
    <2>5. QED BY <2>3, <2>4
<1>3. Children(one, d) = Children(two, d)
    BY <1>2 DEF Children, Exists
<1>4. \A c \in Children(one, d) : one[c] = two[c]
    BY <1>2 DEF Children
<1>5. merge_visible_directory_entries(one, d) = merge_visible_directory_entries(two, d)
    BY <1>3, <1>4 DEF merge_visible_directory_entries
<1>6. QED BY <1>1, <1>5 DEF IsDir, Listing

-----------------------------------------------------------------------------
(* Types of the values the actions build. *)

(* The constants the actions start from have their types. *)
LEMMA ConstantTypes ==
    /\ Blank \in Vals /\ Root \in Paths
    /\ Absent \in Entries /\ EmptyTree \in Trees /\ NoOp \in Operations
<1>1. Blank \in Vals
    BY ValsAssumption DEF Blank
<1>2. Absent \in Entries
    BY <1>1 DEF Absent, Entries, Nothing
<1>3. EmptyTree \in Trees
    BY <1>2 DEF EmptyTree, Trees
<1>4. NoOp \in Operations
    BY <1>1, PathsAssumption DEF NoOp, Operations
<1>5. QED BY <1>1, <1>2, <1>3, <1>4, PathsAssumption

(* Updating one field of an entry or an operation keeps its type. *)
LEMMA RecordUpdates ==
    /\ \A e \in Entries, i \in Nat : [e EXCEPT !.ino = i] \in Entries
    /\ \A e \in Entries, v \in Vals : [e EXCEPT !.val = v] \in Entries
    /\ \A o \in Operations, i \in Nat, a \in BOOLEAN, d \in BOOLEAN :
          LET started == [o EXCEPT !.id = i, !.add = a, !.drop = d]
          IN  started \in Operations /\ started.add = a /\ started.drop = d
BY DEF Entries, Operations

(* Publishing a staged tree over the upper tree gives a tree. *)
LEMMA OverlayType ==
    ASSUME NEW up \in Trees, NEW staged \in Trees, NEW to
    PROVE  Overlay(up, staged, to) \in Trees
BY DEF Overlay, Trees

(* The parents recovery creates leave a tree. *)
LEMMA WithParentsType ==
    ASSUME NEW up \in Trees, NEW to, op.id \in Nat
    PROVE  WithParents(up, to) \in Trees
BY ConstantTypes DEF WithParents, Trees, Entries, Dir

(* The merged layers are a tree. *)
LEMMA VisibleType ==
    ASSUME NEW up \in Trees, NEW tombs
    PROVE  VisibleIn(up, tombs) \in Trees
BY ConstantTypes, BaseAssumption DEF VisibleIn, Trees

(* The type of the cache of directory listings. *)
CacheType == [Paths -> SUBSET SUBSET [path : Paths, kind : {Leaf, Dir, Nothing}, ino : Nat]]

(* Forgetting listings leaves a cache. *)
LEMMA ForgetType ==
    ASSUME NEW c \in CacheType, NEW p
    PROVE  forget_cached_directory_entries(c, p) \in CacheType
BY DEF forget_cached_directory_entries, CacheType

(* Removing one staged entry leaves staged trees. *)
LEMMA RemoveStagedType ==
    ASSUME NEW st \in [Ids -> Trees], NEW i \in Ids, NEW q \in Paths
    PROVE  [st EXCEPT ![i][q] = Absent] \in [Ids -> Trees]
<1>1. [st[i] EXCEPT ![q] = Absent] \in Trees
    BY ConstantTypes DEF Trees
<1>2. QED BY <1>1

(* A materialised subtree is a tree. *)
LEMMA MaterializeType ==
    ASSUME NEW tree \in Trees, NEW p, NEW to, NEW ino \in Nat
    PROVE  materialize_visible_entry_at(tree, p, to, ino) \in Trees
<1>1. ASSUME NEW s \in Paths PROVE [tree[s] EXCEPT !.ino = ino] \in Entries
    BY RecordUpdates DEF Trees
<1>2. QED BY <1>1, ConstantTypes DEF materialize_visible_entry_at, Trees

(* Whatever an operation stages is a tree. *)
LEMMA StagedType ==
    ASSUME upper \in Trees, NEW o \in Operations
    PROVE  Staged(o) \in Trees
<1>1. View \in Trees
    BY VisibleType DEF View
<1>2. o.id \in Nat /\ o.val \in Vals /\ o.path \in Paths
    BY DEF Operations
<1>3. CASE o.kind \in CreatingKinds
    <2>1. [kind |-> IF o.kind = "mkdir" THEN Dir ELSE Leaf, val |-> o.val, ino |-> o.id] \in Entries
        BY <1>2 DEF Entries
    <2>2. QED BY <1>3, <2>1, ConstantTypes DEF Staged, Trees
<1>4. CASE o.kind \notin CreatingKinds /\ o.kind = "rename"
    BY <1>1, <1>2, <1>4, MaterializeType DEF Staged
<1>5. CASE o.kind \notin CreatingKinds /\ o.kind # "rename"
    <2> DEFINE m == materialize_visible_entry_at(View, o.path, o.path, o.id)
    <2>1. m \in Trees
        BY <1>1, <1>2, MaterializeType
    <2> DEFINE v == ValAfter(o, View[o.path].val)
    <2>2. Staged(o) = [m EXCEPT ![o.path].val = v]
        BY <1>5 DEF Staged
    <2>3. v \in Vals
        BY <1>1, <1>2 DEF ValAfter, Trees, Entries
    <2> HIDE DEF m, v
    <2>4. [m[o.path] EXCEPT !.val = v] \in Entries
        BY <1>2, <2>1, <2>3 DEF Trees, Entries
    <2>5. QED BY <1>2, <2>1, <2>2, <2>4 DEF Trees
<1>6. QED BY <1>3, <1>4, <1>5

(* What a directory sync makes durable is a tree. *)
LEMMA SyncedType ==
    ASSUME upper \in Trees, disk.upper \in Trees, NEW dir
    PROVE  Synced(dir) \in Trees
BY DEF Synced, Trees
-----------------------------------------------------------------------------
(* Type correctness. *)

(* Every step of the engine and of recovery keeps the types. *)
LEMMA TypeStep ==
    ASSUME TypeOK, OperationInv, [Next]_vars
    PROVE  TypeOK'
<1> USE ConstantTypes, BoundsAssumption DEF TypeOK, storage, metadata, history
<1>1. CASE \E dir \in Paths : ReadDir(dir)
    <2>1. PICK dir \in Paths : ReadDir(dir)
        BY <1>1
    <2>2. View \in Trees
        BY VisibleType DEF View
    <2>3. Listing(View, dir) \in SUBSET SUBSET [path : Paths, kind : {Leaf, Dir, Nothing}, ino : Nat]
        BY <2>2 DEF Listing, merge_visible_directory_entries, Children, Trees, Entries
    <2>4. QED BY <2>1, <2>3 DEF ReadDir
<1>2. ASSUME NEW r \in Requests, BeginMutation(r)
      PROVE  TypeOK'
    <2>1. r \in RequestType
        BY RequestsAssumption
    <2>2. op' \in Operations
        BY <1>2, <2>1 DEF BeginMutation, Operations, RequestType
    <2>3. QED BY <1>2, <2>2 DEF BeginMutation, Steps
<1>3. CASE create_missing_upper_parent_directories
    <2>1. CASE \E dir \in Outermost(ParentsToMake) :
                  /\ cache' = forget_cached_directory_entries(cache, dir)
                  /\ upper' = [upper EXCEPT ![dir] = [Base[dir] EXCEPT !.ino = MaxOps + nextId]]
                  /\ pc' = "syncparents"
                  /\ UNCHANGED <<stage, disk, op, faults, history>>
        <3>1. PICK dir \in Paths :
                  /\ cache' = forget_cached_directory_entries(cache, dir)
                  /\ upper' = [upper EXCEPT ![dir] = [Base[dir] EXCEPT !.ino = MaxOps + nextId]]
                  /\ pc' = "syncparents"
                  /\ UNCHANGED <<stage, disk, op, faults, history>>
            BY <2>1 DEF Outermost, ParentsToMake
        <3>2. [Base[dir] EXCEPT !.ino = MaxOps + nextId] \in Entries
            <4>1. Base[dir] \in Entries /\ MaxOps + nextId \in Nat
                BY BaseAssumption, BoundsAssumption DEF Trees
            <4>2. QED BY <4>1, RecordUpdates
        <3>3. upper' \in Trees
            BY <3>1, <3>2 DEF Trees
        <3>4. cache' \in CacheType
            BY <3>1, ForgetType DEF CacheType
        <3>5. QED BY <1>3, <3>1, <3>3, <3>4
                  DEF create_missing_upper_parent_directories, CacheType, Steps
    <2>2. CASE \/ UNCHANGED cache
               \/ \E dir \in Outermost(ParentsToMake) :
                     cache' = forget_cached_directory_entries(cache, dir)
        <3>1. cache' \in CacheType
            BY <2>2, ForgetType DEF CacheType
        <3>2. CASE UNCHANGED storage
            BY <1>3, <3>1, <3>2
               DEF create_missing_upper_parent_directories, CacheType, Reply, Fault, Steps
        <3>3. QED BY <1>3, <2>1, <3>2 DEF create_missing_upper_parent_directories
    <2>3. QED BY <1>3, <2>1, <2>2 DEF create_missing_upper_parent_directories
<1>3s. CASE sync_copied_directory
    BY <1>3s, SyncedType DEF sync_copied_directory, Steps, Fault, Reply
<1>4. CASE begin_recovery_operation
    <2>1. nextId \in Ids
        BY <1>4 DEF begin_recovery_operation, OperationInv, At, Ids
    <2>2. cache' \in CacheType
        BY <1>4, ForgetType DEF begin_recovery_operation, CacheType
    <2>3. op.kind \in Kinds
        BY <1>4 DEF begin_recovery_operation, OperationInv, At
    <2>4. (op.kind \in RemovingKinds \cup {"rename"} /\ HidesBase(op.path)) \in BOOLEAN
          /\ (op.kind = "rename") \in BOOLEAN
        BY DEF HidesBase, base_is_visible
    <2> DEFINE adds == op.kind \in RemovingKinds \cup {"rename"} /\ HidesBase(op.path)
               started == [op EXCEPT !.id = nextId, !.add = adds, !.drop = op.kind = "rename"]
               row == [id |-> nextId, kind |-> op.kind, path |-> op.path, target |-> op.target,
                       phase |-> "prepared", add |-> started.add, drop |-> started.drop]
    <2>5. started \in Operations /\ started.add = adds /\ started.drop = (op.kind = "rename")
        <3>1. op \in Operations /\ nextId \in Nat
            OBVIOUS
        <3>2. started \in Operations
            BY ONLY <3>1 DEF Operations
        <3>3. op.add \in BOOLEAN /\ DOMAIN op = {"id", "kind", "path", "target", "val", "add", "drop"}
            BY ONLY <3>1 DEF Operations
        <3>4. started.add = adds /\ started.drop = (op.kind = "rename")
            BY ONLY <3>3, Zenon
        <3>5. QED BY <3>2, <3>4
    <2>6. row \in Rows
        BY <2>1, <2>3, <2>4, <2>5 DEF Rows, Operations
    <2>7. journal' \in {journal, journal \cup {row}} /\ op' \in {started, NoOp}
        BY <1>4 DEF begin_recovery_operation, Reply
    <2> HIDE DEF row, started
    <2>8. journal' \subseteq Rows /\ op' \in Operations
        BY <2>5, <2>6, <2>7
    <2>9. nextId' \in 1..(MaxOps + 1)
        BY <1>4, <2>1 DEF begin_recovery_operation, Ids
    <2>10. pc' \in Steps \cup {"idle"} /\ faults' \in 0..MaxFaults
           /\ result' \in {"ok", "error", "late", "crashed", "torn", "running"}
           /\ clean' \in BOOLEAN /\ durable' \in BOOLEAN /\ left' \subseteq Ids
        BY <1>4 DEF begin_recovery_operation, Reply, Fault, Steps
    <2>11. QED BY <1>4, <2>2, <2>8, <2>9, <2>10 DEF begin_recovery_operation, CacheType
<1>5. CASE prepare_stage
    <2>1. Staged(op) \in Trees
        BY StagedType
    <2>2. stage' \in [Ids -> Trees]
        BY <1>5, <2>1 DEF prepare_stage
    <2>3. QED BY <1>5, <2>2 DEF prepare_stage, Steps, Fault
<1>6. CASE flush_stage
    BY <1>6 DEF flush_stage, Steps, Fault
<1>7. CASE set_recovery_operation_phase
    BY <1>7 DEF set_recovery_operation_phase, Steps, Fault, Rows
<1>8. CASE publish_staged_operation
    BY <1>8, OverlayType DEF publish_staged_operation, Steps, Fault, OperationInv, At
<1>9. CASE sync_destination
    BY <1>9, SyncedType DEF sync_destination, Steps, Fault, Reply
<1>10. CASE remove_upper_source
    BY <1>10 DEF remove_upper_source, Steps, Fault, Reply, Trees
<1>11. CASE sync_source
    BY <1>11, SyncedType DEF sync_source, Steps, Fault, Reply
<1>12. CASE finish_recovery_operation
    BY <1>12 DEF finish_recovery_operation, Fault, Reply, Tombstoned, StoreTombstoned, Operations
<1>13. CASE discard_stage
    <2>1. op.id \in Ids
        BY <1>13 DEF discard_stage, At, OperationInv, Steps
    <2>2. stage' \in [Ids -> Trees]
        <3>1. CASE UNCHANGED stage
            BY <3>1
        <3>2. CASE \E q \in Paths : stage' = [stage EXCEPT ![op.id][q] = Absent]
            <4>1. PICK q \in Paths : stage' = [stage EXCEPT ![op.id][q] = Absent]
                BY <3>2
            <4>2. QED BY <2>1, <4>1, RemoveStagedType
        <3>3. UNCHANGED stage \/ \E q \in Paths : stage' = [stage EXCEPT ![op.id][q] = Absent]
            BY <1>13 DEF discard_stage, RemovableLeaf
        <3>4. QED BY <3>1, <3>2, <3>3
    <2>3. left' \subseteq Ids
        BY <1>13, <2>1 DEF discard_stage
    <2>4. faults' \in 0..MaxFaults
        <3>1. UNCHANGED faults \/ Fault("discard")
            BY <1>13, Zenon DEF discard_stage
        <3>2. QED BY <3>1 DEF Fault
    <2>5. pc' \in Steps \cup {"idle"}
        BY <1>13 DEF discard_stage, Steps
    <2>6. QED BY <1>13, <2>2, <2>3, <2>4, <2>5 DEF discard_stage
<1>14. CASE abandon_recovery_operation
    BY <1>14 DEF abandon_recovery_operation, Fault, Reply
<1>15. CASE Crash
    BY <1>15, BoundsAssumption DEF Crash
<1>16. CASE Restart
    BY <1>16 DEF Restart
<1>17. CASE recover_next_operation
    <2>1. PICK row \in Rows :
              \/ row.path = Root /\ Refuse
              \/ /\ op' = [id |-> row.id, kind |-> row.kind, path |-> row.path,
                           target |-> row.target, val |-> Blank, add |-> row.add, drop |-> row.drop]
                 /\ pc' \in {"discard", "source", "publish"}
                 /\ UNCHANGED <<mode, storage, metadata>>
        BY <1>17 DEF recover_next_operation, FirstRows
    <2>2. CASE row.path = Root /\ Refuse
        BY <1>17, <2>2 DEF recover_next_operation, RecoverySame, Refuse
    <2>3. CASE /\ op' = [id |-> row.id, kind |-> row.kind, path |-> row.path,
                         target |-> row.target, val |-> Blank, add |-> row.add, drop |-> row.drop]
               /\ pc' \in {"discard", "source", "publish"}
               /\ UNCHANGED <<mode, storage, metadata>>
        <3>1. op' \in Operations
            BY <2>3 DEF Rows, Operations, Ids
        <3>2. QED BY <1>17, <2>3, <3>1 DEF recover_next_operation, RecoverySame, Steps
    <2>4. QED BY <2>1, <2>2, <2>3
<1>18. CASE recover_rollback
    <2>1. op.id \in Ids
        BY <1>18 DEF recover_rollback, Recovering, OperationInv, Steps
    <2>2. stage' \in [Ids -> Trees]
        <3>1. CASE UNCHANGED stage
            BY <3>1
        <3>2. CASE \E q \in Paths : stage' = [stage EXCEPT ![op.id][q] = Absent]
            <4>1. PICK q \in Paths : stage' = [stage EXCEPT ![op.id][q] = Absent]
                BY <3>2
            <4>2. QED BY <2>1, <4>1, RemoveStagedType
        <3>3. QED BY <1>18, <3>1, <3>2 DEF recover_rollback, RemovableLeaf
    <2>3. QED BY <1>18, <2>2 DEF recover_rollback, RecoverySame
<1>19. CASE publish_staged_entry
    BY <1>19, OverlayType, WithParentsType DEF publish_staged_entry, RecoverySame, Refuse, Operations, Steps, OperationInv, Recovering
<1>20. CASE recover_sync
    BY <1>20, SyncedType DEF recover_sync, RecoverySame, Steps
<1>21. CASE remove_upper_entry
    BY <1>21 DEF remove_upper_entry, RecoverySame, Refuse, Steps, Trees
<1>22. CASE recover_sync_source
    BY <1>22, SyncedType DEF recover_sync_source, RecoverySame, Steps
<1>23. CASE recover_finish
    BY <1>23 DEF recover_finish, RecoverySame, StoreTombstoned, Operations
<1>24. CASE recover_error
    BY <1>24 DEF recover_error, Fault, Refuse
<1>25. CASE open_workspace
    BY <1>25 DEF open_workspace
<1>26. CASE UNCHANGED vars
    BY <1>26 DEF vars
<1>27. QED
    BY <1>1, <1>2, <1>3, <1>3s, <1>4, <1>5, <1>6, <1>7, <1>8, <1>9, <1>10, <1>11, <1>12, <1>13,
       <1>14, <1>15, <1>16, <1>17, <1>18, <1>19, <1>20, <1>21, <1>22, <1>23, <1>24, <1>25,
       <1>26 DEF Next, Mutation, recover_interrupted_operations
-----------------------------------------------------------------------------
(* The operation under way. *)

(* The absent operation has no kind and no tombstone effects. *)
LEMMA NoOpFields ==
    /\ NoOp.kind = "none" /\ ~NoOp.add /\ ~NoOp.drop
    /\ "none" \notin Kinds
BY DEF NoOp, Kinds, StagedKinds, RemovingKinds, ReplacingKinds, CreatingKinds

(* Every step keeps the shape of the operation under way. *)
LEMMA OperationStep ==
    ASSUME TypeOK, OperationInv, [Next]_vars
    PROVE  OperationInv'
<1> USE NoOpFields, BoundsAssumption DEF OperationInv, metadata, history, Ids, RemovingKinds, Kinds, Steps
<1>1. CASE \E dir \in Paths : ReadDir(dir)
    BY <1>1 DEF ReadDir
<1>2. ASSUME NEW r \in Requests, BeginMutation(r)
      PROVE  OperationInv'
    <2>1. r \in RequestType
        BY RequestsAssumption
    <2>2. r.kind = "rename" \/ r.kind \in RemovingKinds => r.path # Root
        BY <1>2 DEF BeginMutation, Admitted, CreatingKinds
    <2>3. r.kind = "rename" => r.target # Root
        BY <1>2 DEF BeginMutation, Admitted, CreatingKinds
    <2>4. QED BY <1>2, <2>1, <2>2, <2>3 DEF BeginMutation, RequestType, At, TypeOK
<1>3. CASE create_missing_upper_parent_directories
    BY <1>3 DEF create_missing_upper_parent_directories, At, Reply
<1>3s. CASE sync_copied_directory
    BY <1>3s DEF sync_copied_directory, At, Reply
<1>4. CASE begin_recovery_operation
    <2>1. op.kind \in Kinds /\ nextId \in Ids /\ mode = "serving" /\ UNCHANGED mode
        BY <1>4 DEF begin_recovery_operation, At, TypeOK
    <2>2. CASE op' = NoOp /\ pc' = "idle"
        BY <2>1, <2>2
    <2> DEFINE adds == op.kind \in RemovingKinds \cup {"rename"} /\ HidesBase(op.path)
    <2>3. CASE /\ op' = [op EXCEPT !.id = nextId, !.add = adds, !.drop = op.kind = "rename"]
               /\ pc' \in {"phase", "prepare"}
        <3>1. DOMAIN op = {"id", "kind", "path", "target", "val", "add", "drop"}
            BY DEF TypeOK, Operations
        <3>2. /\ op'.id = nextId /\ op'.kind = op.kind
              /\ op'.path = op.path /\ op'.target = op.target
              /\ op'.add = adds /\ op'.drop = (op.kind = "rename")
            BY ONLY <2>3, <3>1, Zenon
        <3>3. op'.add => op.kind \in RemovingKinds \cup {"rename"}
            BY ONLY <3>2, Zenon
        <3>4. op'.drop => op.kind = "rename"
            BY ONLY <3>2, Zenon
        <3>5. op'.id = nextId /\ op'.kind = op.kind /\ op'.path = op.path /\ op'.target = op.target
            BY ONLY <3>2, Zenon
        <3>6. QED BY <2>1, <2>3, <3>3, <3>4, <3>5
    <2>4. QED BY <1>4, <2>2, <2>3 DEF begin_recovery_operation, Reply
<1>5. CASE prepare_stage
    BY <1>5 DEF prepare_stage, At, Reply
<1>6. CASE flush_stage
    BY <1>6 DEF flush_stage, At, Reply
<1>7. CASE set_recovery_operation_phase
    BY <1>7 DEF set_recovery_operation_phase, At, Reply
<1>8. CASE publish_staged_operation
    BY <1>8 DEF publish_staged_operation, At, Reply
<1>9. CASE sync_destination
    BY <1>9 DEF sync_destination, At, Reply
<1>10. CASE remove_upper_source
    BY <1>10 DEF remove_upper_source, At, Reply
<1>11. CASE sync_source
    BY <1>11 DEF sync_source, At, Reply
<1>12. CASE finish_recovery_operation
    BY <1>12 DEF finish_recovery_operation, At, Reply
<1>13. CASE discard_stage
    BY <1>13 DEF discard_stage, At, Reply
<1>14. CASE abandon_recovery_operation
    BY <1>14 DEF abandon_recovery_operation, At, Reply
<1>15. CASE Crash
    BY <1>15 DEF Crash
<1>16. CASE Restart
    BY <1>16 DEF Restart
<1>17. CASE recover_next_operation
    BY <1>17 DEF recover_next_operation, Recovering, TypeOK, Rows, FirstRows, Refuse
<1>18. CASE recover_rollback
    BY <1>18 DEF recover_rollback, Recovering
<1>19. CASE publish_staged_entry
    BY <1>19 DEF publish_staged_entry, Recovering, Refuse
<1>20. CASE recover_sync
    BY <1>20 DEF recover_sync, Recovering
<1>21. CASE remove_upper_entry
    BY <1>21 DEF remove_upper_entry, Recovering, Refuse
<1>22. CASE recover_sync_source
    BY <1>22 DEF recover_sync_source, Recovering
<1>23. CASE recover_finish
    BY <1>23 DEF recover_finish, Recovering
<1>24. CASE recover_error
    BY <1>24 DEF recover_error, Refuse
<1>25. CASE open_workspace
    BY <1>25 DEF open_workspace, Recovering
<1>26. CASE UNCHANGED vars
    BY <1>26 DEF vars
<1>27. QED
    BY <1>1, <1>2, <1>3, <1>3s, <1>4, <1>5, <1>6, <1>7, <1>8, <1>9, <1>10, <1>11, <1>12, <1>13,
       <1>14, <1>15, <1>16, <1>17, <1>18, <1>19, <1>20, <1>21, <1>22, <1>23, <1>24, <1>25, <1>26
       DEF Next, Mutation, recover_interrupted_operations
-----------------------------------------------------------------------------
(* The cache of directory listings. *)

(* A change beneath p keeps the cache current if the listings p affects are *)
(* not cached any more.                                                     *)
LEMMA StaysCurrent ==
    ASSUME NEW one, NEW two, NEW c1, NEW c2, NEW p \in Paths,
           \A q \in Paths : one[q] # two[q] => q = p \/ (p # Root /\ Under(p, q)),
           Current(one, c1),
           \A d \in Paths : c2[d] # {} => c2[d] = c1[d] /\ ~Affected(p, d)
    PROVE  Current(two, c2)
<1>1. SUFFICES ASSUME NEW d \in Paths, c2[d] # {}
               PROVE  IsDir(two, d) /\ c2[d] = Listing(two, d)
    BY DEF Current
<1>2. c2[d] = c1[d] /\ ~Affected(p, d)
    BY <1>1
<1>3. IsDir(one, d) /\ c1[d] = Listing(one, d)
    BY <1>1, <1>2 DEF Current
<1>4. (IsDir(one, d) <=> IsDir(two, d)) /\ Listing(one, d) = Listing(two, d)
    BY <1>2, ListingUnchanged
<1>5. QED BY <1>2, <1>3, <1>4

(* An upper tree changed only beneath p changes the view only beneath p. *)
LEMMA UpperChange ==
    ASSUME NEW up, NEW up2, NEW tombs, NEW q \in Paths, up[q] = up2[q]
    PROVE  VisibleIn(up, tombs)[q] = VisibleIn(up2, tombs)[q]
BY DEF VisibleIn, Exists

(* A tombstone added on p changes the view only beneath p. *)
LEMMA AddedTombstone ==
    ASSUME NEW up, NEW tombs, NEW p \in Paths, NEW q \in Paths, ~Under(p, q)
    PROVE  VisibleIn(up, tombs)[q] = VisibleIn(up, tombs \cup {p})[q]
<1>1. base_is_visible(tombs, q) <=> base_is_visible(tombs \cup {p}, q)
    BY DEF base_is_visible
<1>2. QED BY <1>1 DEF VisibleIn

(* Tombstones dropped beneath p change the view only beneath p. *)
LEMMA DroppedTombstones ==
    ASSUME NEW up, NEW tombs \in SUBSET Paths, NEW p \in Paths, NEW q \in Paths, ~Under(p, q)
    PROVE  VisibleIn(up, tombs)[q] = VisibleIn(up, {t \in tombs : ~Under(p, t)})[q]
<1>1. \A t \in tombs : Under(t, q) => ~Under(p, t)
    BY UnderTransitive
<1>2. base_is_visible(tombs, q) <=> base_is_visible({t \in tombs : ~Under(p, t)}, q)
    BY <1>1 DEF base_is_visible
<1>3. QED BY <1>2 DEF VisibleIn

(* Every step keeps the cached listings current. *)
LEMMA CacheStep ==
    ASSUME TypeOK, OperationInv, CacheInv, [Next]_vars
    PROVE  CacheInv'
<1> USE DEF CacheInv, storage, metadata, history
<1>0. op.path \in Paths /\ op.target \in Paths /\ Destination(op) \in Paths
      /\ op.kind \in Kinds \cup {"none"}
    BY DEF TypeOK, Operations, Destination
<1>1. ASSUME NEW dir \in Paths, ReadDir(dir)
      PROVE  CacheInv'
    <2>1. View' = View
        BY <1>1 DEF ReadDir, View
    <2>2. Current(View, cache')
        BY <1>1 DEF ReadDir, Current, At, TypeOK
    <2>3. QED BY <1>1, <2>1, <2>2 DEF ReadDir, At, Journalled, Steps
(* Steps of a mutation that change neither the view nor the cache. *)
<1>2. ASSUME UNCHANGED <<upper, tombMem, cache, mode>>,
             Journalled' => Journalled /\ UNCHANGED op
      PROVE  CacheInv'
    <2>1. View' = View
        BY <1>2 DEF View
    <2>2. QED BY <1>2, <2>1 DEF Forgotten
<1>3. CASE \E r \in Requests : BeginMutation(r)
    BY <1>2, <1>3 DEF BeginMutation, Journalled
<1>4. CASE prepare_stage \/ flush_stage \/ set_recovery_operation_phase \/ discard_stage
    <2>1. UNCHANGED <<upper, tombMem, cache, mode, op>> /\ Journalled
        BY <1>4 DEF prepare_stage, flush_stage, set_recovery_operation_phase, discard_stage, At,
                    Journalled, Steps
    <2>2. QED BY <1>2, <2>1
<1>5. CASE sync_destination \/ sync_source \/ abandon_recovery_operation
    <2>1. UNCHANGED <<upper, tombMem, cache, mode>> /\ Journalled
          /\ (pc' = "idle" \/ UNCHANGED op)
        BY <1>5 DEF sync_destination, sync_source, abandon_recovery_operation, At, Journalled,
                    Steps, Reply
    <2>2. QED BY <1>2, <2>1 DEF Journalled, Steps
<1>6. CASE create_missing_upper_parent_directories
    <2>1. mode = "serving" /\ pc = "parents" /\ UNCHANGED <<mode, tombMem>>
        BY <1>6 DEF create_missing_upper_parent_directories, At
    <2>2. pc' \in {"journal", "syncparents", "idle"}
        BY <1>6, <2>1 DEF create_missing_upper_parent_directories, Reply
    <2>3. CASE UNCHANGED <<upper, cache>>
        BY <1>2, <2>1, <2>2, <2>3 DEF Journalled, Steps
    <2>4. ASSUME NEW dir \in Paths,
                 cache' = forget_cached_directory_entries(cache, dir),
                 upper' \in {upper, [upper EXCEPT ![dir] = [Base[dir] EXCEPT !.ino = MaxOps + nextId]]}
          PROVE  CacheInv'
        <3>1. \A q \in Paths : View[q] # View'[q] => q = dir \/ (dir # Root /\ Under(dir, q))
            <4>1. SUFFICES ASSUME NEW q \in Paths, q # dir PROVE View[q] = View'[q]
                OBVIOUS
            <4>2. upper[q] = upper'[q]
                BY <2>4, <4>1 DEF TypeOK, Trees
            <4>3. QED BY <2>1, <4>2, UpperChange DEF View
        <3>2. \A d \in Paths : cache'[d] # {} => cache'[d] = cache[d] /\ ~Affected(dir, d)
            BY <2>4 DEF forget_cached_directory_entries, Affected
        <3>3. Current(View, cache)
            BY <2>1
        <3>4. Current(View', cache')
            BY <3>1, <3>2, <3>3, StaysCurrent
        <3>5. QED BY <2>1, <2>2, <3>4 DEF Journalled, Current, Steps
    <2>5. QED BY <1>6, <2>3, <2>4
              DEF create_missing_upper_parent_directories, Outermost, ParentsToMake
<1>6s. CASE sync_copied_directory
    BY <1>2, <1>6s DEF sync_copied_directory, Reply, Journalled, Steps
<1>7. CASE begin_recovery_operation
    <2>1. mode = "serving" /\ UNCHANGED <<mode, upper, tombMem>>
        BY <1>7 DEF begin_recovery_operation, At
    <2>2. View' = View
        BY <2>1 DEF View
    <2>3. /\ op.kind # "rename" => cache' = forget_cached_directory_entries(cache, op.path)
          /\ op.kind = "rename" =>
                cache' = forget_cached_directory_entries(
                            forget_cached_directory_entries(cache, op.path), op.target)
        BY <1>7 DEF begin_recovery_operation
    <2>4. \A d \in Paths : cache'[d] # {} => cache'[d] = cache[d]
        BY <2>3 DEF forget_cached_directory_entries
    <2>5. \A d \in Paths :
             Affected(op.path, d) \/ (op.kind = "rename" /\ Affected(op.target, d)) => cache'[d] = {}
        BY <2>3 DEF forget_cached_directory_entries, Affected
    <2>6. Current(View, cache')
        BY <2>1, <2>4 DEF Current
    <2>7. \/ op' = NoOp /\ pc' = "idle"
          \/ op'.path = op.path /\ op'.target = op.target /\ op'.kind = op.kind
        <3> DEFINE adds == op.kind \in RemovingKinds \cup {"rename"} /\ HidesBase(op.path)
        <3>1. DOMAIN op = {"id", "kind", "path", "target", "val", "add", "drop"}
            BY DEF TypeOK, Operations
        <3>2. CASE op' = [op EXCEPT !.id = nextId, !.add = adds, !.drop = op.kind = "rename"]
            BY ONLY <3>1, <3>2, Zenon
        <3>3. \/ op' = [op EXCEPT !.id = nextId, !.add = adds, !.drop = op.kind = "rename"]
              \/ op' = NoOp /\ pc' = "idle"
            BY <1>7, Zenon DEF begin_recovery_operation, Reply
        <3> HIDE DEF adds
        <3>4. CASE op' = NoOp /\ pc' = "idle"
            BY <3>4
        <3>5. QED BY <3>2, <3>3, <3>4
    <2>8. QED BY <2>1, <2>2, <2>5, <2>6, <2>7 DEF Journalled, Forgotten, Steps
<1>8. CASE publish_staged_operation
    <2>1. Journalled /\ mode = "serving" /\ UNCHANGED <<mode, tombMem, cache, op>>
        BY <1>8 DEF publish_staged_operation, At, Journalled, Steps
    <2>2. CASE UNCHANGED upper
        BY <1>2, <2>1, <2>2
    <2>3. CASE /\ CanRename(upper, stage[op.id], Destination(op))
               /\ upper' = Overlay(upper, stage[op.id], Destination(op))
        <3>1. Destination(op) # Root
            BY <2>3 DEF CanRename
        <3>2. \A q \in Paths : View[q] # View'[q] =>
                 q = Destination(op) \/ (Destination(op) # Root /\ Under(Destination(op), q))
            <4>1. SUFFICES ASSUME NEW q \in Paths, ~Under(Destination(op), q)
                           PROVE  View[q] = View'[q]
                BY <3>1
            <4>2. upper[q] = upper'[q]
                BY <2>3, <4>1 DEF Overlay
            <4>3. QED BY <2>1, <4>2, UpperChange DEF View
        <3>3. \A d \in Paths : cache'[d] # {} =>
                 cache'[d] = cache[d] /\ ~Affected(Destination(op), d)
            BY <2>1 DEF Forgotten, Destination
        <3>4. Current(View', cache')
            BY <1>0, <2>1, <3>2, <3>3, StaysCurrent
        <3>5. QED BY <2>1, <3>4 DEF Current, Forgotten, Journalled
    <2>4. QED BY <1>8, <2>2, <2>3 DEF publish_staged_operation
<1>9. CASE remove_upper_source
    <2>1. Journalled /\ mode = "serving" /\ UNCHANGED <<mode, tombMem, cache>>
          /\ (pc' = "idle" \/ UNCHANGED op)
        BY <1>9 DEF remove_upper_source, At, Journalled, Steps, Reply
    <2>2. CASE UNCHANGED upper
        BY <1>2, <2>1, <2>2 DEF Journalled, Steps
    <2>3. ASSUME NEW leaf \in RemovableLeaf(upper, op.path),
                 upper' = [upper EXCEPT ![leaf] = Absent]
          PROVE  CacheInv'
        <3>1. op.path # Root
            BY <1>9 DEF remove_upper_source, At, OperationInv
        <3>2. \A q \in Paths : View[q] # View'[q] =>
                 q = op.path \/ (op.path # Root /\ Under(op.path, q))
            <4>1. SUFFICES ASSUME NEW q \in Paths, ~Under(op.path, q)
                           PROVE  View[q] = View'[q]
                BY <3>1
            <4>2. upper[q] = upper'[q]
                BY <2>3, <4>1 DEF RemovableLeaf, TypeOK, Trees
            <4>3. QED BY <2>1, <4>2, UpperChange DEF View
        <3>3. \A d \in Paths : cache'[d] # {} => cache'[d] = cache[d] /\ ~Affected(op.path, d)
            BY <2>1 DEF Forgotten
        <3>4. Current(View', cache')
            BY <1>0, <2>1, <3>2, <3>3, StaysCurrent
        <3>5. QED BY <2>1, <3>4 DEF Current, Forgotten, Journalled, Steps
    <2>4. QED BY <1>9, <2>2, <2>3 DEF remove_upper_source
<1>10. CASE finish_recovery_operation
    <2>1. Journalled /\ mode = "serving" /\ UNCHANGED <<mode, upper, cache>> /\ pc' = "idle"
        BY <1>10 DEF finish_recovery_operation, At, Journalled, Steps, Reply
    <2>2. CASE UNCHANGED tombMem
        BY <1>2, <2>1, <2>2 DEF Journalled, Steps
    <2>3. CASE tombMem' = Tombstoned(tombMem, op)
        <3> DEFINE added == IF op.add THEN tombMem \cup {op.path} ELSE tombMem
        <3>1. added \in SUBSET Paths
            BY <1>0 DEF TypeOK
        <3>2. Current(VisibleIn(upper, added), cache)
            <4>1. CASE op.add
                <5>1. op.path # Root
                    BY <2>1, <4>1 DEF OperationInv
                <5>2. \A q \in Paths : View[q] # VisibleIn(upper, added)[q] =>
                         q = op.path \/ (op.path # Root /\ Under(op.path, q))
                    BY <1>0, <4>1, <5>1, AddedTombstone DEF View
                <5>3. \A d \in Paths : cache[d] # {} => cache[d] = cache[d] /\ ~Affected(op.path, d)
                    BY <2>1 DEF Forgotten
                <5> HIDE DEF added
                <5>4. QED BY <1>0, <2>1, <5>2, <5>3, StaysCurrent
            <4>2. CASE ~op.add
                BY <2>1, <4>2 DEF View
            <4>3. QED BY <4>1, <4>2
        <3>3. View' = VisibleIn(upper, IF op.drop THEN {t \in added : ~Under(op.target, t)} ELSE added)
            BY <2>1, <2>3 DEF View, Tombstoned
        <3> HIDE DEF added
        <3>4. Current(View', cache)
            <4>1. CASE op.drop
                <5>1. op.kind = "rename" /\ op.target # Root
                    BY <2>1, <4>1 DEF OperationInv
                <5>2. \A q \in Paths : VisibleIn(upper, added)[q] # View'[q] =>
                         q = op.target \/ (op.target # Root /\ Under(op.target, q))
                    BY <1>0, <3>1, <3>3, <4>1, <5>1, DroppedTombstones
                <5>3. \A d \in Paths : cache[d] # {} => cache[d] = cache[d] /\ ~Affected(op.target, d)
                    BY <2>1, <5>1 DEF Forgotten
                <5>4. QED BY <1>0, <3>2, <5>2, <5>3, StaysCurrent
            <4>2. CASE ~op.drop
                BY <3>2, <3>3, <4>2
            <4>3. QED BY <4>1, <4>2
        <3>5. QED BY <2>1, <3>4 DEF Journalled, Steps, Current
    <2>4. QED BY <1>10, <2>2, <2>3 DEF finish_recovery_operation
<1>11. CASE Crash
    BY <1>11 DEF Crash, Journalled
<1>12. CASE Restart \/ recover_error
    BY <1>12 DEF Restart, recover_error, Refuse, Journalled
(* Recovery leaves the empty cache alone until the Workspace is served. *)
<1>13. ASSUME mode = "recovering", UNCHANGED cache, mode' # "serving"
       PROVE  CacheInv'
    BY <1>13 DEF Journalled
<1>14. CASE \/ recover_next_operation \/ recover_rollback \/ publish_staged_entry \/ recover_sync
            \/ remove_upper_entry \/ recover_sync_source \/ recover_finish
    BY <1>13, <1>14 DEF recover_next_operation, recover_rollback, publish_staged_entry, recover_sync,
        remove_upper_entry, recover_sync_source, recover_finish, Recovering, RecoverySame, Refuse
<1>15. CASE open_workspace
    BY <1>15 DEF open_workspace, Recovering, Current, Journalled, Steps
<1>16. CASE UNCHANGED vars
    BY <1>2, <1>16 DEF vars, Journalled
<1>17. QED
    BY <1>1, <1>3, <1>4, <1>5, <1>6, <1>6s, <1>7, <1>8, <1>9, <1>10, <1>11, <1>12, <1>14, <1>15,
       <1>16
       DEF Next, Mutation, recover_interrupted_operations

-----------------------------------------------------------------------------
(* A fresh Workspace satisfies the inductive invariant. *)
LEMMA InitInv == Init => IInv
<1> SUFFICES ASSUME Init PROVE IInv
    OBVIOUS
<1> USE ConstantTypes, BoundsAssumption, BaseAssumption DEF Init
<1>1. [EmptyTree EXCEPT ![Root] = Base[Root]] \in Trees
    BY DEF Trees
<1>2. TypeOK
    BY <1>1 DEF TypeOK, Steps
<1>3. OperationInv
    BY NoOpFields DEF OperationInv, Steps, RemovingKinds
<1>4. CacheInv
    BY DEF CacheInv, Current, Journalled, Steps
<1>5. QED BY <1>2, <1>3, <1>4 DEF IInv

(* The inductive invariant holds in every reachable state. *)
THEOREM Invariance == Spec => []IInv
<1>1. IInv /\ [Next]_vars => IInv'
    BY TypeStep, OperationStep, CacheStep DEF IInv
<1>2. QED BY InitInv, <1>1, PTL DEF Spec

(* Every variable keeps its type, for every universe of paths and every     *)
(* pattern of errors and crashes.                                           *)
THEOREM TypeCorrect == Spec => []TypeOK
<1>1. IInv => TypeOK
    BY DEF IInv
<1>2. QED BY Invariance, <1>1, PTL

(* A listing served from the cache is always the listing a fresh merge of   *)
(* the upper tree, the tombstones and the Base state gives.                 *)
THEOREM CacheCoherence == Spec => []CachedListingsCurrent
<1>1. IInv => CachedListingsCurrent
    BY DEF IInv, CacheInv, CachedListingsCurrent, Quiet, Current
<1>2. QED BY Invariance, <1>1, PTL

(* No two names of the universe differ in case only. *)
CaseDistinct == \A m, n \in Names : FoldCase[m] = FoldCase[n] => m = n

(* LIKE and the comparison of prefixes then pick the same tombstones. *)
LEMMA SameEffect ==
    ASSUME CaseDistinct, NEW tombs \in SUBSET Paths, NEW o \in Operations
    PROVE  StoreTombstoned(tombs, o) = Tombstoned(tombs, o)
<1>1. o.path \in Paths /\ o.target \in Paths
    BY DEF Operations
<1>2. ASSUME NEW t \in Paths
      PROVE  (t = o.target \/ LikeBeneath(o.target, t)) <=> Under(o.target, t)
    <2>1. t \in Seq(Names) /\ o.target \in Seq(Names) /\ Len(t) \in Nat /\ Len(o.target) \in Nat
        BY <1>1, PathsAssumption
    <2>2. \A i \in 1..Len(t) : t[i] \in Names
        BY <2>1
    <2>3. \A i \in 1..Len(o.target) : o.target[i] \in Names
        BY <2>1
    <2>4. CASE Len(o.target) < Len(t)
        <3>1. t # o.target
            BY <2>1, <2>4
        <3>2. \A i \in 1..Len(o.target) : t[i] \in Names
            BY <2>1, <2>2, <2>4
        <3>3. \A i \in 1..Len(o.target) : FoldCase[o.target[i]] = FoldCase[t[i]] <=> o.target[i] = t[i]
            BY <2>3, <3>2 DEF CaseDistinct
        <3>4. QED BY <2>1, <2>4, <3>1, <3>3 DEF LikeBeneath, Under
    <2>5. CASE ~(Len(o.target) < Len(t))
        <3>1. ~LikeBeneath(o.target, t)
            BY <2>5 DEF LikeBeneath
        <3>2. ASSUME Under(o.target, t) PROVE t = o.target
            <4>1. Len(o.target) = Len(t) /\ \A i \in 1..Len(t) : o.target[i] = t[i]
                BY <2>1, <2>5, <3>2 DEF Under
            <4>2. QED BY <2>1, <4>1
        <3>3. t = o.target => Under(o.target, t)
            BY <2>1 DEF Under
        <3>4. QED BY <3>1, <3>2, <3>3
    <2>6. QED BY <2>4, <2>5
<1>3. (IF o.add THEN tombs \cup {o.path} ELSE tombs) \subseteq Paths
    BY <1>1
<1>4. QED BY <1>2, <1>3 DEF StoreTombstoned, Tombstoned

(* The tombstones in memory are those a restart would load, as long as no   *)
(* two names differ in case only (with two such names they are not: see the *)
(* run engine_case).                                                        *)
THEOREM TombstoneAgreement ==
    ASSUME CaseDistinct PROVE Spec => []TombstonesAgree
<1>1. Init => TombstonesAgree
    BY DEF Init, TombstonesAgree
<1>2. IInv /\ TombstonesAgree /\ [Next]_vars => TombstonesAgree'
    <2> SUFFICES ASSUME IInv, TombstonesAgree, [Next]_vars PROVE TombstonesAgree'
        OBVIOUS
    <2> USE DEF TombstonesAgree, metadata
    <2>1. CASE \/ \E dir \in Paths : ReadDir(dir)
               \/ \E r \in Requests : BeginMutation(r)
               \/ UNCHANGED vars
        BY <2>1 DEF ReadDir, BeginMutation, vars
    <2>2. CASE Mutation /\ ~finish_recovery_operation
        BY <2>2 DEF Mutation, create_missing_upper_parent_directories, sync_copied_directory,
           begin_recovery_operation,
           prepare_stage, flush_stage, set_recovery_operation_phase, publish_staged_operation,
           sync_destination, remove_upper_source, sync_source, discard_stage,
           abandon_recovery_operation
    <2>3. CASE finish_recovery_operation
        <3>1. tombDB \in SUBSET Paths /\ op \in Operations
            BY DEF IInv, TypeOK
        <3>2. StoreTombstoned(tombDB, op) = Tombstoned(tombDB, op)
            BY <3>1, SameEffect
        <3>3. QED BY <2>3, <3>2 DEF finish_recovery_operation, At
    <2>4. CASE Crash \/ Restart \/ recover_error
        BY <2>4 DEF Crash, Restart, recover_error, Refuse
    <2>5. CASE recover_interrupted_operations
        BY <2>5 DEF recover_interrupted_operations, recover_next_operation, recover_rollback,
           publish_staged_entry, recover_sync, remove_upper_entry, recover_sync_source,
           recover_finish, open_workspace, Recovering, Refuse
    <2>6. QED BY <2>1, <2>2, <2>3, <2>4, <2>5 DEF Next
<1>3. QED BY <1>1, <1>2, Invariance, PTL DEF Spec
=============================================================================
