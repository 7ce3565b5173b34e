------------------------- MODULE MountedViewProofs -------------------------
(***************************************************************************)
(* Machine-checked proofs about MountedView, for every set of names, every  *)
(* Base state, every set of control requests and every bound on versions,   *)
(* handles, open files, engines, requests and faults.                       *)
(*                                                                         *)
(* None of the properties is inductive.  NoLostWrite needs that a file is   *)
(* under one name only and that a number not given out has no writes        *)
(* (FileInv).  HandlesOwned and ReadsOwnLastWrite need that two open files  *)
(* of one engine, and the control thread's own write, have different handle *)
(* numbers (OwnerInv).  EntriesCurrent and AttrsCurrent speak of the states *)
(* between two control requests; EntryInv and AttrInv say what holds in the *)
(* middle of one: a stale entry is about to be dropped (Dropping), stale    *)
(* attributes are about to be forgotten (Refreshing), and the reply of a    *)
(* look-up under way brings nothing staler than that.                       *)
(***************************************************************************)
EXTENDS MountedView, FiniteSetTheorems, FunctionTheorems, TLAPS

(* The types of the records that TypeOK names only some fields of. *)
Handles == [num : Nat, path : Paths, writable : BOOLEAN, back : Files \cup {Nil}]
OpenFiles == [num : Nat, born : Nat, node : Names, obj : Inodes, last : Nat]
LookUps == [path : Paths \cup {None}, ino : 0 .. MaxInodes, dir : BOOLEAN]
ControlSteps == {"idle", "mutate", "write", "trim", "report", "drop", "report2", "drop2"}
NameVerbs == {"fs.rm", "fs.mv"}
FileVerbs == {"fs.rm", "fs.mv", "fs.write", "fs.truncate"}
Controls == [pc : ControlSteps, verb : FileVerbs \cup {"ws.remove", "none"},
             path : Paths \cup {None}, dest : Paths \cup {None},
             before : 0 .. MaxInodes, before2 : 0 .. MaxInodes, num : Nat]

FileTypes ==
    /\ file \in [Names -> Files \cup {Nil}] /\ top \in 0 .. MaxInodes
    /\ acked \in [Inodes -> SUBSET Inodes]
HandleTypes ==
    /\ handles \subseteq Handles /\ nextHandle \in Nat
    /\ \A h \in handles : h.num < nextHandle /\ Handle(h.num) = {h}
OpenTypes ==
    opens \subseteq OpenFiles /\ \A o \in opens : o.last =< top /\ o.obj =< top
KernelTypes ==
    /\ cache \in [Paths -> {NoEntry, NoAttr} \cup Inodes]
    /\ lookup \in LookUps /\ creating \in Paths \cup {None}
ControlTypes ==
    /\ ctl \in Controls /\ requests \in Nat /\ faults \in Nat
    /\ engine \in 0 .. born /\ born \in 1 .. MaxEngines
TypeInv == FileTypes /\ HandleTypes /\ OpenTypes /\ KernelTypes /\ ControlTypes

(* The request under way has the operands its step uses; without a         *)
(* Workspace there are no files and no handles.                              *)
ControlInv ==
    /\ lookup.path = None => lookup = NoLookup
    /\ ctl.pc = "idle" => ctl = Idle
    /\ ctl.pc # "idle" => ctl.verb # "none"
    /\ ctl.verb = "ws.remove" => ctl.pc = "drop"
    /\ ctl.verb \in FileVerbs => ctl.path \in Paths /\ ctl.dest \in Paths /\ engine # 0
    /\ ctl.pc \in {"write", "trim"} => ctl.verb = "fs.write"
    /\ ctl.pc \in {"drop"} => ctl.verb \in NameVerbs \cup {"ws.remove"}
    /\ ctl.pc \in {"report2", "drop2"} => ctl.verb = "fs.mv"
    /\ engine = 0 => handles = {} /\ \A p \in Names : file[p] = Nil

(* Two open files of one engine have different handle numbers, and neither   *)
(* has the number of the control thread's handle.                            *)
OwnerInv ==
    /\ \A o \in opens : o.born \in 1 .. born /\ (o.born = engine => o.num < nextHandle)
    /\ \A o, q \in opens : o.num = q.num /\ o.born = q.born => o = q
    /\ ctl.pc = "write" =>
          /\ ctl.num < nextHandle
          /\ \A o \in opens : o.born = engine => o.num # ctl.num
          /\ \A h \in Handle(ctl.num) : h.path = ctl.path
    /\ HandlesOwned

(* A file is under one name, and numbers that were not given out are unused. *)
FileInv ==
    /\ \A p \in Names : file[p] # Nil => file[p].ino =< top /\ file[p].obj =< top
    /\ \A p, q \in Names : file[p] # Nil /\ file[q] # Nil /\ file[p].obj = file[q].obj => p = q
    /\ \A i \in Inodes : i > top => acked[i] = {}
    /\ Cardinality(BasePaths) =< top
    /\ NoLostWrite

(* The request under way is going to drop the entry of p. *)
Dropping(p) ==
    \/ ctl.verb = "ws.remove"
    \/ /\ ctl.verb \in NameVerbs /\ p = ctl.path
       /\ \/ ctl.pc = "drop"
          \/ ctl.pc = "report" /\ ctl.before # 0 /\ (ctl.verb = "fs.mv" => ctl.path # ctl.dest)

(* A name the kernel has an entry of, or is getting one of, exists unless    *)
(* the entry is about to be dropped.                                         *)
EntryInv ==
    \A p \in Paths \ blind :
        cache[p] # NoEntry \/ (lookup.dir /\ lookup.path = p) =>
            (engine # 0 /\ Exists(p)) \/ Dropping(p)

(* The request under way is going to forget the attributes of p. *)
Refreshing(p) ==
    \/ ctl.verb = "ws.remove"
    \/ p = ctl.path /\ ctl.pc \in {"write", "trim", "report"}
    \/ p = ctl.dest /\ ctl.verb = "fs.mv" /\ ctl.pc \in {"report", "drop", "report2"}

(* Cached attributes, and those of a reply that will be kept, are current    *)
(* unless they are about to be forgotten.                                    *)
AttrInv ==
    \A p \in Paths \ (unseen \cup blind) : ~Refreshing(p) =>
        /\ cache[p] \in {NoEntry, NoAttr, find_path_inode(p)}
        /\ lookup.path = p /\ lookup.ino # NoAttr /\ (lookup.dir \/ cache[p] # NoEntry) =>
              lookup.ino = find_path_inode(p)

IInv == TypeInv /\ ControlInv /\ OwnerInv /\ ReadsOwnLastWrite /\ FileInv /\ EntryInv /\ AttrInv
-----------------------------------------------------------------------------
(* The building blocks of the actions. *)

(* A version with the given contents has appeared under p. *)
NewVersion(p, obj, text) ==
    /\ file' \in [Names -> Files \cup {Nil}]
    /\ top' = top + 1 /\ top' \in Inodes /\ top' \in 0 .. MaxInodes /\ top \in Nat
    /\ file'[p] \in Files /\ file'[p] # Nil
    /\ file'[p].ino = top' /\ file'[p].obj = obj /\ file'[p].text = text
    /\ \A q \in Names : q # p => file'[q] = file[q]

(* The file "from" has moved to "to", as a new version. *)
Relocated(from, to) ==
    /\ file' \in [Names -> Files \cup {Nil}]
    /\ top' = top + 1 /\ top' \in Inodes /\ top' \in 0 .. MaxInodes /\ top \in Nat
    /\ file'[from] = Nil
    /\ file'[to] \in Files /\ file'[to] # Nil /\ file'[to].ino = top'
    /\ file'[to].obj = file[from].obj /\ file'[to].text = file[from].text
    /\ \A q \in Names : q # from /\ q # to => file'[q] = file[q]

(* What a removal of p that failed late has left under it. *)
LeftUnder(p) ==
    \/ file'[p] \in {Nil, file[p]}
    \/ /\ file'[p] \in Files /\ file'[p] # Nil /\ file'[p].ino =< top
       /\ file'[p].obj = top' /\ file'[p].text = {}

(* A removal of p has failed late. *)
HalfGone(p) ==
    /\ file' \in [Names -> Files \cup {Nil}]
    /\ top' = top + 1 /\ top' \in Inodes /\ top' \in 0 .. MaxInodes /\ top \in Nat
    /\ LeftUnder(p)
    /\ \A q \in Names : q # p => file'[q] = file[q]

(* A rename has failed late, with a copy published under "to". *)
HalfMoved(from, to) ==
    /\ file' \in [Names -> Files \cup {Nil}]
    /\ top' = top + 2 /\ top' \in Inodes /\ top' \in 0 .. MaxInodes /\ top \in Nat
    /\ top + 1 \in Inodes /\ file[from].obj \in Inodes
    /\ LeftUnder(from)
    /\ file'[to] \in Files /\ file'[to] # Nil
    /\ file'[to].ino = top + 1 /\ file'[to].obj = top + 1 /\ file'[to].text = file[from].text
    /\ \A q \in Names : q # from /\ q # to => file'[q] = file[q]
    /\ acked' = [acked EXCEPT ![top + 1] = acked[file[from].obj]]

(* The file p has been cut to "text". *)
Shortened(p, text) ==
    /\ NewVersion(p, file[p].obj, text)
    /\ file[p].obj \in Inodes /\ text \in SUBSET Inodes
    /\ acked' = [acked EXCEPT ![file[p].obj] = text]

(* Handle h has been added. *)
HandleAdded(h) ==
    /\ h \in Handles /\ handles' = handles \cup {h} /\ h \notin handles
    /\ h.num = nextHandle /\ nextHandle' = nextHandle + 1 /\ nextHandle' \in Nat
    /\ handles' \subseteq Handles
    /\ \A g \in handles' : g.num < nextHandle' /\ {k \in handles' : k.num = g.num} = {g}

(* The open file o has been added, for the handle about to be numbered. *)
FileOpened(o, p, obj) ==
    /\ o \in OpenFiles /\ opens' = opens \cup {o}
    /\ o.num = nextHandle /\ o.born = engine /\ o.node = p /\ o.obj = obj /\ o.last = 0

AttrsForgotten(p) ==
    /\ cache' \in [Paths -> {NoEntry, NoAttr} \cup Inodes]
    /\ \A q \in Paths : q # p => cache'[q] = cache[q]
    /\ \A q \in Paths : cache'[q] = NoEntry <=> cache[q] = NoEntry
    /\ p \in Paths => cache'[p] \in {NoEntry, NoAttr}

ReplyVoided(p) ==
    /\ lookup' \in LookUps
    /\ lookup'.path = lookup.path /\ lookup'.dir = lookup.dir
    /\ lookup.path = p => lookup'.ino = NoAttr
    /\ lookup.path # p => lookup' = lookup

NodesMoved(from, to) ==
    /\ opens' \subseteq OpenFiles
    /\ \A o \in opens' : \E q \in opens :
         /\ o.num = q.num /\ o.born = q.born /\ o.obj = q.obj /\ o.last = q.last
         /\ o.node = (IF q.node = from THEN to ELSE q.node)
    /\ \A q \in opens : \E o \in opens' :
         /\ o.num = q.num /\ o.born = q.born /\ o.obj = q.obj /\ o.last = q.last
         /\ o.node = (IF q.node = from THEN to ELSE q.node)
    /\ \A o, r \in opens' : o.num = r.num /\ o.born = r.born =>
         o = r \/ \E p, q \in opens : p # q /\ p.num = q.num /\ p.born = q.born

NextStep(pc) ==
    /\ ctl' \in Controls /\ ctl'.pc = pc
    /\ ctl'.verb = ctl.verb /\ ctl'.path = ctl.path /\ ctl'.dest = ctl.dest
    /\ ctl'.before2 = ctl.before2 /\ ctl'.num = ctl.num

(* The name p is gone. *)
Gone(p) ==
    /\ file' \in [Names -> Files \cup {Nil}] /\ top' = top
    /\ file'[p] = Nil /\ \A q \in Names : q # p => file'[q] = file[q]

(* A tool has written through its open file o, whose handle h has become g;  *)
(* the call may have failed late, with the version the handle had or none.   *)
ToolWrote(o, h, g) ==
    /\ h.num = o.num /\ h.path \in Paths /\ h.path \in Names
    /\ file[h.path] # Nil /\ file[h.path].obj \in Inodes
    /\ NewVersion(h.path, file[h.path].obj, file[h.path].text \cup {top'})
    /\ g.num = h.num /\ g.path = h.path
    /\ handles' = (handles \ {h}) \cup {g} /\ handles' \subseteq Handles
    /\ \A k \in handles \ {h} : k.num # h.num
    /\ \A k \in handles' : k.num < nextHandle /\ {j \in handles' : j.num = k.num} = {k}
    /\ unseen' = IF h.path = o.node THEN unseen ELSE unseen \cup {h.path}
    /\ \/ /\ g.back = file'[h.path]
          /\ \E q \in OpenFiles :
               /\ opens' = (opens \ {o}) \cup {q} /\ q.last = top'
               /\ q.num = o.num /\ q.born = o.born /\ q.node = o.node /\ q.obj = o.obj
          /\ acked' = [acked EXCEPT ![o.obj] = acked[o.obj] \cup {top'}] /\ o.obj \in Inodes
          /\ stray' = IF file[h.path].obj = o.obj THEN stray ELSE stray \cup {top'}
          /\ UNCHANGED faults
       \/ g.back \in {h.back, Nil} /\ faults' = faults + 1 /\ UNCHANGED <<opens, acked, stray>>

(* The files of a fresh Workspace have inodes of their own, no writes, and   *)
(* numbers up to the number of files in the Base state.                      *)
LEMMA FreshFiles ==
    /\ Fresh \in [Names -> Files \cup {Nil}]
    /\ Cardinality(BasePaths) \in Nat /\ Cardinality(BasePaths) < MaxInodes
    /\ \A p \in Names : Fresh[p] # Nil =>
          /\ Fresh[p].ino =< Cardinality(BasePaths) /\ Fresh[p].obj =< Cardinality(BasePaths)
          /\ Fresh[p].text = {} /\ p \in Paths
    /\ \A p \in BasePaths : p \in Names /\ Fresh[p] # Nil
    /\ \A p, q \in Names : Fresh[p] # Nil /\ Fresh[q] # Nil /\ Fresh[p].obj = Fresh[q].obj => p = q
<1> DEFINE n == Cardinality(BasePaths)
           IsNumber(f) == \A p, q \in BasePaths : f[p] = f[q] => p = q
           number == CHOOSE f \in [BasePaths -> 1 .. n] : IsNumber(f)
<1>1. n \in Nat /\ n < MaxInodes /\ MaxInodes \in Nat
    BY MountAssumption, FS_CardinalityType
<1>2. \E f \in [BasePaths -> 1 .. n] : IsNumber(f)
    <2>1. ExistsBijection(1 .. n, BasePaths)
        BY MountAssumption, FS_CardinalityType
    <2>2. ExistsBijection(BasePaths, 1 .. n)
        BY <2>1, Fun_ExistsBijSymmetric
    <2>3. PICK f \in Bijection(BasePaths, 1 .. n) : TRUE
        BY <2>2 DEF ExistsBijection
    <2>4. f \in [BasePaths -> 1 .. n] /\ IsNumber(f)
        BY <2>3 DEF Bijection, Injection, Surjection, IsInjective
    <2>5. QED BY <2>4
<1>3. number \in [BasePaths -> 1 .. n] /\ IsNumber(number)
    BY <1>2
<1>4. Fresh = [p \in Names |-> IF p \in BasePaths
                 THEN [ino |-> number[p], obj |-> number[p], text |-> {}] ELSE Nil]
    BY DEF Fresh
<1> HIDE DEF number, n
<1>5. \A p \in BasePaths : number[p] \in 1 .. n /\ number[p] \in Inodes
    BY <1>1, <1>3 DEF Inodes
<1>6. Fresh \in [Names -> Files \cup {Nil}]
    BY <1>4, <1>5 DEF Files
<1>7. \A p \in Names : Fresh[p] # Nil => p \in BasePaths /\ Fresh[p] = [ino |-> number[p], obj |-> number[p], text |-> {}]
    BY <1>4
<1>8. \A p \in BasePaths : p \in Names /\ Fresh[p] # Nil
    BY <1>1, <1>4, <1>5, MountAssumption DEF Names, Nil
<1>9. QED BY <1>1, <1>3, <1>5, <1>6, <1>7, <1>8, MountAssumption DEF n

(* What the building blocks of the actions do. *)

(* A new version appears under a name. *)
LEMMA PublishEffect ==
    ASSUME TypeInv, NEW p \in Names, NEW obj \in 1 .. (top + 1), NEW text \in SUBSET (Inodes \cup {top + 1}),
           Publish(p, obj, text)
    PROVE  NewVersion(p, obj, text)
<1>1. top \in 0 .. MaxInodes /\ top' = top + 1 /\ top < MaxInodes /\ MaxInodes \in Nat
    BY MountAssumption DEF TypeInv, FileTypes, HandleTypes, OpenTypes, KernelTypes, ControlTypes, Publish
<1>2. top' \in Inodes /\ obj \in Inodes /\ text \subseteq Inodes
    BY <1>1 DEF Inodes
<1> DEFINE new == [ino |-> top + 1, obj |-> obj, text |-> text]
<1>3. new \in Files /\ new.ino = top' /\ new.obj = obj /\ new.text = text /\ new # Nil
    BY <1>1, <1>2 DEF Files, Nil
<1>4. file' = [file EXCEPT ![p] = new]
    BY DEF Publish
<1> HIDE DEF new
<1>5. QED BY <1>1, <1>2, <1>3, <1>4 DEF NewVersion, TypeInv, FileTypes, HandleTypes, OpenTypes, KernelTypes, ControlTypes

(* A file moves to a new inode under its new name. *)
LEMMA MoveEffect ==
    ASSUME TypeInv, NEW from \in Names, NEW to \in Names, from # to, file[from] # Nil, Move(from, to)
    PROVE  Relocated(from, to)
<1>1. top \in 0 .. MaxInodes /\ top' = top + 1 /\ top < MaxInodes /\ MaxInodes \in Nat
    BY MountAssumption DEF TypeInv, FileTypes, HandleTypes, OpenTypes, KernelTypes, ControlTypes, Move
<1>2. top' \in Inodes /\ top + 1 \in Inodes
    BY <1>1 DEF Inodes
<1> DEFINE new == [file[from] EXCEPT !.ino = top + 1]
<1>3. file[from] \in Files
    BY DEF TypeInv, FileTypes, HandleTypes, OpenTypes, KernelTypes, ControlTypes
<1>4. new \in Files /\ new.ino = top' /\ new.obj = file[from].obj /\ new.text = file[from].text
    BY ONLY <1>1, <1>2, <1>3 DEF Files
<1>5. new # Nil
    BY ONLY <1>1, <1>4 DEF Nil
<1>6. file' = [file EXCEPT ![from] = Nil, ![to] = new]
    BY DEF Move
<1> HIDE DEF new
<1>7. QED BY <1>1, <1>2, <1>4, <1>5, <1>6 DEF Relocated, TypeInv, FileTypes, HandleTypes, OpenTypes, KernelTypes, ControlTypes

(* The reply under way is marked void when it is about the name. *)
LEMMA VoidedEffect ==
    ASSUME TypeInv, NEW p, lookup' = Voided(p)
    PROVE  ReplyVoided(p)
<1>1. lookup \in LookUps
    BY DEF TypeInv, HandleTypes, OpenTypes, KernelTypes, ControlTypes
<1>2. lookup' = IF lookup.path = p THEN [lookup EXCEPT !.ino = NoAttr] ELSE lookup
    BY DEF Voided
<1>3. NoAttr \in 0 .. MaxInodes
    BY MountAssumption DEF NoAttr
<1>4. QED BY ONLY <1>1, <1>2, <1>3 DEF LookUps, ReplyVoided

(* The cached attributes of the name are forgotten. *)
LEMMA ForgottenEffect ==
    ASSUME TypeInv, NEW p, cache' = Forgotten(p)
    PROVE  AttrsForgotten(p)
BY DEF TypeInv, FileTypes, HandleTypes, OpenTypes, KernelTypes, ControlTypes, Forgotten, NoEntry, NoAttr, AttrsForgotten

(* A new handle has a number of its own. *)
LEMMA KeepHandleEffect ==
    ASSUME TypeInv, NEW p \in Paths, NEW version \in Files \cup {Nil}, NEW mode, KeepHandle(p, version, mode)
    PROVE  \E h \in Handles : HandleAdded(h) /\ h.path = p /\ h.back = version
<1> DEFINE h == [num |-> nextHandle, path |-> p, writable |-> mode # "r", back |-> version]
<1>1. h \in Handles /\ h.num = nextHandle /\ h.path = p /\ h.back = version
    <2>1. nextHandle \in Nat /\ (mode # "r") \in BOOLEAN
        BY DEF TypeInv, HandleTypes, OpenTypes, KernelTypes, ControlTypes
    <2>2. QED BY <2>1 DEF Handles
<1>2. handles' = handles \cup {h} /\ nextHandle' = nextHandle + 1
    BY DEF KeepHandle
<1> HIDE DEF h
<1>3. handles \subseteq Handles /\ nextHandle \in Nat
    BY DEF TypeInv, FileTypes, HandleTypes, OpenTypes, KernelTypes, ControlTypes, Handles
<1>4. \A g \in handles : g.num \in Nat /\ g.num < nextHandle /\ {k \in handles : k.num = g.num} = {g}
    BY <1>3 DEF TypeInv, FileTypes, HandleTypes, OpenTypes, KernelTypes, ControlTypes, Handle, Handles
<1>5. h \notin handles
    BY <1>1, <1>4
<1>6. ASSUME NEW g \in handles' PROVE g.num < nextHandle' /\ {k \in handles' : k.num = g.num} = {g}
    <2>1. CASE g \in handles
        <3>1. g.num # h.num
            BY <1>1, <1>3, <1>4, <2>1
        <3>2. QED BY <1>2, <1>3, <1>4, <2>1, <3>1
    <2>2. CASE g = h
        <3>1. \A k \in handles : k.num # h.num
            BY <1>1, <1>3, <1>4
        <3>2. QED BY <1>1, <1>2, <1>3, <2>2, <3>1
    <2>3. QED BY <1>2, <2>1, <2>2
<1>7. QED BY <1>1, <1>2, <1>3, <1>5, <1>6 DEF HandleAdded

(* A handle goes over to another version and stays what it was otherwise. *)
LEMMA ReopenedEffect ==
    ASSUME TypeInv, NEW h \in handles, NEW version \in Files \cup {Nil}, handles' = Reopened(h, version)
    PROVE  \E g \in Handles :
             /\ g.num = h.num /\ g.path = h.path /\ g.writable = h.writable /\ g.back = version
             /\ handles' = (handles \ {h}) \cup {g}
             /\ \A k \in handles \ {h} : k.num # h.num
             /\ handles' \subseteq Handles
             /\ \A k \in handles' : k.num < nextHandle /\ {j \in handles' : j.num = k.num} = {k}
<1> DEFINE g == [h EXCEPT !.back = version]
<1>1. handles \subseteq Handles /\ h \in Handles /\ nextHandle \in Nat
    BY DEF TypeInv, FileTypes, HandleTypes, OpenTypes, KernelTypes, ControlTypes, Handles
<1>2. g \in Handles /\ g.num = h.num /\ g.path = h.path /\ g.writable = h.writable /\ g.back = version
    BY ONLY <1>1, version \in Files \cup {Nil} DEF Handles
<1>3. handles' = (handles \ {h}) \cup {g}
    BY DEF Reopened
<1> HIDE DEF g
<1>4. \A k \in handles : k.num \in Nat /\ k.num < nextHandle /\ {j \in handles : j.num = k.num} = {k}
    BY <1>1 DEF TypeInv, FileTypes, HandleTypes, OpenTypes, KernelTypes, ControlTypes, Handle, Handles
<1>5. \A k \in handles \ {h} : k.num # h.num
    BY <1>4
<1>6. \A k \in handles' : k.num < nextHandle /\ {j \in handles' : j.num = k.num} = {k}
    BY <1>2, <1>3, <1>4, <1>5
<1>7. QED BY <1>1, <1>2, <1>3, <1>5, <1>6

(* Closing handles leaves the others as they were. *)
LEMMA CloseEffect ==
    ASSUME TypeInv, NEW closed, handles' = handles \ closed
    PROVE  /\ handles' \subseteq Handles
           /\ \A k \in handles' : k.num < nextHandle /\ {j \in handles' : j.num = k.num} = {k}
BY DEF TypeInv, FileTypes, HandleTypes, OpenTypes, KernelTypes, ControlTypes, Handle, Handles

(* Libfuse moves the open files of a node; nothing else of them changes. *)
LEMMA RenamedEffect ==
    ASSUME TypeInv, NEW from \in Names, NEW to \in Names, Renamed(from, to)
    PROVE  NodesMoved(from, to)
<1> DEFINE Put(o) == IF o.node = from THEN [o EXCEPT !.node = to] ELSE o
<1>1. opens \subseteq OpenFiles
    BY DEF TypeInv, HandleTypes, OpenTypes, KernelTypes, ControlTypes
<1>2. ASSUME NEW o \in OpenFiles
      PROVE  /\ Put(o) \in OpenFiles
             /\ Put(o).num = o.num /\ Put(o).born = o.born /\ Put(o).obj = o.obj /\ Put(o).last = o.last
             /\ Put(o).node = (IF o.node = from THEN to ELSE o.node)
    BY ONLY <1>2, to \in Names DEF OpenFiles
<1>3. opens' = {Put(o) : o \in opens}
    BY DEF Renamed
<1> HIDE DEF Put
<1>4. QED BY <1>1, <1>2, <1>3 DEF NodesMoved

(* The files have inodes and numbers given out so far. *)
LEMMA FileFacts ==
    ASSUME TypeInv, FileInv
    PROVE  /\ top \in Nat /\ MaxInodes \in Nat
           /\ \A p \in Names : file[p] # Nil =>
                /\ file[p] \in Files
                /\ file[p].ino \in 1 .. top /\ file[p].obj \in 1 .. top
                /\ file[p].ino \in Inodes /\ file[p].obj \in Inodes
                /\ file[p].obj \in 1 .. (top + 1)
                /\ file[p].text \in SUBSET Inodes
           /\ \A p \in Names : file[p] = Nil <=> file[p].ino = 0
           /\ Paths \subseteq Names /\ Hidden \in Names /\ Hidden \notin Paths /\ None \notin Paths
<1>1. top \in 0 .. MaxInodes /\ MaxInodes \in Nat /\ file \in [Names -> Files \cup {Nil}]
    BY MountAssumption DEF TypeInv, FileTypes
<1>2. ASSUME NEW p \in Names, file[p] # Nil
      PROVE  /\ file[p] \in Files /\ file[p].ino \in Inodes /\ file[p].obj \in Inodes
             /\ file[p].text \in SUBSET Inodes
             /\ file[p].ino =< top /\ file[p].obj =< top
    BY <1>1, <1>2 DEF Files, FileInv
<1>3. Nil.ino = 0
    BY DEF Nil
<1>4. QED BY <1>1, <1>2, <1>3, MountAssumption DEF Inodes, Names

(* The control thread goes on to the next step of its request. *)
LEMMA GotoEffect ==
    ASSUME TypeInv, NEW pc \in ControlSteps, Goto(pc)
    PROVE  NextStep(pc) /\ ctl'.before = ctl.before
<1>1. ctl \in Controls /\ ctl' = [ctl EXCEPT !.pc = pc]
    BY DEF TypeInv, ControlTypes, Goto
<1>2. QED BY ONLY <1>1, pc \in ControlSteps DEF Controls, NextStep

(* The open file of a tool gets the number of its handle. *)
LEMMA OpenedEffect ==
    ASSUME TypeInv, NEW p \in Names, NEW version, version.obj \in Inodes, Opened(p, version)
    PROVE  \E o \in OpenFiles : FileOpened(o, p, version.obj)
<1> DEFINE o == [num |-> nextHandle, born |-> engine, node |-> p, obj |-> version.obj, last |-> 0]
<1>1. nextHandle \in Nat /\ engine \in Nat
    BY DEF TypeInv, HandleTypes, ControlTypes
<1>2. o \in OpenFiles /\ o.num = nextHandle /\ o.born = engine /\ o.node = p
      /\ o.obj = version.obj /\ o.last = 0
    BY <1>1 DEF OpenFiles
<1>3. opens' = opens \cup {o}
    BY DEF Opened
<1> HIDE DEF o
<1>4. QED BY <1>2, <1>3 DEF FileOpened

(* Truncating a file publishes a shorter version and forgets its writes. *)
LEMMA TruncateEffect ==
    ASSUME TypeInv, FileInv, NEW p \in Names, file[p] # Nil, NEW text \in SUBSET Inodes, Truncate(p, text)
    PROVE  Shortened(p, text)
<1>1. file[p].obj \in 1 .. (top + 1) /\ file[p].obj \in Inodes
    BY FileFacts
<1>2. text \in SUBSET (Inodes \cup {top + 1}) /\ Publish(p, file[p].obj, text)
    BY DEF Truncate
<1>3. NewVersion(p, file[p].obj, text)
    BY <1>1, <1>2, PublishEffect
<1>4. QED BY <1>1, <1>3 DEF Truncate, Shortened

(* A write extends the version its path names. *)
LEMMA WriteEffect ==
    ASSUME TypeInv, FileInv, NEW h \in handles, write_handle(h)
    PROVE  /\ h.path \in Names /\ h.path \in Paths /\ file[h.path] # Nil /\ file[h.path].obj \in Inodes
           /\ NewVersion(h.path, file[h.path].obj, file[h.path].text \cup {top'})
<1>1. h.path \in Paths /\ h.path \in Names
    BY FileFacts DEF TypeInv, HandleTypes, Handles
<1>2. file[h.path] # Nil /\ Publish(h.path, file[h.path].obj, file[h.path].text \cup {top + 1})
    BY DEF write_handle, Exists
<1>3. file[h.path].obj \in 1 .. (top + 1) /\ file[h.path].obj \in Inodes /\ file[h.path].text \in SUBSET Inodes
    BY <1>1, <1>2, FileFacts
<1>4. file[h.path].text \cup {top + 1} \in SUBSET (Inodes \cup {top + 1})
    BY <1>3
<1>5. NewVersion(h.path, file[h.path].obj, file[h.path].text \cup {top + 1})
    BY <1>1, <1>2, <1>3, <1>4, PublishEffect
<1>6. QED BY <1>1, <1>2, <1>3, <1>5 DEF NewVersion

(* A new file is a new version of itself. *)
LEMMA CreateEffect ==
    ASSUME TypeInv, NEW p \in Names, Publish(p, top + 1, {})
    PROVE  NewVersion(p, top + 1, {})
<1>1. top \in Nat
    BY MountAssumption DEF TypeInv, FileTypes
<1>2. top + 1 \in 1 .. (top + 1) /\ {} \in SUBSET (Inodes \cup {top + 1})
    BY <1>1
<1>3. QED BY <1>2, PublishEffect

(* What a removal that failed late leaves is a file or nothing. *)
LEMMA UncoveredEffect ==
    ASSUME TypeInv, FileInv, NEW p \in Names, NEW n \in Inodes, NEW left \in Uncovered(p, n)
    PROVE  /\ left \in Files \cup {Nil}
           /\ \/ left \in {Nil, file[p]}
              \/ left \in Files /\ left # Nil /\ left.ino =< top /\ left.obj = n /\ left.text = {}
<1>1. file[p] \in Files \cup {Nil} /\ top \in Nat
    BY FileFacts DEF TypeInv, FileTypes
<1>2. CASE left \in {Nil, file[p]}
    BY <1>1, <1>2
<1>3. CASE p \in BasePaths /\ left = [Fresh[p] EXCEPT !.obj = n]
    <2>1. Fresh[p] \in Files /\ Fresh[p].ino =< top /\ Fresh[p].text = {}
        BY <1>1, <1>3, FreshFiles DEF FileInv, Files, Inodes
    <2>2. left \in Files /\ left.ino = Fresh[p].ino /\ left.obj = n /\ left.text = {}
        BY ONLY <1>3, <2>1, n \in Inodes DEF Files
    <2>3. left # Nil
        BY <2>2 DEF Files, Inodes, Nil
    <2>4. QED BY <2>1, <2>2, <2>3
<1>4. QED BY <1>2, <1>3 DEF Uncovered

(* A removal fails late. *)
LEMMA HalfRemoveEffect ==
    ASSUME TypeInv, FileInv, NEW p \in Names, HalfRemove(p)
    PROVE  HalfGone(p)
<1>1. /\ top \in Nat /\ top' = top + 1 /\ top' \in Inodes /\ top' \in 0 .. MaxInodes
    BY FileFacts DEF HalfRemove, Inodes
<1>2. PICK left \in Uncovered(p, top') : file' = [file EXCEPT ![p] = left]
    BY DEF HalfRemove
<1>3. /\ left \in Files \cup {Nil}
      /\ \/ left \in {Nil, file[p]}
         \/ left \in Files /\ left # Nil /\ left.ino =< top /\ left.obj = top' /\ left.text = {}
    BY <1>1, <1>2, UncoveredEffect
<1>4. QED BY <1>1, <1>2, <1>3 DEF TypeInv, FileTypes, HalfGone, LeftUnder

(* A rename fails late. *)
LEMMA HalfMoveEffect ==
    ASSUME TypeInv, FileInv, NEW from \in Names, NEW to \in Names, from # to, file[from] # Nil,
           HalfMove(from, to)
    PROVE  HalfMoved(from, to)
<1> DEFINE new == [ino |-> top + 1, obj |-> top + 1, text |-> file[from].text]
<1>1. /\ top \in Nat /\ top' = top + 2 /\ top' \in Inodes /\ top' \in 0 .. MaxInodes
      /\ top + 1 \in Inodes
    BY FileFacts DEF HalfMove, Inodes
<1>2. file[from] \in Files /\ file[from].obj \in Inodes /\ file[from].text \in SUBSET Inodes
    BY FileFacts
<1>3. PICK left \in {file[from]} \cup Uncovered(from, top') : file' = [file EXCEPT ![from] = left, ![to] = new]
    BY DEF HalfMove
<1>4. /\ left \in Files \cup {Nil}
      /\ \/ left \in {Nil, file[from]}
         \/ left \in Files /\ left # Nil /\ left.ino =< top /\ left.obj = top' /\ left.text = {}
    BY <1>1, <1>2, <1>3, UncoveredEffect
<1>5. new \in Files /\ new # Nil /\ new.ino = top + 1 /\ new.obj = top + 1 /\ new.text = file[from].text
    BY <1>1, <1>2 DEF Files, Nil
<1>6. acked' = [acked EXCEPT ![top + 1] = acked[file[from].obj]]
    BY DEF HalfMove
<1> HIDE DEF new
<1>7. QED BY <1>1, <1>2, <1>3, <1>4, <1>5, <1>6 DEF TypeInv, FileTypes, HalfMoved, LeftUnder

(* Removing a name. *)
LEMMA GoneEffect ==
    ASSUME TypeInv, NEW p \in Names, file' = [file EXCEPT ![p] = Nil], UNCHANGED top
    PROVE  Gone(p)
BY DEF TypeInv, FileTypes, Gone
-----------------------------------------------------------------------------
(* What the actions do, in these terms. *)

(* open, with and without O_TRUNC. *)
LEMMA OpenEffect ==
    ASSUME TypeInv, FileInv, NEW p \in Paths, NEW mode \in Modes, tri_open(p, mode)
    PROVE  /\ engine # 0 /\ file[p] # Nil /\ cache[p] # NoEntry /\ p \in Names
           /\ UNCHANGED <<engine, born, creating, ctl, requests, stray, blind, foreign>>
           /\ IF mode = "trunc" THEN Shortened(p, {}) ELSE UNCHANGED <<file, top, acked>>
           /\ \/ /\ \E h \in Handles : HandleAdded(h) /\ h.path = p
                 /\ \E o \in OpenFiles : FileOpened(o, p, file'[p].obj)
                 /\ IF mode = "trunc" THEN AttrsForgotten(p) /\ ReplyVoided(p)
                                      ELSE UNCHANGED <<cache, lookup>>
                 /\ UNCHANGED <<faults, unseen>>
              \/ /\ mode = "trunc" /\ unseen' = unseen \cup {p} /\ faults' = faults + 1
                 /\ UNCHANGED <<handles, nextHandle, opens, cache, lookup>>
<1>1. /\ engine # 0 /\ file[p] # Nil /\ cache[p] # NoEntry /\ p \in Names
      /\ UNCHANGED <<engine, born, creating, ctl, requests, stray, blind, foreign>>
    BY FileFacts DEF tri_open, Served, Exists, control
<1>2. IF mode = "trunc" THEN Shortened(p, {}) ELSE UNCHANGED <<file, top, acked>>
    <2>1. {} \in SUBSET Inodes
        OBVIOUS
    <2>2. IF mode = "trunc" THEN Truncate(p, {}) ELSE UNCHANGED <<file, top, acked>>
        BY DEF tri_open
    <2>3. QED BY <1>1, <2>1, <2>2, TruncateEffect
<1>3. file'[p] \in Files /\ file'[p].obj \in Inodes
    BY <1>1, <1>2, FileFacts DEF Shortened, NewVersion
<1>4. ASSUME KeepHandle(p, file'[p], mode), Opened(p, file'[p]),
             IF mode = "trunc" THEN cache' = Forgotten(p) /\ lookup' = Voided(p)
                               ELSE UNCHANGED <<cache, lookup>>
      PROVE  /\ \E h \in Handles : HandleAdded(h) /\ h.path = p
             /\ \E o \in OpenFiles : FileOpened(o, p, file'[p].obj)
             /\ IF mode = "trunc" THEN AttrsForgotten(p) /\ ReplyVoided(p)
                                  ELSE UNCHANGED <<cache, lookup>>
    <2>1. \E h \in Handles : HandleAdded(h) /\ h.path = p
        BY <1>3, <1>4, KeepHandleEffect
    <2>2. \E o \in OpenFiles : FileOpened(o, p, file'[p].obj)
        BY <1>1, <1>3, <1>4, OpenedEffect
    <2>3. IF mode = "trunc" THEN AttrsForgotten(p) /\ ReplyVoided(p) ELSE UNCHANGED <<cache, lookup>>
        BY <1>4, ForgottenEffect, VoidedEffect
    <2>4. QED BY <2>1, <2>2, <2>3
<1>5. \/ /\ KeepHandle(p, file'[p], mode) /\ Opened(p, file'[p])
         /\ IF mode = "trunc" THEN cache' = Forgotten(p) /\ lookup' = Voided(p)
                              ELSE UNCHANGED <<cache, lookup>>
         /\ UNCHANGED <<faults, unseen>>
      \/ /\ mode = "trunc" /\ unseen' = unseen \cup {p} /\ faults' = faults + 1
         /\ UNCHANGED <<handles, nextHandle, opens, cache, lookup>>
    BY DEF tri_open, Fails
<1>6. QED BY <1>1, <1>2, <1>4, <1>5

(* The second half of create. *)
LEMMA CreateOpenEffect ==
    ASSUME TypeInv, FileInv, tri_create_open
    PROVE  /\ creating \in Paths /\ creating' = None
           /\ UNCHANGED <<engine, born, file, top, ctl, requests, acked, stray, unseen, blind, foreign>>
           /\ \/ /\ engine # 0 /\ file[creating] # Nil /\ file[creating].ino \in Inodes
                 /\ file[creating].obj \in Inodes
                 /\ \E h \in Handles : HandleAdded(h) /\ h.path = creating
                 /\ \E o \in OpenFiles : FileOpened(o, creating, file[creating].obj)
                 /\ cache' = [cache EXCEPT ![creating] = file[creating].ino]
                 /\ ReplyVoided(creating) /\ UNCHANGED faults
              \/ /\ faults' \in {faults, faults + 1}
                 /\ UNCHANGED <<handles, nextHandle, opens, cache, lookup>>
<1>1. /\ creating \in Paths /\ creating \in Names /\ creating' = None
      /\ UNCHANGED <<engine, born, file, top, ctl, requests, acked, stray, unseen, blind, foreign>>
    BY FileFacts DEF tri_create_open, control, history, TypeInv, KernelTypes
<1>2. ASSUME engine # 0, file[creating] # Nil,
             KeepHandle(creating, file[creating], "w"), Opened(creating, file[creating]),
             lookup' = Voided(creating)
      PROVE  /\ file[creating].ino \in Inodes /\ file[creating].obj \in Inodes
             /\ \E h \in Handles : HandleAdded(h) /\ h.path = creating
             /\ \E o \in OpenFiles : FileOpened(o, creating, file[creating].obj)
             /\ ReplyVoided(creating)
    <2>1. file[creating] \in Files /\ file[creating].ino \in Inodes /\ file[creating].obj \in Inodes
        BY <1>1, <1>2, FileFacts
    <2>2. \E h \in Handles : HandleAdded(h) /\ h.path = creating
        BY <1>1, <1>2, <2>1, KeepHandleEffect
    <2>3. \E o \in OpenFiles : FileOpened(o, creating, file[creating].obj)
        BY <1>1, <1>2, <2>1, OpenedEffect
    <2>4. QED BY <1>2, <2>1, <2>2, <2>3, VoidedEffect
<1>3. \/ /\ engine # 0 /\ file[creating] # Nil
         /\ KeepHandle(creating, file[creating], "w") /\ Opened(creating, file[creating])
         /\ cache' = [cache EXCEPT ![creating] = file[creating].ino] /\ lookup' = Voided(creating)
         /\ UNCHANGED faults
      \/ /\ faults' \in {faults, faults + 1}
         /\ UNCHANGED <<handles, nextHandle, opens, cache, lookup>>
    BY DEF tri_create_open, Fails, Exists, find_path_inode
<1>4. QED BY <1>1, <1>2, <1>3

(* rename and unlink through the kernel. *)
LEMMA RenameEffect ==
    ASSUME TypeInv, FileInv, NEW from \in Paths, NEW to \in Paths, tri_rename(from, to)
    PROVE  /\ engine # 0 /\ file[from] # Nil /\ from # to /\ ~DirLocked
           /\ from \in Names /\ to \in Names
           /\ \/ /\ Relocated(from, to) /\ NodesMoved(from, to)
                 /\ cache' = [cache EXCEPT ![from] = NoEntry, ![to] = NoAttr]
                 /\ IF lookup.path = from THEN ReplyVoided(from) ELSE ReplyVoided(to)
                 /\ UNCHANGED <<faults, acked, unseen, blind>>
              \/ /\ HalfMoved(from, to) /\ faults' = faults + 1
                 /\ unseen' = unseen \cup {to} /\ blind' = blind \cup {from}
                 /\ UNCHANGED <<opens, cache, lookup>>
           /\ UNCHANGED <<engine, born, handles, nextHandle, creating, ctl, requests,
                          stray, foreign>>
<1>1. /\ engine # 0 /\ file[from] # Nil /\ from # to /\ ~DirLocked
      /\ UNCHANGED <<engine, born, handles, nextHandle, creating, ctl, requests>>
      /\ \/ /\ Move(from, to) /\ Renamed(from, to)
            /\ cache' = [cache EXCEPT ![from] = NoEntry, ![to] = NoAttr]
            /\ lookup' = IF lookup.path = from THEN Voided(from) ELSE Voided(to)
            /\ UNCHANGED <<faults, history>>
         \/ RenameFails(from, to)
    BY DEF tri_rename, Served, Exists, control
<1>2. from \in Names /\ to \in Names
    BY FileFacts
<1>3. Move(from, to) => Relocated(from, to)
    BY <1>1, <1>2, MoveEffect
<1>4. Renamed(from, to) => NodesMoved(from, to)
    BY <1>2, RenamedEffect
<1>5. HalfMove(from, to) => HalfMoved(from, to)
    BY <1>1, <1>2, HalfMoveEffect
<1>6. CASE RenameFails(from, to)
    BY <1>1, <1>2, <1>5, <1>6 DEF RenameFails, Fails
<1>7. CASE /\ Move(from, to) /\ Renamed(from, to)
           /\ cache' = [cache EXCEPT ![from] = NoEntry, ![to] = NoAttr]
           /\ lookup' = IF lookup.path = from THEN Voided(from) ELSE Voided(to)
           /\ UNCHANGED <<faults, history>>
    <2>1. IF lookup.path = from THEN ReplyVoided(from) ELSE ReplyVoided(to)
        BY <1>7, VoidedEffect
    <2>2. QED BY <1>1, <1>2, <1>3, <1>4, <1>7, <2>1 DEF history
<1>8. QED BY <1>1, <1>6, <1>7

(* An unlink hides a file that is open, and takes away one that is not. *)
LEMMA UnlinkEffect ==
    ASSUME TypeInv, FileInv, NEW p \in Paths, tri_unlink(p)
    PROVE  /\ engine # 0 /\ file[p] # Nil /\ ~DirLocked
           /\ p \in Names /\ Hidden \in Names /\ p # Hidden
           /\ \/ /\ \/ file[Hidden] = Nil /\ Relocated(p, Hidden) /\ NodesMoved(p, Hidden)
                    \/ Gone(p) /\ UNCHANGED opens
                 /\ cache' = [cache EXCEPT ![p] = NoEntry] /\ ReplyVoided(p)
                 /\ UNCHANGED <<faults, acked, unseen, blind>>
              \/ /\ \/ file[Hidden] = Nil /\ HalfMoved(p, Hidden)
                    \/ HalfGone(p) /\ UNCHANGED acked
                 /\ faults' = faults + 1
                 /\ unseen' \in {unseen, unseen \cup {Hidden}} /\ blind' = blind \cup {p}
                 /\ UNCHANGED <<opens, cache, lookup>>
           /\ UNCHANGED <<engine, born, handles, nextHandle, creating, ctl, requests,
                          stray, foreign>>
<1>1. /\ engine # 0 /\ file[p] # Nil /\ ~DirLocked
      /\ UNCHANGED <<engine, born, handles, nextHandle, creating, ctl, requests>>
      /\ \/ /\ \/ file[Hidden] = Nil /\ Move(p, Hidden) /\ Renamed(p, Hidden)
               \/ file' = [file EXCEPT ![p] = Nil] /\ UNCHANGED <<top, opens>>
            /\ cache' = [cache EXCEPT ![p] = NoEntry] /\ lookup' = Voided(p)
            /\ UNCHANGED <<faults, acked, stray, unseen, blind, foreign>>
         \/ file[Hidden] = Nil /\ RenameFails(p, Hidden)
         \/ UnlinkFails(p)
    BY DEF tri_unlink, Served, Exists, control, history
<1>2. p \in Names /\ Hidden \in Names /\ p # Hidden
    BY FileFacts
<1>3. Move(p, Hidden) => Relocated(p, Hidden)
    BY <1>1, <1>2, MoveEffect
<1>4. Renamed(p, Hidden) => NodesMoved(p, Hidden)
    BY <1>2, RenamedEffect
<1>5. file' = [file EXCEPT ![p] = Nil] /\ UNCHANGED top => Gone(p)
    BY <1>2, GoneEffect
<1>6. lookup' = Voided(p) => ReplyVoided(p)
    BY VoidedEffect
<1>7. HalfMove(p, Hidden) => HalfMoved(p, Hidden)
    BY <1>1, <1>2, HalfMoveEffect
<1>8. HalfRemove(p) => HalfGone(p)
    BY <1>2, HalfRemoveEffect
<1>9. CASE file[Hidden] = Nil /\ RenameFails(p, Hidden)
    BY <1>1, <1>2, <1>7, <1>9 DEF RenameFails, Fails
<1>10. CASE UnlinkFails(p)
    BY <1>1, <1>2, <1>8, <1>10 DEF UnlinkFails, Fails
<1>11. QED BY <1>1, <1>2, <1>3, <1>4, <1>5, <1>6, <1>9, <1>10

(* truncate through the kernel. *)
LEMMA CutEffect ==
    ASSUME TypeInv, FileInv, NEW p \in Paths, tri_truncate(p)
    PROVE  /\ engine # 0 /\ file[p] # Nil /\ cache[p] # NoEntry /\ p \in Names
           /\ Shortened(p, {})
           /\ \/ /\ cache' = [cache EXCEPT ![p] = top'] /\ ReplyVoided(p)
                 /\ UNCHANGED <<faults, unseen>>
              \/ /\ faults' = faults + 1 /\ unseen' = unseen \cup {p}
                 /\ UNCHANGED <<cache, lookup>>
           /\ UNCHANGED <<engine, born, handles, nextHandle, opens, creating, ctl, requests,
                          stray, blind, foreign>>
<1>1. /\ engine # 0 /\ file[p] # Nil /\ cache[p] # NoEntry /\ p \in Names
      /\ Truncate(p, {})
      /\ \/ /\ cache' = [cache EXCEPT ![p] = top'] /\ lookup' = Voided(p)
            /\ UNCHANGED <<faults, unseen>>
         \/ /\ faults' = faults + 1 /\ unseen' = unseen \cup {p}
            /\ UNCHANGED <<cache, lookup>>
      /\ UNCHANGED <<engine, born, handles, nextHandle, opens, creating, ctl, requests,
                     stray, blind, foreign>>
    BY FileFacts DEF tri_truncate, Served, Exists, Fails, control
<1>2. Shortened(p, {})
    <2>1. {} \in SUBSET Inodes
        OBVIOUS
    <2>2. QED BY <1>1, <2>1, TruncateEffect
<1>3. lookup' = Voided(p) => ReplyVoided(p)
    BY VoidedEffect
<1>4. QED BY <1>1, <1>2, <1>3

(* create through the kernel, first half. *)
LEMMA CreateFileEffect ==
    ASSUME TypeInv, FileInv, NEW p \in Paths, tri_create(p)
    PROVE  /\ engine # 0 /\ file[p] = Nil /\ cache[p] = NoEntry /\ ~DirLocked /\ p \in Names
           /\ NewVersion(p, top + 1, {})
           /\ creating' \in {p, creating} /\ faults' \in {faults, faults + 1}
           /\ UNCHANGED <<engine, born, handles, nextHandle, opens, cache, lookup, ctl, requests,
                          acked, stray, unseen, blind, foreign>>
<1>1. p \in Names /\ Publish(p, top + 1, {})
    BY FileFacts DEF tri_create
<1>2. QED BY <1>1, CreateEffect DEF tri_create, Exists, Fails, control, history

(* write through an open file. *)
LEMMA ToolWriteEffect ==
    ASSUME TypeInv, FileInv, NEW o \in opens, tri_write(o)
    PROVE  /\ engine # 0
           /\ \E h \in handles, g \in Handles : ToolWrote(o, h, g)
           /\ foreign' = (foreign \/ o.born # engine)
           /\ AttrsForgotten(o.node) /\ ReplyVoided(o.node)
           /\ UNCHANGED <<engine, born, nextHandle, creating, ctl, requests, blind>>
<1>1. PICK h \in handles :
        /\ h.num = o.num /\ write_handle(h)
        /\ \/ /\ handles' = Reopened(h, file'[h.path])
              /\ opens' = (opens \ {o}) \cup {[o EXCEPT !.last = top']}
              /\ acked' = [acked EXCEPT ![o.obj] = @ \cup {top'}]
              /\ stray' = IF file[h.path].obj = o.obj THEN stray ELSE stray \cup {top'}
              /\ UNCHANGED faults
           \/ /\ Fails /\ \E version \in {h.back, Nil} : handles' = Reopened(h, version)
              /\ UNCHANGED <<opens, acked, stray>>
        /\ unseen' = IF h.path = o.node THEN unseen ELSE unseen \cup {h.path}
    BY DEF tri_write, Handle
<1>2. /\ h.path \in Paths /\ h.path \in Names /\ file[h.path] # Nil /\ file[h.path].obj \in Inodes
      /\ NewVersion(h.path, file[h.path].obj, file[h.path].text \cup {top'})
    BY <1>1, WriteEffect
<1>3. /\ engine # 0 /\ foreign' = (foreign \/ o.born # engine)
      /\ cache' = Forgotten(o.node) /\ lookup' = Voided(o.node)
      /\ UNCHANGED <<engine, born, nextHandle, creating, ctl, requests, blind>>
    BY DEF tri_write, control
<1>4. AttrsForgotten(o.node) /\ ReplyVoided(o.node)
    BY <1>3, ForgottenEffect, VoidedEffect
<1>5. file'[h.path] \in Files \cup {Nil} /\ {h.back, Nil} \subseteq Files \cup {Nil}
    BY <1>2 DEF NewVersion, TypeInv, HandleTypes, Handles
<1> DEFINE q == [o EXCEPT !.last = top']
<1>6. /\ q \in OpenFiles /\ q.last = top' /\ o.obj \in Inodes
      /\ q.num = o.num /\ q.born = o.born /\ q.node = o.node /\ q.obj = o.obj
    <2>1. o \in OpenFiles /\ top' \in Nat
        BY <1>2 DEF TypeInv, OpenTypes, NewVersion
    <2>2. QED BY ONLY <2>1 DEF OpenFiles
<1>7. CASE /\ handles' = Reopened(h, file'[h.path])
           /\ opens' = (opens \ {o}) \cup {q}
           /\ acked' = [acked EXCEPT ![o.obj] = @ \cup {top'}]
           /\ stray' = IF file[h.path].obj = o.obj THEN stray ELSE stray \cup {top'}
           /\ UNCHANGED faults
    <2> HIDE DEF q
    <2>1. PICK g \in Handles :
             /\ g.num = h.num /\ g.path = h.path /\ g.back = file'[h.path]
             /\ handles' = (handles \ {h}) \cup {g} /\ handles' \subseteq Handles
             /\ \A k \in handles \ {h} : k.num # h.num
             /\ \A k \in handles' : k.num < nextHandle /\ {j \in handles' : j.num = k.num} = {k}
        BY <1>5, <1>7, ReopenedEffect
    <2>2. QED BY <1>1, <1>2, <1>3, <1>4, <1>6, <1>7, <2>1 DEF ToolWrote
<1>8. CASE /\ Fails /\ \E version \in {h.back, Nil} : handles' = Reopened(h, version)
           /\ UNCHANGED <<opens, acked, stray>>
    <2> HIDE DEF q
    <2>1. PICK g \in Handles :
             /\ g.num = h.num /\ g.path = h.path /\ g.back \in {h.back, Nil}
             /\ handles' = (handles \ {h}) \cup {g} /\ handles' \subseteq Handles
             /\ \A k \in handles \ {h} : k.num # h.num
             /\ \A k \in handles' : k.num < nextHandle /\ {j \in handles' : j.num = k.num} = {k}
        BY <1>5, <1>8, ReopenedEffect
    <2>2. faults' = faults + 1
        BY <1>8 DEF Fails
    <2>3. QED BY <1>1, <1>2, <1>3, <1>4, <1>8, <2>1, <2>2 DEF ToolWrote
<1>9. QED BY <1>1, <1>7, <1>8

(* close. *)
LEMMA ReleaseEffect ==
    ASSUME TypeInv, FileInv, NEW o \in opens, tri_release(o)
    PROVE  /\ opens' = opens \ {o}
           /\ handles' = IF engine = 0 THEN handles ELSE handles \ Handle(o.num)
           /\ handles' \subseteq Handles
           /\ \A k \in handles' : k.num < nextHandle /\ {j \in handles' : j.num = k.num} = {k}
           /\ foreign' = (foreign \/ (engine # 0 /\ o.born # engine /\ Handle(o.num) # {}))
           /\ Gone(Hidden) \/ UNCHANGED <<file, top>>
           /\ UNCHANGED <<engine, born, top, nextHandle, cache, lookup, creating, ctl, requests,
                          faults, acked, stray, unseen, blind>>
<1>1. /\ opens' = opens \ {o}
      /\ handles' = IF engine = 0 THEN handles ELSE handles \ Handle(o.num)
      /\ foreign' = (foreign \/ (engine # 0 /\ o.born # engine /\ Handle(o.num) # {}))
      /\ file' \in {file, [file EXCEPT ![Hidden] = Nil]}
      /\ UNCHANGED <<engine, born, top, nextHandle, cache, lookup, creating, ctl, requests,
                     faults, acked, stray, unseen, blind>>
    BY DEF tri_release, control
<1>2. \E closed : handles' = handles \ closed
    <2>1. handles = handles \ {}
        OBVIOUS
    <2>2. QED BY <1>1, <2>1
<1>3. /\ handles' \subseteq Handles
      /\ \A k \in handles' : k.num < nextHandle /\ {j \in handles' : j.num = k.num} = {k}
    BY <1>2, CloseEffect
<1>4. Gone(Hidden) \/ UNCHANGED <<file, top>>
    BY <1>1, FileFacts, GoneEffect
<1>5. QED BY <1>1, <1>3, <1>4

(* A request of the control thread starts. *)
LEMMA DispatchEffect ==
    ASSUME TypeInv, FileInv, NEW verb \in Verbs, NEW p \in Paths, NEW d \in Paths,
           dispatch_filesystem_request(verb, p, d)
    PROVE  /\ ctl = Idle /\ engine # 0 /\ requests' = requests + 1
           /\ ctl' \in Controls /\ ctl'.pc = "mutate" /\ ctl'.verb = verb /\ verb \in FileVerbs
           /\ ctl'.path = p /\ ctl'.dest = d
           /\ UNCHANGED <<engine, born, file, top, handles, nextHandle, opens, cache, lookup, creating,
                          faults, acked, stray, unseen, blind, foreign>>
<1>1. /\ ctl = Idle /\ engine # 0 /\ requests' = requests + 1 /\ verb \in FileVerbs
      /\ ctl' = [Idle EXCEPT !.pc = "mutate", !.verb = verb, !.path = p, !.dest = d,
                   !.before = IF verb \in {"fs.rm", "fs.mv"} THEN find_path_inode(p) ELSE 0,
                   !.before2 = IF verb = "fs.mv" THEN find_path_inode(d) ELSE 0]
      /\ UNCHANGED <<engine, born, file, top, handles, nextHandle, opens, cache, lookup, creating,
                     faults, acked, stray, unseen, blind, foreign>>
    BY DEF dispatch_filesystem_request, daemon, kernel, history, FileVerbs
<1>2. find_path_inode(p) \in 0 .. MaxInodes /\ find_path_inode(d) \in 0 .. MaxInodes
    BY FileFacts DEF find_path_inode, Inodes
<1> DEFINE b1 == IF verb \in {"fs.rm", "fs.mv"} THEN find_path_inode(p) ELSE 0
           b2 == IF verb = "fs.mv" THEN find_path_inode(d) ELSE 0
<1>3. b1 \in 0 .. MaxInodes /\ b2 \in 0 .. MaxInodes
    BY <1>2, FileFacts
<1>4. ctl' = [Idle EXCEPT !.pc = "mutate", !.verb = verb, !.path = p, !.dest = d, !.before = b1, !.before2 = b2]
    BY <1>1
<1> HIDE DEF b1, b2
<1>5. ctl' = [pc |-> "mutate", verb |-> verb, path |-> p, dest |-> d, before |-> b1, before2 |-> b2, num |-> 0]
    BY ONLY <1>4 DEF Idle
<1>6. ctl' \in Controls /\ ctl'.pc = "mutate" /\ ctl'.verb = verb /\ ctl'.path = p /\ ctl'.dest = d
    BY <1>1, <1>3, <1>5 DEF Controls, ControlSteps
<1>7. QED BY <1>1, <1>6

(* Removal and rename by the control thread. *)
LEMMA MutateNamesEffect ==
    ASSUME TypeInv, FileInv, ControlInv, mutate_names
    PROVE  /\ ctl.pc = "mutate" /\ ctl.verb \in NameVerbs /\ ctl.path \in Paths /\ ctl.dest \in Paths
           /\ NextStep("report") /\ ctl'.before = ctl.before /\ engine # 0
           /\ \/ UNCHANGED <<file, top, acked, faults, blind>>
              \/ /\ file[ctl.path] # Nil
                 /\ \/ /\ ctl.verb = "fs.mv" /\ ctl.path # ctl.dest
                       /\ \/ Relocated(ctl.path, ctl.dest) /\ UNCHANGED <<acked, faults>>
                          \/ HalfMoved(ctl.path, ctl.dest) /\ faults' = faults + 1
                    \/ /\ ctl.verb = "fs.rm" /\ UNCHANGED acked
                       /\ \/ Gone(ctl.path) /\ UNCHANGED faults
                          \/ HalfGone(ctl.path) /\ faults' = faults + 1
                 /\ blind' = IF ctl.before = 0 THEN blind \cup {ctl.path} ELSE blind
           /\ UNCHANGED <<engine, born, handles, nextHandle, opens, cache, lookup, creating,
                          requests, stray, unseen, foreign>>
<1>1. /\ ctl.pc = "mutate" /\ ctl.verb \in NameVerbs /\ Goto("report")
      /\ \/ UNCHANGED <<file, top, acked, faults, blind>>
         \/ /\ file[ctl.path] # Nil
            /\ \/ /\ ctl.verb = "fs.mv" /\ ctl.path # ctl.dest
                  /\ \/ Move(ctl.path, ctl.dest) /\ UNCHANGED <<acked, faults>>
                     \/ HalfMove(ctl.path, ctl.dest) /\ faults' = faults + 1
               \/ /\ ctl.verb = "fs.rm" /\ UNCHANGED acked
                  /\ \/ file' = [file EXCEPT ![ctl.path] = Nil] /\ UNCHANGED <<top, faults>>
                     \/ HalfRemove(ctl.path) /\ faults' = faults + 1
            /\ blind' = IF ctl.before = 0 THEN blind \cup {ctl.path} ELSE blind
      /\ UNCHANGED <<engine, born, handles, nextHandle, opens, cache, lookup, creating,
                     requests, stray, unseen, foreign>>
    BY DEF mutate_names, Exists, Fails, NameVerbs, kernel
<1>2. ctl.path \in Paths /\ ctl.dest \in Paths /\ engine # 0
    BY <1>1 DEF ControlInv, NameVerbs, FileVerbs
<1>3. ctl.path \in Names /\ ctl.dest \in Names
    BY <1>2, FileFacts
<1>4. NextStep("report") /\ ctl'.before = ctl.before
    <2>1. "report" \in ControlSteps
        BY DEF ControlSteps
    <2>2. QED BY <1>1, <2>1, GotoEffect
<1>5. file[ctl.path] # Nil /\ ctl.path # ctl.dest =>
        /\ Move(ctl.path, ctl.dest) => Relocated(ctl.path, ctl.dest)
        /\ HalfMove(ctl.path, ctl.dest) => HalfMoved(ctl.path, ctl.dest)
    BY <1>3, MoveEffect, HalfMoveEffect
<1>6. file' = [file EXCEPT ![ctl.path] = Nil] /\ UNCHANGED top => Gone(ctl.path)
    BY <1>3, GoneEffect
<1>7. HalfRemove(ctl.path) => HalfGone(ctl.path)
    BY <1>3, HalfRemoveEffect
<1>8. QED BY <1>1, <1>2, <1>4, <1>5, <1>6, <1>7

(* fs.truncate, and the cut that ends fs.write. *)
LEMMA MutateContentsEffect ==
    ASSUME TypeInv, FileInv, ControlInv, mutate_contents \/ trim
    PROVE  /\ ctl.pc \in {"mutate", "trim"} /\ ctl.verb \in {"fs.truncate", "fs.write"}
           /\ ctl.path \in Paths /\ engine # 0
           /\ NextStep("report") /\ ctl'.before = ctl.before
           /\ \/ UNCHANGED <<file, top, acked>>
              \/ file[ctl.path] # Nil /\ \E text \in SUBSET Inodes : Shortened(ctl.path, text)
           /\ UNCHANGED <<engine, born, handles, nextHandle, opens, cache, lookup, creating,
                          requests, faults, stray, unseen, blind, foreign>>
<1>1. /\ ctl.pc \in {"mutate", "trim"} /\ ctl.verb \in {"fs.truncate", "fs.write"} /\ Goto("report")
      /\ \/ UNCHANGED <<file, top, acked>>
         \/ /\ file[ctl.path] # Nil
            /\ Truncate(ctl.path, {}) \/ Truncate(ctl.path, file[ctl.path].text \cap {ctl.num})
      /\ UNCHANGED <<engine, born, handles, nextHandle, opens, cache, lookup, creating,
                     requests, faults, stray, unseen, blind, foreign>>
    BY DEF mutate_contents, trim, Exists, kernel, ControlInv
<1>2. ctl.path \in Paths /\ engine # 0
    BY <1>1 DEF ControlInv, FileVerbs
<1>3. ctl.path \in Names
    BY <1>2, FileFacts
<1>4. NextStep("report") /\ ctl'.before = ctl.before
    <2>1. "report" \in ControlSteps
        BY DEF ControlSteps
    <2>2. QED BY <1>1, <2>1, GotoEffect
<1>5. ASSUME file[ctl.path] # Nil, NEW text \in SUBSET Inodes, Truncate(ctl.path, text)
      PROVE  Shortened(ctl.path, text)
    BY <1>3, <1>5, TruncateEffect
<1>6. {} \in SUBSET Inodes /\ (file[ctl.path] # Nil => file[ctl.path].text \cap {ctl.num} \in SUBSET Inodes)
    BY <1>3, FileFacts
<1>7. QED BY <1>1, <1>2, <1>4, <1>5, <1>6

(* fs.write opens or creates its file. *)
LEMMA WriteFileOpenEffect ==
    ASSUME TypeInv, FileInv, ControlInv, write_file_open
    PROVE  /\ ctl.pc = "mutate" /\ ctl.verb = "fs.write" /\ ctl.path \in Paths /\ engine # 0
           /\ ctl' \in Controls
           /\ ctl'.verb = ctl.verb /\ ctl'.path = ctl.path /\ ctl'.dest = ctl.dest /\ ctl'.before = ctl.before
           /\ \/ file[ctl.path] # Nil /\ UNCHANGED <<file, top>>
              \/ file[ctl.path] = Nil /\ NewVersion(ctl.path, top + 1, {})
           /\ \/ /\ ctl'.pc = "write" /\ ctl'.num = nextHandle /\ UNCHANGED faults
                 /\ \E h \in Handles : HandleAdded(h) /\ h.path = ctl.path
              \/ ctl'.pc = "report" /\ faults' = faults + 1 /\ UNCHANGED <<handles, nextHandle>>
           /\ UNCHANGED <<engine, born, opens, cache, lookup, creating, requests,
                          acked, stray, unseen, blind, foreign>>
<1>1. /\ ctl.pc = "mutate" /\ ctl.verb = "fs.write"
      /\ \/ file[ctl.path] # Nil /\ UNCHANGED <<file, top>>
         \/ file[ctl.path] = Nil /\ Publish(ctl.path, top + 1, {})
      /\ \/ /\ KeepHandle(ctl.path, file'[ctl.path], "w") /\ UNCHANGED faults
            /\ ctl' = [ctl EXCEPT !.pc = "write", !.num = nextHandle]
         \/ /\ ctl' = [ctl EXCEPT !.pc = "report"] /\ faults' = faults + 1
            /\ UNCHANGED <<handles, nextHandle>>
      /\ UNCHANGED <<engine, born, opens, cache, lookup, creating, requests,
                     acked, stray, unseen, blind, foreign>>
    BY DEF write_file_open, Goto, Fails, Exists, kernel, history
<1>2. ctl.path \in Paths /\ ctl.path \in Names /\ engine # 0
    BY <1>1, FileFacts DEF ControlInv, FileVerbs
<1>3. Publish(ctl.path, top + 1, {}) => NewVersion(ctl.path, top + 1, {})
    BY <1>2, CreateEffect
<1>4. file'[ctl.path] \in Files \cup {Nil}
    BY <1>1, <1>2, <1>3, FileFacts DEF NewVersion
<1>5. KeepHandle(ctl.path, file'[ctl.path], "w") => \E h \in Handles : HandleAdded(h) /\ h.path = ctl.path
    BY <1>2, <1>4, KeepHandleEffect
<1>6. ctl \in Controls /\ nextHandle \in Nat /\ "write" \in ControlSteps /\ "report" \in ControlSteps
    BY DEF TypeInv, ControlTypes, HandleTypes, ControlSteps
<1>7. ctl' = [ctl EXCEPT !.pc = "write", !.num = nextHandle] =>
        /\ ctl' \in Controls /\ ctl'.pc = "write" /\ ctl'.num = nextHandle
        /\ ctl'.verb = ctl.verb /\ ctl'.path = ctl.path /\ ctl'.dest = ctl.dest /\ ctl'.before = ctl.before
    BY ONLY <1>6 DEF Controls
<1>8. ctl' = [ctl EXCEPT !.pc = "report"] =>
        /\ ctl' \in Controls /\ ctl'.pc = "report"
        /\ ctl'.verb = ctl.verb /\ ctl'.path = ctl.path /\ ctl'.dest = ctl.dest /\ ctl'.before = ctl.before
    BY ONLY <1>6 DEF Controls
<1>9. QED BY <1>1, <1>2, <1>3, <1>5, <1>7, <1>8

(* fs.write writes, and closes its handle whatever happened. *)
LEMMA WriteFileWriteEffect ==
    ASSUME TypeInv, FileInv, ControlInv, write_file_write
    PROVE  /\ ctl.pc = "write" /\ ctl.verb = "fs.write" /\ ctl.path \in Paths /\ engine # 0
           /\ ctl' \in Controls /\ ctl'.pc \in {"trim", "report"}
           /\ ctl'.verb = ctl.verb /\ ctl'.path = ctl.path /\ ctl'.dest = ctl.dest /\ ctl'.before = ctl.before
           /\ handles' = handles \ Handle(ctl.num) /\ handles' \subseteq Handles
           /\ \A k \in handles' : k.num < nextHandle /\ {j \in handles' : j.num = k.num} = {k}
           /\ faults' \in {faults, faults + 1}
           /\ \/ UNCHANGED <<file, top, acked>>
              \/ \E h \in Handle(ctl.num) :
                   /\ h.path \in Names /\ file[h.path] # Nil /\ file[h.path].obj \in Inodes
                   /\ NewVersion(h.path, file[h.path].obj, file[h.path].text \cup {top'})
                   /\ \/ acked' = [acked EXCEPT ![file[h.path].obj] = acked[file[h.path].obj] \cup {top'}]
                      \/ UNCHANGED acked
           /\ UNCHANGED <<engine, born, nextHandle, opens, cache, lookup, creating,
                          requests, stray, unseen, blind, foreign>>
<1>1. /\ ctl.pc = "write" /\ handles' = handles \ Handle(ctl.num)
      /\ \/ /\ \E h \in Handle(ctl.num) :
                 write_handle(h) /\ acked' = [acked EXCEPT ![file[h.path].obj] = @ \cup {top'}]
            /\ ctl' \in {[ctl EXCEPT !.pc = "trim", !.num = top'], [ctl EXCEPT !.pc = "report"]}
            /\ UNCHANGED faults
         \/ /\ \E h \in Handle(ctl.num) : write_handle(h)
            /\ ctl' = [ctl EXCEPT !.pc = "report"] /\ faults' = faults + 1 /\ UNCHANGED acked
         \/ ctl' = [ctl EXCEPT !.pc = "report"] /\ UNCHANGED <<file, top, faults, acked>>
      /\ UNCHANGED <<engine, born, nextHandle, opens, cache, lookup, creating,
                     requests, stray, unseen, blind, foreign>>
    BY DEF write_file_write, write_file_close, Goto, Fails, kernel
<1>2. ctl.verb = "fs.write" /\ ctl.path \in Paths /\ engine # 0
    BY <1>1 DEF ControlInv, FileVerbs
<1>3. /\ handles' \subseteq Handles
      /\ \A k \in handles' : k.num < nextHandle /\ {j \in handles' : j.num = k.num} = {k}
    BY <1>1, CloseEffect
<1>4. ASSUME NEW h \in Handle(ctl.num), write_handle(h)
      PROVE  /\ h.path \in Names /\ file[h.path] # Nil /\ file[h.path].obj \in Inodes
             /\ NewVersion(h.path, file[h.path].obj, file[h.path].text \cup {top'})
             /\ top' \in Nat
    <2>1. h \in handles
        BY DEF Handle
    <2>2. QED BY <1>4, <2>1, WriteEffect DEF NewVersion
<1>5. ctl \in Controls /\ "trim" \in ControlSteps /\ "report" \in ControlSteps
    BY DEF TypeInv, ControlTypes, ControlSteps
<1>6. ctl' = [ctl EXCEPT !.pc = "trim", !.num = top'] /\ top' \in Nat =>
        /\ ctl' \in Controls /\ ctl'.pc = "trim"
        /\ ctl'.verb = ctl.verb /\ ctl'.path = ctl.path /\ ctl'.dest = ctl.dest /\ ctl'.before = ctl.before
    BY ONLY <1>5 DEF Controls
<1>7. ctl' = [ctl EXCEPT !.pc = "report"] =>
        /\ ctl' \in Controls /\ ctl'.pc = "report"
        /\ ctl'.verb = ctl.verb /\ ctl'.path = ctl.path /\ ctl'.dest = ctl.dest /\ ctl'.before = ctl.before
    BY ONLY <1>5 DEF Controls
<1>8. QED BY <1>1, <1>2, <1>3, <1>4, <1>6, <1>7

(* The name whose cached state a report is about. *)
Reported == IF ctl.pc = "report2" THEN ctl.dest ELSE ctl.path

(* A report voids the attributes the kernel has of the name, and goes on to  *)
(* drop the entry if the name is not what it was.                            *)
LEMMA ReportEffect ==
    ASSUME TypeInv, FileInv, ControlInv, report_filesystem_mutation
    PROVE  /\ ctl.pc \in {"report", "report2"} /\ ctl.verb \in FileVerbs
           /\ ctl.path \in Paths /\ ctl.dest \in Paths /\ engine # 0
           /\ \/ AttrsForgotten(Reported) /\ ReplyVoided(Reported) /\ UNCHANGED unseen
              \/ /\ cache[Reported] = NoEntry /\ UNCHANGED <<cache, lookup>>
                 /\ unseen' = IF lookup.path = Reported THEN unseen \cup {Reported} ELSE unseen
           /\ ctl' \in Controls
           /\ \/ /\ ctl.verb \in NameVerbs /\ ctl'.pc = (IF ctl.pc = "report2" THEN "drop2" ELSE "drop")
                 /\ ctl'.verb = ctl.verb /\ ctl'.path = ctl.path /\ ctl'.dest = ctl.dest
              \/ /\ ctl.verb = "fs.mv" /\ ctl.pc = "report" /\ ctl'.pc = "report2"
                 /\ ctl'.verb = ctl.verb /\ ctl'.path = ctl.path /\ ctl'.dest = ctl.dest
                 /\ ctl.path # ctl.dest => file[ctl.path].ino = ctl.before
              \/ /\ ctl' = Idle
                 /\ ctl.verb = "fs.rm" => file[ctl.path].ino = ctl.before
                 /\ ctl.verb = "fs.mv" => ctl.pc = "report2"
           /\ UNCHANGED <<engine, born, file, top, handles, nextHandle, opens, creating,
                          requests, faults, acked, stray, blind, foreign>>
<1> DEFINE second == ctl.pc = "report2"
           unlinked == /\ ctl.verb = "fs.rm" \/ (ctl.verb = "fs.mv" /\ ctl.path # ctl.dest)
                       /\ Unlinked(Reported, IF second THEN ctl.before2 ELSE ctl.before)
<1>1. /\ ctl.pc \in {"report", "report2"} /\ invalidate_attributes(Reported)
      /\ ctl' = IF unlinked THEN [ctl EXCEPT !.pc = IF second THEN "drop2" ELSE "drop", !.before = 0]
                ELSE IF ctl.verb = "fs.mv" /\ ~second THEN [ctl EXCEPT !.pc = "report2", !.before = 0]
                ELSE Idle
      /\ UNCHANGED <<engine, born, file, top, handles, nextHandle, opens, creating,
                     requests, faults, acked, stray, blind, foreign>>
    BY DEF report_filesystem_mutation, Reported, daemon
<1>2. /\ ctl.verb \in FileVerbs /\ ctl.path \in Paths /\ ctl.dest \in Paths /\ engine # 0
      /\ ctl.pc = "report2" => ctl.verb = "fs.mv"
    BY <1>1 DEF ControlInv, FileVerbs, NameVerbs, TypeInv, ControlTypes, Controls
<1>3. \/ AttrsForgotten(Reported) /\ ReplyVoided(Reported) /\ UNCHANGED unseen
      \/ /\ cache[Reported] = NoEntry /\ UNCHANGED <<cache, lookup>>
         /\ unseen' = IF lookup.path = Reported THEN unseen \cup {Reported} ELSE unseen
    BY <1>1, ForgottenEffect, VoidedEffect DEF invalidate_attributes, Known
<1>4. ctl \in Controls /\ {"drop", "drop2", "report2"} \subseteq ControlSteps /\ 0 \in 0 .. MaxInodes
    BY FileFacts DEF TypeInv, ControlTypes, ControlSteps
<1>5. CASE unlinked
    <2>1. ctl' = [ctl EXCEPT !.pc = IF second THEN "drop2" ELSE "drop", !.before = 0]
        BY <1>1, <1>5
    <2>2. /\ ctl' \in Controls /\ ctl'.pc = (IF second THEN "drop2" ELSE "drop")
          /\ ctl'.verb = ctl.verb /\ ctl'.path = ctl.path /\ ctl'.dest = ctl.dest
        <3> DEFINE next == IF second THEN "drop2" ELSE "drop"
        <3>1. next \in ControlSteps /\ ctl' = [ctl EXCEPT !.pc = next, !.before = 0]
            BY <1>4, <2>1
        <3> HIDE DEF next
        <3>2. /\ ctl' \in Controls /\ ctl'.pc = next
              /\ ctl'.verb = ctl.verb /\ ctl'.path = ctl.path /\ ctl'.dest = ctl.dest
            BY ONLY <1>4, <3>1 DEF Controls
        <3>3. QED BY <3>2 DEF next
    <2>3. QED BY <1>1, <1>2, <1>3, <1>5, <2>2 DEF NameVerbs
<1>6. CASE ~unlinked /\ ctl.verb = "fs.mv" /\ ~second
    <2>1. ctl' = [ctl EXCEPT !.pc = "report2", !.before = 0]
        BY <1>1, <1>6
    <2>2. /\ ctl' \in Controls /\ ctl'.pc = "report2"
          /\ ctl'.verb = ctl.verb /\ ctl'.path = ctl.path /\ ctl'.dest = ctl.dest
        BY ONLY <1>4, <2>1 DEF Controls
    <2>3. ctl.path # ctl.dest => file[ctl.path].ino = ctl.before
        BY <1>6 DEF Unlinked, find_path_inode, Reported
    <2>4. QED BY <1>1, <1>2, <1>3, <1>6, <2>2, <2>3
<1>7. CASE ~unlinked /\ ~(ctl.verb = "fs.mv" /\ ~second)
    <2>1. ctl' = Idle
        BY <1>1, <1>7
    <2>2. Idle \in Controls
        BY <1>4 DEF Idle, Controls, ControlSteps
    <2>3. ctl.verb = "fs.rm" => file[ctl.path].ino = ctl.before
        BY <1>2, <1>7 DEF Unlinked, find_path_inode, Reported
    <2>4. QED BY <1>1, <1>2, <1>3, <1>7, <2>1, <2>2, <2>3
<1>8. QED BY <1>5, <1>6, <1>7

(* The Workspace is removed: its entry is dropped next. *)
LEMMA RemoveEffect ==
    ASSUME TypeInv, remove_workspace
    PROVE  /\ ctl = Idle /\ engine # 0 /\ engine' = 0 /\ handles' = {} /\ requests' = requests + 1
           /\ file' = [p \in Names |-> Nil]
           /\ ctl' \in Controls /\ ctl'.pc = "drop" /\ ctl'.verb = "ws.remove"
           /\ UNCHANGED <<born, top, nextHandle, opens, cache, lookup, creating, faults,
                          acked, stray, unseen, blind, foreign>>
<1>1. /\ ctl = Idle /\ engine # 0 /\ engine' = 0 /\ handles' = {} /\ requests' = requests + 1
      /\ file' = [p \in Names |-> Nil]
      /\ ctl' = [Idle EXCEPT !.pc = "drop", !.verb = "ws.remove"]
      /\ UNCHANGED <<born, top, nextHandle, opens, cache, lookup, creating, faults,
                     acked, stray, unseen, blind, foreign>>
    BY DEF remove_workspace, kernel, history
<1>2. ctl' = [pc |-> "drop", verb |-> "ws.remove", path |-> None, dest |-> None,
              before |-> 0, before2 |-> 0, num |-> 0]
    BY ONLY <1>1 DEF Idle
<1>3. MaxInodes \in Nat
    BY MountAssumption
<1>4. QED BY <1>1, <1>2, <1>3 DEF Controls, ControlSteps

(* Dropping an entry: of a name, under the lock of its directory, or of a    *)
(* Workspace, with the names inside that nobody uses.                        *)
LEMMA DropEffect ==
    ASSUME TypeInv, ControlInv, drop_entry \/ drop_workspace_entry
    PROVE  /\ ctl.pc \in {"drop", "drop2"} /\ ctl.verb \in NameVerbs \cup {"ws.remove"}
           /\ IF ctl.verb = "ws.remove"
              THEN /\ cache' = [p \in Paths |-> IF IsOpen(p) THEN cache[p] ELSE NoEntry]
                   /\ blind' = blind \cup {p \in Paths : InUse(p)} /\ ctl' = Idle
              ELSE /\ ctl.path \in Paths /\ ctl.dest \in Paths /\ ~DirLocked /\ UNCHANGED blind
                   /\ cache' = [cache EXCEPT ![IF ctl.pc = "drop2" THEN ctl.dest ELSE ctl.path] = NoEntry]
                   /\ \/ /\ ctl.verb = "fs.mv" /\ ctl.pc = "drop" /\ ctl'.pc = "report2"
                         /\ ctl'.verb = ctl.verb /\ ctl'.path = ctl.path /\ ctl'.dest = ctl.dest
                      \/ ctl' = Idle /\ (ctl.verb = "fs.mv" => ctl.pc = "drop2")
           /\ ctl' \in Controls
           /\ UNCHANGED <<engine, born, file, top, handles, nextHandle, opens, lookup, creating,
                          requests, faults, acked, stray, unseen, foreign>>
<1>1. ctl \in Controls /\ "report2" \in ControlSteps /\ Idle \in Controls
    BY MountAssumption DEF TypeInv, ControlTypes, Idle, Controls, ControlSteps
<1>2. CASE drop_entry
    <2>1. /\ ctl.pc \in {"drop", "drop2"} /\ ctl.verb # "ws.remove" /\ ~DirLocked
          /\ cache' = [cache EXCEPT ![IF ctl.pc = "drop2" THEN ctl.dest ELSE ctl.path] = NoEntry]
          /\ ctl' = IF ctl.verb = "fs.mv" /\ ctl.pc = "drop" THEN [ctl EXCEPT !.pc = "report2"] ELSE Idle
          /\ UNCHANGED <<engine, born, file, top, handles, nextHandle, opens, lookup, creating,
                         requests, faults, acked, stray, unseen, blind, foreign>>
        BY <1>2 DEF drop_entry, daemon, history
    <2>2. ctl' = [ctl EXCEPT !.pc = "report2"] =>
            /\ ctl' \in Controls /\ ctl'.pc = "report2"
            /\ ctl'.verb = ctl.verb /\ ctl'.path = ctl.path /\ ctl'.dest = ctl.dest
        BY ONLY <1>1 DEF Controls
    <2>3. ctl.verb \in NameVerbs /\ ctl.path \in Paths /\ ctl.dest \in Paths
        BY <2>1 DEF ControlInv, NameVerbs, FileVerbs
    <2>4. QED BY <1>1, <2>1, <2>2, <2>3
<1>3. CASE drop_workspace_entry
    BY <1>1, <1>3 DEF drop_workspace_entry, daemon
<1>4. QED BY <1>2, <1>3

-----------------------------------------------------------------------------
(* Each part of the inductive invariant is kept by every step. *)

(* Every step keeps the types of the files and of the acknowledged writes. *)
LEMMA FileTypesStep ==
    TypeInv /\ ControlInv /\ FileInv /\ [Next]_vars => FileTypes'
<1> SUFFICES ASSUME TypeInv, ControlInv, FileInv, [Next]_vars PROVE FileTypes'
    OBVIOUS
<1> USE FileFacts, FreshFiles DEF TypeInv, FileTypes, Shortened, NewVersion, Relocated, Gone, HalfGone, HalfMoved, daemon, kernel, control, history
<1>1. ASSUME NEW p \in Paths, tri_getattr(p)
      PROVE  FileTypes'
    BY <1>1 DEF tri_getattr
<1>2. ASSUME NEW p \in Paths, Expire(p)
      PROVE  FileTypes'
    BY <1>2 DEF Expire
<1>3. ASSUME NEW p \in Paths, NEW mode \in Modes, tri_open(p, mode)
      PROVE  FileTypes'
    BY <1>3, OpenEffect
<1>4. ASSUME NEW p \in Paths, tri_create(p)
      PROVE  FileTypes'
    BY <1>4, CreateFileEffect
<1>5. ASSUME NEW p \in Paths, tri_unlink(p)
      PROVE  FileTypes'
    BY <1>5, UnlinkEffect
<1>6. ASSUME NEW p \in Paths, tri_truncate(p)
      PROVE  FileTypes'
    BY <1>6, CutEffect
<1>7. ASSUME NEW p \in Paths, NEW q \in Paths, tri_rename(p, q)
      PROVE  FileTypes'
    BY <1>7, RenameEffect
<1>8. ASSUME NEW p \in Paths, NEW q \in Paths, NEW verb \in Verbs, dispatch_filesystem_request(verb, p, q)
      PROVE  FileTypes'
    BY <1>8, DispatchEffect
<1>9. CASE Reply
    BY <1>9 DEF Reply, InFlight
<1>10. CASE tri_create_open
    BY <1>10, CreateOpenEffect
<1>11. ASSUME NEW o \in opens, tri_write(o)
      PROVE  FileTypes'
    <2>1. PICK h \in handles, g \in Handles : ToolWrote(o, h, g)
        BY <1>11, ToolWriteEffect
    <2>2. QED BY <1>11, <2>1, ToolWriteEffect DEF ToolWrote
<1>12. ASSUME NEW o \in opens, tri_release(o)
      PROVE  FileTypes'
    BY <1>12, ReleaseEffect
<1>13. CASE mutate_names
    BY <1>13, MutateNamesEffect
<1>14. CASE mutate_contents \/ trim
    BY <1>14, MutateContentsEffect
<1>15. CASE write_file_open
    BY <1>15, WriteFileOpenEffect
<1>16. CASE write_file_write
    BY <1>16, WriteFileWriteEffect
<1>17. CASE report_filesystem_mutation
    BY <1>17, ReportEffect
<1>18. CASE drop_entry \/ drop_workspace_entry
    BY <1>18, DropEffect
<1>19. CASE remove_workspace
    BY <1>19, RemoveEffect
<1>20. CASE create_workspace
    BY <1>20 DEF create_workspace
<1>21. CASE UNCHANGED vars
    BY <1>21 DEF vars
<1>22. QED
    BY <1>1, <1>2, <1>3, <1>4, <1>5, <1>6, <1>7, <1>8, <1>9, <1>10, <1>11, <1>12, <1>13, <1>14, <1>15, <1>16, <1>17, <1>18, <1>19, <1>20, <1>21
       DEF Next

(* Every step keeps the types and the numbers of the handles. *)
LEMMA HandleTypesStep ==
    TypeInv /\ ControlInv /\ FileInv /\ [Next]_vars => HandleTypes'
<1> SUFFICES ASSUME TypeInv, ControlInv, FileInv, [Next]_vars PROVE HandleTypes'
    OBVIOUS
<1> USE DEF TypeInv, HandleTypes, Handle, HandleAdded, daemon, kernel, control, history
<1>1. ASSUME NEW p \in Paths, tri_getattr(p)
      PROVE  HandleTypes'
    BY <1>1 DEF tri_getattr
<1>2. ASSUME NEW p \in Paths, Expire(p)
      PROVE  HandleTypes'
    BY <1>2 DEF Expire
<1>3. ASSUME NEW p \in Paths, NEW mode \in Modes, tri_open(p, mode)
      PROVE  HandleTypes'
    BY <1>3, OpenEffect
<1>4. ASSUME NEW p \in Paths, tri_create(p)
      PROVE  HandleTypes'
    BY <1>4, CreateFileEffect
<1>5. ASSUME NEW p \in Paths, tri_unlink(p)
      PROVE  HandleTypes'
    BY <1>5, UnlinkEffect
<1>6. ASSUME NEW p \in Paths, tri_truncate(p)
      PROVE  HandleTypes'
    BY <1>6, CutEffect
<1>7. ASSUME NEW p \in Paths, NEW q \in Paths, tri_rename(p, q)
      PROVE  HandleTypes'
    BY <1>7, RenameEffect
<1>8. ASSUME NEW p \in Paths, NEW q \in Paths, NEW verb \in Verbs, dispatch_filesystem_request(verb, p, q)
      PROVE  HandleTypes'
    BY <1>8, DispatchEffect
<1>9. CASE Reply
    BY <1>9 DEF Reply, InFlight
<1>10. CASE tri_create_open
    BY <1>10, CreateOpenEffect
<1>11. ASSUME NEW o \in opens, tri_write(o)
      PROVE  HandleTypes'
    <2>1. PICK h \in handles, g \in Handles : ToolWrote(o, h, g)
        BY <1>11, ToolWriteEffect
    <2>2. QED BY <1>11, <2>1, ToolWriteEffect DEF ToolWrote
<1>12. ASSUME NEW o \in opens, tri_release(o)
      PROVE  HandleTypes'
    BY <1>12, ReleaseEffect
<1>13. CASE mutate_names
    BY <1>13, MutateNamesEffect
<1>14. CASE mutate_contents \/ trim
    BY <1>14, MutateContentsEffect
<1>15. CASE write_file_open
    BY <1>15, WriteFileOpenEffect
<1>16. CASE write_file_write
    BY <1>16, WriteFileWriteEffect
<1>17. CASE report_filesystem_mutation
    BY <1>17, ReportEffect
<1>18. CASE drop_entry \/ drop_workspace_entry
    BY <1>18, DropEffect
<1>19. CASE remove_workspace
    BY <1>19, RemoveEffect
<1>20. CASE create_workspace
    BY <1>20 DEF create_workspace, ControlInv
<1>21. CASE UNCHANGED vars
    BY <1>21 DEF vars
<1>22. QED
    BY <1>1, <1>2, <1>3, <1>4, <1>5, <1>6, <1>7, <1>8, <1>9, <1>10, <1>11, <1>12, <1>13, <1>14, <1>15, <1>16, <1>17, <1>18, <1>19, <1>20, <1>21
       DEF Next

(* Every step keeps the types of the open files. *)
LEMMA OpenTypesStep ==
    TypeInv /\ ControlInv /\ FileInv /\ [Next]_vars => OpenTypes'
<1> SUFFICES ASSUME TypeInv, ControlInv, FileInv, [Next]_vars PROVE OpenTypes'
    OBVIOUS
<1> USE FileFacts DEF TypeInv, FileTypes, ControlTypes, OpenTypes, OpenFiles, Inodes, FileOpened, NodesMoved, Shortened, NewVersion, Relocated, Gone, HalfGone, HalfMoved, daemon, kernel, control, history
<1>1. ASSUME NEW p \in Paths, tri_getattr(p)
      PROVE  OpenTypes'
    BY <1>1 DEF tri_getattr
<1>2. ASSUME NEW p \in Paths, Expire(p)
      PROVE  OpenTypes'
    BY <1>2 DEF Expire
<1>3. ASSUME NEW p \in Paths, NEW mode \in Modes, tri_open(p, mode)
      PROVE  OpenTypes'
    <2>1. top' >= top /\ top' \in Nat /\ file'[p].obj =< top'
        BY <1>3, OpenEffect, SMTT(30)
    <2>2. UNCHANGED opens \/ \E o \in OpenFiles : opens' = opens \cup {o} /\ o.obj = file'[p].obj /\ o.last = 0
        BY <1>3, OpenEffect
    <2>3. QED BY <2>1, <2>2
<1>4. ASSUME NEW p \in Paths, tri_create(p)
      PROVE  OpenTypes'
    BY <1>4, CreateFileEffect, SMTT(30)
<1>5. ASSUME NEW p \in Paths, tri_unlink(p)
      PROVE  OpenTypes'
    BY <1>5, UnlinkEffect, SMTT(30)
<1>6. ASSUME NEW p \in Paths, tri_truncate(p)
      PROVE  OpenTypes'
    BY <1>6, CutEffect
<1>7. ASSUME NEW p \in Paths, NEW q \in Paths, tri_rename(p, q)
      PROVE  OpenTypes'
    BY <1>7, RenameEffect
<1>8. ASSUME NEW p \in Paths, NEW q \in Paths, NEW verb \in Verbs, dispatch_filesystem_request(verb, p, q)
      PROVE  OpenTypes'
    BY <1>8, DispatchEffect, SMTT(30)
<1>9. CASE Reply
    BY <1>9 DEF Reply, InFlight
<1>10. CASE tri_create_open
    BY <1>10, CreateOpenEffect, SMTT(30)
<1>11. ASSUME NEW o \in opens, tri_write(o)
      PROVE  OpenTypes'
    <2>1. PICK h \in handles, g \in Handles : ToolWrote(o, h, g)
        BY <1>11, ToolWriteEffect
    <2>2. top' = top + 1 /\ top \in Nat
        BY <2>1 DEF ToolWrote
    <2>3. \/ UNCHANGED opens
          \/ \E q \in OpenFiles : opens' = (opens \ {o}) \cup {q} /\ q.last = top' /\ q.obj = o.obj
        BY <2>1 DEF ToolWrote
    <2>4. /\ opens \subseteq OpenFiles
          /\ \A r \in opens : r.last \in Nat /\ r.last =< top /\ r.obj \in Nat /\ r.obj =< top
        OBVIOUS
    <2>5. QED BY ONLY <2>2, <2>3, <2>4, o \in opens DEF OpenTypes
<1>12. ASSUME NEW o \in opens, tri_release(o)
      PROVE  OpenTypes'
    BY <1>12, ReleaseEffect
<1>13. CASE mutate_names
    <2>1. top' \in {top, top + 1, top + 2} /\ UNCHANGED opens
        BY <1>13, MutateNamesEffect
    <2>2. QED BY <2>1
<1>14. CASE mutate_contents \/ trim
    BY <1>14, MutateContentsEffect
<1>15. CASE write_file_open
    BY <1>15, WriteFileOpenEffect
<1>16. CASE write_file_write
    BY <1>16, WriteFileWriteEffect
<1>17. CASE report_filesystem_mutation
    BY <1>17, ReportEffect
<1>18. CASE drop_entry \/ drop_workspace_entry
    BY <1>18, DropEffect
<1>19. CASE remove_workspace
    BY <1>19, RemoveEffect
<1>20. CASE create_workspace
    BY <1>20 DEF create_workspace
<1>21. CASE UNCHANGED vars
    BY <1>21 DEF vars
<1>22. QED
    BY <1>1, <1>2, <1>3, <1>4, <1>5, <1>6, <1>7, <1>8, <1>9, <1>10, <1>11, <1>12, <1>13, <1>14, <1>15, <1>16, <1>17, <1>18, <1>19, <1>20, <1>21
       DEF Next

(* Every step keeps the types of what the kernel has. *)
LEMMA KernelTypesStep ==
    TypeInv /\ ControlInv /\ FileInv /\ [Next]_vars => KernelTypes'
<1> SUFFICES ASSUME TypeInv, ControlInv, FileInv, [Next]_vars PROVE KernelTypes'
    OBVIOUS
<1> USE MountAssumption, FileFacts DEF TypeInv, KernelTypes, AttrsForgotten, ReplyVoided, LookUps, NoLookup, find_path_inode, Inodes, NoEntry, NoAttr, Shortened, NewVersion, Exists, daemon, kernel, control, history
<1>1. ASSUME NEW p \in Paths, tri_getattr(p)
      PROVE  KernelTypes'
    <2>1. file[p].ino \in Inodes /\ file[p].ino \in 0 .. MaxInodes /\ (cache[p] = NoEntry) \in BOOLEAN
        BY <1>1, FileFacts DEF tri_getattr
    <2>2. CASE cache' = [cache EXCEPT ![p] = find_path_inode(p)] /\ UNCHANGED lookup
        BY <1>1, <2>1, <2>2 DEF tri_getattr
    <2>3. CASE /\ lookup' = [path |-> p, ino |-> find_path_inode(p), dir |-> cache[p] = NoEntry]
               /\ UNCHANGED cache
        <3>1. lookup' \in LookUps
            BY <2>1, <2>3
        <3>2. QED BY <1>1, <2>3, <3>1 DEF tri_getattr
    <2>4. QED BY <1>1, <2>2, <2>3 DEF tri_getattr
<1>2. ASSUME NEW p \in Paths, Expire(p)
      PROVE  KernelTypes'
    BY <1>2 DEF Expire
<1>3. ASSUME NEW p \in Paths, NEW mode \in Modes, tri_open(p, mode)
      PROVE  KernelTypes'
    BY <1>3, OpenEffect
<1>4. ASSUME NEW p \in Paths, tri_create(p)
      PROVE  KernelTypes'
    BY <1>4, CreateFileEffect
<1>5. ASSUME NEW p \in Paths, tri_unlink(p)
      PROVE  KernelTypes'
    BY <1>5, UnlinkEffect
<1>6. ASSUME NEW p \in Paths, tri_truncate(p)
      PROVE  KernelTypes'
    BY <1>6, CutEffect
<1>7. ASSUME NEW p \in Paths, NEW q \in Paths, tri_rename(p, q)
      PROVE  KernelTypes'
    BY <1>7, RenameEffect
<1>8. ASSUME NEW p \in Paths, NEW q \in Paths, NEW verb \in Verbs, dispatch_filesystem_request(verb, p, q)
      PROVE  KernelTypes'
    BY <1>8, DispatchEffect
<1>9. CASE Reply
    <2>1. NoLookup \in LookUps
        BY FileFacts
    <2>2. lookup \in LookUps /\ lookup.ino \in {NoEntry, NoAttr} \cup Inodes
        BY FileFacts
    <2>3. lookup' = NoLookup /\ UNCHANGED creating
          /\ \/ UNCHANGED cache
             \/ cache' = [cache EXCEPT ![lookup.path] = lookup.ino]
        BY <1>9 DEF Reply
    <2>4. cache' \in [Paths -> {NoEntry, NoAttr} \cup Inodes]
        BY <2>2, <2>3
    <2>5. QED BY <2>1, <2>3, <2>4
<1>10. CASE tri_create_open
    BY <1>10, CreateOpenEffect
<1>11. ASSUME NEW o \in opens, tri_write(o)
      PROVE  KernelTypes'
    <2>1. PICK h \in handles, g \in Handles : ToolWrote(o, h, g)
        BY <1>11, ToolWriteEffect
    <2>2. QED BY <1>11, <2>1, ToolWriteEffect DEF ToolWrote
<1>12. ASSUME NEW o \in opens, tri_release(o)
      PROVE  KernelTypes'
    BY <1>12, ReleaseEffect
<1>13. CASE mutate_names
    BY <1>13, MutateNamesEffect
<1>14. CASE mutate_contents \/ trim
    BY <1>14, MutateContentsEffect
<1>15. CASE write_file_open
    BY <1>15, WriteFileOpenEffect
<1>16. CASE write_file_write
    BY <1>16, WriteFileWriteEffect
<1>17. CASE report_filesystem_mutation
    BY <1>17, ReportEffect
<1>18. CASE drop_entry \/ drop_workspace_entry
    BY <1>18, DropEffect
<1>19. CASE remove_workspace
    BY <1>19, RemoveEffect
<1>20. CASE create_workspace
    BY <1>20 DEF create_workspace
<1>21. CASE UNCHANGED vars
    BY <1>21 DEF vars
<1>22. QED
    BY <1>1, <1>2, <1>3, <1>4, <1>5, <1>6, <1>7, <1>8, <1>9, <1>10, <1>11, <1>12, <1>13, <1>14, <1>15, <1>16, <1>17, <1>18, <1>19, <1>20, <1>21
       DEF Next

(* Every step keeps the types of the request under way and of the counters. *)
LEMMA ControlTypesStep ==
    TypeInv /\ ControlInv /\ FileInv /\ [Next]_vars => ControlTypes'
<1> SUFFICES ASSUME TypeInv, ControlInv, FileInv, [Next]_vars PROVE ControlTypes'
    OBVIOUS
<1> USE MountAssumption DEF TypeInv, ControlTypes, NextStep, daemon, kernel, control, history
<1>1. ASSUME NEW p \in Paths, tri_getattr(p)
      PROVE  ControlTypes'
    BY <1>1 DEF tri_getattr
<1>2. ASSUME NEW p \in Paths, Expire(p)
      PROVE  ControlTypes'
    BY <1>2 DEF Expire
<1>3. ASSUME NEW p \in Paths, NEW mode \in Modes, tri_open(p, mode)
      PROVE  ControlTypes'
    BY <1>3, OpenEffect
<1>4. ASSUME NEW p \in Paths, tri_create(p)
      PROVE  ControlTypes'
    BY <1>4, CreateFileEffect
<1>5. ASSUME NEW p \in Paths, tri_unlink(p)
      PROVE  ControlTypes'
    BY <1>5, UnlinkEffect
<1>6. ASSUME NEW p \in Paths, tri_truncate(p)
      PROVE  ControlTypes'
    BY <1>6, CutEffect
<1>7. ASSUME NEW p \in Paths, NEW q \in Paths, tri_rename(p, q)
      PROVE  ControlTypes'
    BY <1>7, RenameEffect
<1>8. ASSUME NEW p \in Paths, NEW q \in Paths, NEW verb \in Verbs, dispatch_filesystem_request(verb, p, q)
      PROVE  ControlTypes'
    BY <1>8, DispatchEffect
<1>9. CASE Reply
    BY <1>9 DEF Reply, InFlight
<1>10. CASE tri_create_open
    BY <1>10, CreateOpenEffect
<1>11. ASSUME NEW o \in opens, tri_write(o)
      PROVE  ControlTypes'
    <2>1. PICK h \in handles, g \in Handles : ToolWrote(o, h, g)
        BY <1>11, ToolWriteEffect
    <2>2. QED BY <1>11, <2>1, ToolWriteEffect DEF ToolWrote
<1>12. ASSUME NEW o \in opens, tri_release(o)
      PROVE  ControlTypes'
    BY <1>12, ReleaseEffect
<1>13. CASE mutate_names
    BY <1>13, MutateNamesEffect
<1>14. CASE mutate_contents \/ trim
    BY <1>14, MutateContentsEffect
<1>15. CASE write_file_open
    BY <1>15, WriteFileOpenEffect
<1>16. CASE write_file_write
    BY <1>16, WriteFileWriteEffect
<1>17. CASE report_filesystem_mutation
    BY <1>17, ReportEffect
<1>18. CASE drop_entry \/ drop_workspace_entry
    BY <1>18, DropEffect
<1>19. CASE remove_workspace
    BY <1>19, RemoveEffect
<1>20. CASE create_workspace
    BY <1>20 DEF create_workspace
<1>21. CASE UNCHANGED vars
    BY <1>21 DEF vars
<1>22. QED
    BY <1>1, <1>2, <1>3, <1>4, <1>5, <1>6, <1>7, <1>8, <1>9, <1>10, <1>11, <1>12, <1>13, <1>14, <1>15, <1>16, <1>17, <1>18, <1>19, <1>20, <1>21
       DEF Next

(* Every step keeps the shape of the request under way. *)
LEMMA ControlStep ==
    TypeInv /\ ControlInv /\ FileInv /\ [Next]_vars => ControlInv'
<1> SUFFICES ASSUME TypeInv, ControlInv, FileInv, [Next]_vars PROVE ControlInv'
    OBVIOUS
<1> USE MountAssumption, FileFacts DEF ControlInv, TypeInv, KernelTypes, ControlTypes, Controls, LookUps, NoLookup, Idle, NextStep, ReplyVoided, FileVerbs, NameVerbs, HandleAdded, Shortened, NewVersion, Relocated, Gone, HalfGone, HalfMoved, daemon, kernel, control, history
<1>1. ASSUME NEW p \in Paths, tri_getattr(p)
      PROVE  ControlInv'
    BY <1>1 DEF tri_getattr
<1>2. ASSUME NEW p \in Paths, Expire(p)
      PROVE  ControlInv'
    BY <1>2 DEF Expire
<1>3. ASSUME NEW p \in Paths, NEW mode \in Modes, tri_open(p, mode)
      PROVE  ControlInv'
    BY <1>3, OpenEffect
<1>4. ASSUME NEW p \in Paths, tri_create(p)
      PROVE  ControlInv'
    BY <1>4, CreateFileEffect
<1>5. ASSUME NEW p \in Paths, tri_unlink(p)
      PROVE  ControlInv'
    BY <1>5, UnlinkEffect
<1>6. ASSUME NEW p \in Paths, tri_truncate(p)
      PROVE  ControlInv'
    BY <1>6, CutEffect
<1>7. ASSUME NEW p \in Paths, NEW q \in Paths, tri_rename(p, q)
      PROVE  ControlInv'
    BY <1>7, RenameEffect
<1>8. ASSUME NEW p \in Paths, NEW q \in Paths, NEW verb \in Verbs, dispatch_filesystem_request(verb, p, q)
      PROVE  ControlInv'
    BY <1>8, DispatchEffect
<1>9. CASE Reply
    BY <1>9 DEF Reply, InFlight
<1>10. CASE tri_create_open
    BY <1>10, CreateOpenEffect
<1>11. ASSUME NEW o \in opens, tri_write(o)
      PROVE  ControlInv'
    <2>1. PICK h \in handles, g \in Handles : ToolWrote(o, h, g)
        BY <1>11, ToolWriteEffect
    <2>2. /\ engine # 0 /\ foreign' = (foreign \/ o.born # engine)
          /\ AttrsForgotten(o.node) /\ ReplyVoided(o.node)
          /\ UNCHANGED <<engine, born, nextHandle, creating, ctl, requests, blind>>
        BY <1>11, ToolWriteEffect

    <2>3. o.node # None
        BY MountAssumption DEF OpenTypes, OpenFiles
    <2>4. lookup'.path = None => lookup' = lookup /\ lookup.path = None
        BY <2>2, <2>3
    <2> HIDE DEF ReplyVoided, LookUps, Controls
    <2>5. QED BY <2>2, <2>4
<1>12. ASSUME NEW o \in opens, tri_release(o)
      PROVE  ControlInv'
    BY <1>12, ReleaseEffect
<1>13. CASE mutate_names
    BY <1>13, MutateNamesEffect
<1>14. CASE mutate_contents \/ trim
    BY <1>14, MutateContentsEffect
<1>15. CASE write_file_open
    BY <1>15, WriteFileOpenEffect
<1>16. CASE write_file_write
    BY <1>16, WriteFileWriteEffect
<1>17. CASE report_filesystem_mutation
    <2>1. /\ ctl.pc \in {"report", "report2"} /\ ctl.verb \in FileVerbs
          /\ ctl.path \in Paths /\ ctl.dest \in Paths
          /\ lookup'.path = lookup.path /\ (lookup.path = None => UNCHANGED lookup)
          /\ ctl' \in Controls /\ UNCHANGED <<engine, handles, file>>
        BY <1>17, ReportEffect DEF Reported
    <2>2. \/ /\ ctl.verb \in NameVerbs /\ ctl'.pc = (IF ctl.pc = "report2" THEN "drop2" ELSE "drop")
             /\ ctl'.verb = ctl.verb /\ ctl'.path = ctl.path /\ ctl'.dest = ctl.dest
          \/ /\ ctl.verb = "fs.mv" /\ ctl'.pc = "report2"
             /\ ctl'.verb = ctl.verb /\ ctl'.path = ctl.path /\ ctl'.dest = ctl.dest
          \/ ctl' = Idle
        BY <1>17, ReportEffect
    <2>3. QED BY <2>1, <2>2
<1>18. CASE drop_entry \/ drop_workspace_entry
    BY <1>18, DropEffect
<1>19. CASE remove_workspace
    BY <1>19, RemoveEffect
<1>20. CASE create_workspace
    BY <1>20 DEF create_workspace
<1>21. CASE UNCHANGED vars
    BY <1>21 DEF vars
<1>22. QED
    BY <1>1, <1>2, <1>3, <1>4, <1>5, <1>6, <1>7, <1>8, <1>9, <1>10, <1>11, <1>12, <1>13, <1>14, <1>15, <1>16, <1>17, <1>18, <1>19, <1>20, <1>21
       DEF Next

(* Opening a file gives a new handle to a new open file. *)
LEMMA OpenKeepsOwners ==
    ASSUME TypeInv, OwnerInv, engine # 0, UNCHANGED <<engine, born, ctl, foreign>>,
           NEW h \in Handles, HandleAdded(h),
           NEW o \in OpenFiles, opens' = opens \cup {o}, o.num = nextHandle, o.born = engine
    PROVE  OwnerInv'
<1> USE DEF TypeInv, HandleTypes, ControlTypes, OpenTypes, OpenFiles, Handles, OwnerInv, HandlesOwned,
            Handle, HandleAdded
<1>1. engine \in 1 .. born
    OBVIOUS
<1>2. \A q, r \in opens' : q.num = r.num /\ q.born = r.born => q = r
    <2>1. \A q \in opens : q.born = engine => q.num # nextHandle
        OBVIOUS
    <2>2. QED BY <2>1
<1>3. \A q \in opens' : q.born \in 1 .. born /\ (q.born = engine => q.num < nextHandle')
    BY <1>1
<1>4. ctl.pc = "write" =>
         /\ ctl.num < nextHandle'
         /\ \A q \in opens' : q.born = engine => q.num # ctl.num
         /\ \A k \in handles' : k.num = ctl.num => k.path = ctl.path
    BY DEF Controls
<1>5. ~foreign => {k.num : k \in handles'} =
         {q.num : q \in {r \in opens' : r.born = engine}}
           \cup (IF ctl.pc = "write" THEN {ctl.num} ELSE {})
    <2>1. {k.num : k \in handles'} = {k.num : k \in handles} \cup {nextHandle}
        OBVIOUS
    <2>2. {q.num : q \in {r \in opens' : r.born = engine}} =
             {q.num : q \in {r \in opens : r.born = engine}} \cup {nextHandle}
        OBVIOUS
    <2>3. QED BY <2>1, <2>2
<1>6. QED BY <1>2, <1>3, <1>4, <1>5

(* Every step keeps each handle with its owner. *)
LEMMA OwnerStep ==
    TypeInv /\ ControlInv /\ FileInv /\ OwnerInv /\ [Next]_vars => OwnerInv'
<1> SUFFICES ASSUME TypeInv, ControlInv, FileInv, OwnerInv, [Next]_vars PROVE OwnerInv'
    OBVIOUS
<1> USE DEF TypeInv, HandleTypes, ControlTypes, OpenTypes, OpenFiles, Handles, ControlInv, OwnerInv, HandlesOwned, Handle, Idle, HandleAdded, FileOpened, NodesMoved, NextStep, daemon, kernel, control, history
<1>1. ASSUME NEW p \in Paths, tri_getattr(p)
      PROVE  OwnerInv'
    BY <1>1 DEF tri_getattr
<1>2. ASSUME NEW p \in Paths, Expire(p)
      PROVE  OwnerInv'
    BY <1>2 DEF Expire
<1>3. ASSUME NEW p \in Paths, NEW mode \in Modes, tri_open(p, mode)
      PROVE  OwnerInv'
    <2>0. CASE UNCHANGED <<handles, nextHandle, opens>>
        BY <1>3, <2>0, OpenEffect
    <2>1. CASE ~UNCHANGED <<handles, nextHandle, opens>>
        <3>1. engine # 0 /\ UNCHANGED <<engine, born, ctl, foreign>>
            BY <1>3, <2>1, OpenEffect
        <3>2. PICK h \in Handles : HandleAdded(h)
            BY <1>3, <2>1, OpenEffect
        <3>3. PICK o \in OpenFiles : opens' = opens \cup {o} /\ o.num = nextHandle /\ o.born = engine
            BY <1>3, <2>1, OpenEffect DEF FileOpened
        <3>4. QED BY <3>1, <3>2, <3>3, OpenKeepsOwners
    <2>2. QED BY <2>0, <2>1
<1>4. ASSUME NEW p \in Paths, tri_create(p)
      PROVE  OwnerInv'
    BY <1>4, CreateFileEffect
<1>5. ASSUME NEW p \in Paths, tri_unlink(p)
      PROVE  OwnerInv'
    BY <1>5, UnlinkEffect
<1>6. ASSUME NEW p \in Paths, tri_truncate(p)
      PROVE  OwnerInv'
    BY <1>6, CutEffect
<1>7. ASSUME NEW p \in Paths, NEW q \in Paths, tri_rename(p, q)
      PROVE  OwnerInv'
    BY <1>7, RenameEffect, SMTT(30)
<1>8. ASSUME NEW p \in Paths, NEW q \in Paths, NEW verb \in Verbs, dispatch_filesystem_request(verb, p, q)
      PROVE  OwnerInv'
    BY <1>8, DispatchEffect
<1>9. CASE Reply
    BY <1>9 DEF Reply, InFlight
<1>10. CASE tri_create_open
    <2>0. CASE UNCHANGED <<handles, nextHandle, opens>>
        BY <1>10, <2>0, CreateOpenEffect
    <2>1. CASE ~UNCHANGED <<handles, nextHandle, opens>>
        <3>1. engine # 0 /\ UNCHANGED <<engine, born, ctl, foreign>>
            BY <1>10, <2>1, CreateOpenEffect
        <3>2. PICK h \in Handles : HandleAdded(h)
            BY <1>10, <2>1, CreateOpenEffect
        <3>3. PICK o \in OpenFiles : opens' = opens \cup {o} /\ o.num = nextHandle /\ o.born = engine
            BY <1>10, <2>1, CreateOpenEffect DEF FileOpened
        <3>4. QED BY <3>1, <3>2, <3>3, OpenKeepsOwners
    <2>2. QED BY <2>0, <2>1
<1>11. ASSUME NEW o \in opens, tri_write(o)
      PROVE  OwnerInv'
    <2>1. PICK h \in handles, g \in Handles : ToolWrote(o, h, g)
        BY <1>11, ToolWriteEffect
    <2>2. /\ engine # 0 /\ foreign' = (foreign \/ o.born # engine)
          /\ AttrsForgotten(o.node) /\ ReplyVoided(o.node)
          /\ UNCHANGED <<engine, born, nextHandle, creating, ctl, requests, blind>>
        BY <1>11, ToolWriteEffect

    <2>3. \A q, r \in opens' : q.num = r.num /\ q.born = r.born => q = r
        BY <2>1 DEF ToolWrote
    <2>4. \A q \in opens' : q.born \in 1 .. born /\ (q.born = engine => q.num < nextHandle)
        BY <2>1 DEF ToolWrote
    <2>5. ctl.pc = "write" =>
             /\ \A q \in opens' : q.born = engine => q.num # ctl.num
             /\ \A k \in handles' : k.num = ctl.num => k.path = ctl.path
        BY <2>1 DEF ToolWrote
    <2>6. {k.num : k \in handles'} = {k.num : k \in handles}
        BY <2>1 DEF ToolWrote
    <2>7. {q.num : q \in {r \in opens' : r.born = engine}} = {q.num : q \in {r \in opens : r.born = engine}}
        BY <2>1 DEF ToolWrote
    <2>8. HandlesOwned'
        BY <2>2, <2>6, <2>7, ZenonT(30)
    <2> HIDE DEF HandlesOwned
    <2>9. QED BY <2>2, <2>3, <2>4, <2>5, <2>8
<1>12. ASSUME NEW o \in opens, tri_release(o)
      PROVE  OwnerInv'
    <2>1. /\ opens' = opens \ {o} /\ handles' \subseteq handles
          /\ UNCHANGED <<engine, born, nextHandle, ctl>>
        BY <1>12, ReleaseEffect
    <2>2. CASE engine = 0
        <3>1. UNCHANGED handles /\ (foreign' <=> foreign)
            BY <1>12, <2>2, ReleaseEffect
        <3>2. {r \in opens : r.born = engine} = {} /\ {r \in opens' : r.born = engine} = {}
            BY <2>1, <2>2
        <3>3. HandlesOwned'
            BY <2>1, <3>1, <3>2
        <3> HIDE DEF HandlesOwned
        <3>4. QED BY <2>1, <3>1, <3>3
    <2>3. CASE engine # 0 /\ ~foreign'
        <3>1. /\ handles' = handles \ {k \in handles : k.num = o.num}
              /\ ~foreign /\ (o.born # engine => {k \in handles : k.num = o.num} = {})
            BY <1>12, <2>3, ReleaseEffect
        <3>2. {k.num : k \in handles'} = {k.num : k \in handles} \ {o.num}
            BY <3>1
        <3>3. o.born = engine =>
                {q.num : q \in {r \in opens' : r.born = engine}} =
                  {q.num : q \in {r \in opens : r.born = engine}} \ {o.num}
            BY <2>1
        <3>4. o.born # engine =>
                /\ {q.num : q \in {r \in opens' : r.born = engine}} =
                     {q.num : q \in {r \in opens : r.born = engine}}
                /\ {k.num : k \in handles'} = {k.num : k \in handles}
            BY <2>1, <3>1
        <3>5. o.born = engine /\ ctl.pc = "write" => o.num # ctl.num
            OBVIOUS
        <3>6. HandlesOwned'
            BY <2>1, <3>1, <3>2, <3>3, <3>4, <3>5, ZenonT(30)
        <3> HIDE DEF HandlesOwned
        <3>7. QED BY <2>1, <3>6
    <2>4. CASE foreign'
        BY <2>1, <2>4
    <2>5. QED BY <2>2, <2>3, <2>4
<1>13. CASE mutate_names
    BY <1>13, MutateNamesEffect
<1>14. CASE mutate_contents \/ trim
    BY <1>14, MutateContentsEffect
<1>15. CASE write_file_open
    BY <1>15, WriteFileOpenEffect, SMTT(30)
<1>16. CASE write_file_write
    BY <1>16, WriteFileWriteEffect
<1>17. CASE report_filesystem_mutation
    BY <1>17, ReportEffect
<1>18. CASE drop_entry \/ drop_workspace_entry
    BY <1>18, DropEffect
<1>19. CASE remove_workspace
    BY <1>19, RemoveEffect
<1>20. CASE create_workspace
    BY <1>20 DEF create_workspace
<1>21. CASE UNCHANGED vars
    BY <1>21 DEF vars
<1>22. QED
    BY <1>1, <1>2, <1>3, <1>4, <1>5, <1>6, <1>7, <1>8, <1>9, <1>10, <1>11, <1>12, <1>13, <1>14, <1>15, <1>16, <1>17, <1>18, <1>19, <1>20, <1>21
       DEF Next

(* Every step lets an open file read its own last write. *)
LEMMA ReadsStep ==
    TypeInv /\ ControlInv /\ FileInv /\ OwnerInv /\ ReadsOwnLastWrite /\ [Next]_vars => ReadsOwnLastWrite'
<1> SUFFICES ASSUME TypeInv, ControlInv, FileInv, OwnerInv, ReadsOwnLastWrite, [Next]_vars PROVE ReadsOwnLastWrite'
    OBVIOUS
<1> USE DEF TypeInv, HandleTypes, ControlTypes, OpenTypes, OpenFiles, Handles, ControlInv, OwnerInv, ReadsOwnLastWrite, Handle, HandleAdded, FileOpened, NodesMoved, NewVersion, daemon, kernel, control, history
<1>1. ASSUME NEW p \in Paths, tri_getattr(p)
      PROVE  ReadsOwnLastWrite'
    BY <1>1 DEF tri_getattr
<1>2. ASSUME NEW p \in Paths, Expire(p)
      PROVE  ReadsOwnLastWrite'
    BY <1>2 DEF Expire
<1>3. ASSUME NEW p \in Paths, NEW mode \in Modes, tri_open(p, mode)
      PROVE  ReadsOwnLastWrite'
    BY <1>3, OpenEffect
<1>4. ASSUME NEW p \in Paths, tri_create(p)
      PROVE  ReadsOwnLastWrite'
    BY <1>4, CreateFileEffect
<1>5. ASSUME NEW p \in Paths, tri_unlink(p)
      PROVE  ReadsOwnLastWrite'
    BY <1>5, UnlinkEffect
<1>6. ASSUME NEW p \in Paths, tri_truncate(p)
      PROVE  ReadsOwnLastWrite'
    BY <1>6, CutEffect
<1>7. ASSUME NEW p \in Paths, NEW q \in Paths, tri_rename(p, q)
      PROVE  ReadsOwnLastWrite'
    BY <1>7, RenameEffect
<1>8. ASSUME NEW p \in Paths, NEW q \in Paths, NEW verb \in Verbs, dispatch_filesystem_request(verb, p, q)
      PROVE  ReadsOwnLastWrite'
    BY <1>8, DispatchEffect
<1>9. CASE Reply
    BY <1>9 DEF Reply, InFlight
<1>10. CASE tri_create_open
    BY <1>10, CreateOpenEffect
<1>11. ASSUME NEW o \in opens, tri_write(o)
      PROVE  ReadsOwnLastWrite'
    <2>1. PICK h \in handles, g \in Handles : ToolWrote(o, h, g)
        BY <1>11, ToolWriteEffect
    <2>2. /\ engine # 0 /\ foreign' = (foreign \/ o.born # engine)
          /\ AttrsForgotten(o.node) /\ ReplyVoided(o.node)
          /\ UNCHANGED <<engine, born, nextHandle, creating, ctl, requests, blind>>
        BY <1>11, ToolWriteEffect

    <2>3. SUFFICES ASSUME ~foreign', NEW r \in opens', r.born = engine, r.last # 0,
                          NEW k \in handles', k.num = r.num, k.back # Nil
                   PROVE  r.last \in k.back.text
        BY <2>2
    <2>4. ~foreign /\ o.born = engine
        BY <2>2, <2>3
    <2>5. CASE k # g
        <3>1. k \in handles /\ k.num # h.num /\ h.num = o.num
            BY <2>1, <2>5 DEF ToolWrote
        <3>2. r \in opens
            BY <2>1, <2>3, <3>1 DEF ToolWrote
        <3>3. QED BY <2>3, <2>4, <3>1, <3>2
    <2>6. CASE k = g
        <3>0. CASE g.back = h.back /\ UNCHANGED opens
            BY <2>1, <2>3, <2>4, <2>6, <3>0 DEF ToolWrote
        <3> SUFFICES ASSUME ~(g.back = h.back /\ UNCHANGED opens) PROVE r.last \in k.back.text
            BY <3>0
        <3>1. g.back = file'[h.path] /\ file'[h.path].text = file[h.path].text \cup {top'} /\ r.num = o.num
            BY <2>1, <2>3, <2>6 DEF ToolWrote
        <3>2. PICK q \in OpenFiles :
                 /\ opens' = (opens \ {o}) \cup {q} /\ q.last = top'
                 /\ q.num = o.num /\ q.born = o.born
            BY <2>1, <2>3, <2>6 DEF ToolWrote
        <3>3. r = q
            <4>1. \A s \in opens \ {o} : s.born = o.born => s.num # o.num
                OBVIOUS
            <4>2. QED BY <2>3, <2>4, <3>1, <3>2, <4>1
        <3>4. QED BY <2>6, <3>1, <3>2, <3>3
    <2>7. QED BY <2>5, <2>6
<1>12. ASSUME NEW o \in opens, tri_release(o)
      PROVE  ReadsOwnLastWrite'
    BY <1>12, ReleaseEffect
<1>13. CASE mutate_names
    BY <1>13, MutateNamesEffect
<1>14. CASE mutate_contents \/ trim
    BY <1>14, MutateContentsEffect
<1>15. CASE write_file_open
    BY <1>15, WriteFileOpenEffect
<1>16. CASE write_file_write
    BY <1>16, WriteFileWriteEffect
<1>17. CASE report_filesystem_mutation
    BY <1>17, ReportEffect
<1>18. CASE drop_entry \/ drop_workspace_entry
    BY <1>18, DropEffect
<1>19. CASE remove_workspace
    BY <1>19, RemoveEffect
<1>20. CASE create_workspace
    BY <1>20 DEF create_workspace
<1>21. CASE UNCHANGED vars
    BY <1>21 DEF vars
<1>22. QED
    BY <1>1, <1>2, <1>3, <1>4, <1>5, <1>6, <1>7, <1>8, <1>9, <1>10, <1>11, <1>12, <1>13, <1>14, <1>15, <1>16, <1>17, <1>18, <1>19, <1>20, <1>21
       DEF Next

(* Cutting a file keeps every write that was not cut. *)
LEMMA ShortenedKeeps ==
    ASSUME TypeInv, FileInv, NEW p \in Names, file[p] # Nil, NEW text \in SUBSET Inodes,
           Shortened(p, text), UNCHANGED stray
    PROVE  FileInv'
<1> USE FileFacts DEF TypeInv, FileTypes, FileInv, NoLostWrite, Exists, Shortened, NewVersion
<1>1. \A q \in Names : file'[q] # Nil => file'[q].ino =< top' /\ file'[q].obj =< top'
    OBVIOUS
<1>2. \A q, r \in Names : file'[q] # Nil /\ file'[r] # Nil /\ file'[q].obj = file'[r].obj => q = r
    OBVIOUS
<1>3. \A i \in Inodes : i > top' => acked'[i] = {}
    BY DEF Inodes
<1>4. ASSUME NEW q \in Names, file'[q] # Nil PROVE acked'[file'[q].obj] \ stray' \subseteq file'[q].text
    BY <1>4
<1>5. Cardinality(BasePaths) =< top'
    BY FreshFiles
<1>6. QED BY <1>1, <1>2, <1>3, <1>4, <1>5

(* A new file has no writes yet. *)
LEMMA CreatedKeeps ==
    ASSUME TypeInv, FileInv, NEW p \in Names, file[p] = Nil, NewVersion(p, top + 1, {}),
           UNCHANGED <<acked, stray>>
    PROVE  FileInv'
<1> USE FileFacts DEF TypeInv, FileTypes, FileInv, NoLostWrite, Exists, NewVersion
<1>1. \A q \in Names : file'[q] # Nil => file'[q].ino =< top' /\ file'[q].obj =< top'
    OBVIOUS
<1>2. \A q, r \in Names : file'[q] # Nil /\ file'[r] # Nil /\ file'[q].obj = file'[r].obj => q = r
    OBVIOUS
<1>3. \A i \in Inodes : i > top' => acked'[i] = {}
    BY DEF Inodes
<1>4. ASSUME NEW q \in Names, file'[q] # Nil PROVE acked'[file'[q].obj] \ stray' \subseteq file'[q].text
    BY <1>4
<1>5. Cardinality(BasePaths) =< top'
    BY FreshFiles
<1>6. QED BY <1>1, <1>2, <1>3, <1>4, <1>5

(* A moved file takes its writes with it. *)
LEMMA RelocatedKeeps ==
    ASSUME TypeInv, FileInv, NEW p \in Names, NEW q \in Names, p # q, file[p] # Nil,
           Relocated(p, q), UNCHANGED <<acked, stray>>
    PROVE  FileInv'
<1> USE FileFacts DEF TypeInv, FileTypes, FileInv, NoLostWrite, Exists, Relocated
<1>1. \A r \in Names : file'[r] # Nil => file'[r].ino =< top' /\ file'[r].obj =< top'
    OBVIOUS
<1>2. \A r, s \in Names : file'[r] # Nil /\ file'[s] # Nil /\ file'[r].obj = file'[s].obj => r = s
    OBVIOUS
<1>3. \A i \in Inodes : i > top' => acked'[i] = {}
    BY DEF Inodes
<1>4. ASSUME NEW r \in Names, file'[r] # Nil PROVE acked'[file'[r].obj] \ stray' \subseteq file'[r].text
    BY <1>4
<1>5. Cardinality(BasePaths) =< top'
    BY FreshFiles
<1>6. QED BY <1>1, <1>2, <1>3, <1>4, <1>5

(* A removed file leaves the others as they were. *)
LEMMA GoneKeeps ==
    ASSUME TypeInv, FileInv, NEW p \in Names, Gone(p), UNCHANGED <<acked, stray>>
    PROVE  FileInv'
BY DEF FileInv, NoLostWrite, Exists, Gone

(* What is left of a file whose removal failed late has no lost writes.      *)
LEMMA HalfGoneKeeps ==
    ASSUME TypeInv, FileInv, NEW p \in Names, HalfGone(p), UNCHANGED <<acked, stray>>
    PROVE  FileInv'
<1> USE FileFacts DEF TypeInv, FileTypes, FileInv, NoLostWrite, Exists, HalfGone, LeftUnder
<1>0. top \in Nat /\ top' = top + 1
      /\ \A q \in Names : file'[q] # Nil =>
           \/ file[q] # Nil /\ file'[q] = file[q] /\ file[q].ino =< top /\ file[q].obj \in 1 .. top
           \/ q = p /\ file'[q].ino =< top /\ file'[q].obj = top + 1 /\ file'[q].text = {}
    OBVIOUS
<1>1. ASSUME NEW q \in Names, file'[q] # Nil PROVE file'[q].ino =< top' /\ file'[q].obj =< top'
    <2>1. file'[q].ino \in Int
        BY <1>1 DEF Files, Inodes
    <2>2. QED BY ONLY <1>0, <1>1, <2>1
<1>2. \A q, r \in Names : file'[q] # Nil /\ file'[r] # Nil /\ file'[q].obj = file'[r].obj => q = r
    <2>1. \A q, r \in Names : file[q] # Nil /\ file[r] # Nil /\ file[q].obj = file[r].obj => q = r
        BY DEF FileInv
    <2>2. QED BY ONLY <1>0, <2>1
<1>3. \A i \in Inodes : i > top' => acked'[i] = {}
    BY DEF Inodes
<1>4. ASSUME NEW q \in Names, file'[q] # Nil PROVE acked'[file'[q].obj] \ stray' \subseteq file'[q].text
    BY <1>4
<1>5. Cardinality(BasePaths) =< top'
    BY FreshFiles
<1>6. QED BY <1>1, <1>2, <1>3, <1>4, <1>5

(* The copy a rename published before it failed holds the writes of the      *)
(* file it is a copy of.                                                     *)
LEMMA HalfMovedKeeps ==
    ASSUME TypeInv, FileInv, NEW p \in Names, NEW q \in Names, p # q, file[p] # Nil,
           HalfMoved(p, q), UNCHANGED stray
    PROVE  FileInv'
<1> USE FileFacts DEF TypeInv, FileTypes, FileInv, NoLostWrite, Exists, HalfMoved, LeftUnder
<1>0. top \in Nat /\ top' = top + 2 /\ top + 1 \in Inodes
      /\ \A r \in Names : file'[r] # Nil =>
           \/ file[r] # Nil /\ file'[r] = file[r] /\ file[r].ino =< top /\ file[r].obj \in 1 .. top
           \/ r = q /\ file'[r].ino = top + 1 /\ file'[r].obj = top + 1
           \/ r = p /\ file'[r].ino =< top /\ file'[r].obj = top + 2 /\ file'[r].text = {}
    OBVIOUS
<1>1. ASSUME NEW r \in Names, file'[r] # Nil PROVE file'[r].ino =< top' /\ file'[r].obj =< top'
    <2>1. file'[r].ino \in Int
        BY <1>1 DEF Files, Inodes
    <2>2. QED BY ONLY <1>0, <1>1, <2>1
<1>2. \A r, s \in Names : file'[r] # Nil /\ file'[s] # Nil /\ file'[r].obj = file'[s].obj => r = s
    <2>1. \A r, s \in Names : file[r] # Nil /\ file[s] # Nil /\ file[r].obj = file[s].obj => r = s
        BY DEF FileInv
    <2>2. QED BY ONLY <1>0, <2>1
<1>3. ASSUME NEW i \in Inodes, i > top' PROVE acked'[i] = {}
    <2>1. i \in Int /\ i > top /\ i # top + 1
        BY ONLY <1>0, <1>3 DEF Inodes
    <2>2. QED BY <2>1
<1>4. ASSUME NEW r \in Names, file'[r] # Nil PROVE acked'[file'[r].obj] \ stray' \subseteq file'[r].text
    BY <1>4
<1>5. Cardinality(BasePaths) =< top'
    BY FreshFiles
<1>6. QED BY <1>1, <1>2, <1>3, <1>4, <1>5

(* A write through a path is in the version the path names, acknowledged or  *)
(* not; acknowledged to another file it is a stray one.                      *)
LEMMA WrittenKeeps ==
    ASSUME TypeInv, FileInv, NEW p \in Names, file[p] # Nil,
           NewVersion(p, file[p].obj, file[p].text \cup {top'}),
           \/ UNCHANGED <<acked, stray>>
           \/ \E obj \in Inodes :
                /\ obj =< top /\ acked' = [acked EXCEPT ![obj] = acked[obj] \cup {top'}]
                /\ stray' = IF file[p].obj = obj THEN stray ELSE stray \cup {top'}
    PROVE  FileInv'
<1> USE FileFacts DEF TypeInv, FileTypes, FileInv, NoLostWrite, Exists, NewVersion
<1>1. \A q \in Names : file'[q] # Nil => file'[q].ino =< top' /\ file'[q].obj =< top'
    OBVIOUS
<1>2. \A q, r \in Names : file'[q] # Nil /\ file'[r] # Nil /\ file'[q].obj = file'[r].obj => q = r
    OBVIOUS
<1>3. \A i \in Inodes : i > top' => acked'[i] = {}
    BY DEF Inodes
<1>4. ASSUME NEW q \in Names, file'[q] # Nil PROVE acked'[file'[q].obj] \ stray' \subseteq file'[q].text
    <2>1. CASE UNCHANGED <<acked, stray>>
        BY <1>4, <2>1
    <2>2. ASSUME NEW obj \in Inodes,
                 acked' = [acked EXCEPT ![obj] = acked[obj] \cup {top'}],
                 stray' = IF file[p].obj = obj THEN stray ELSE stray \cup {top'}
          PROVE  acked'[file'[q].obj] \ stray' \subseteq file'[q].text
        <3>1. acked[file'[q].obj] \ stray \subseteq file'[q].text
            BY <1>4
        <3>2. acked'[file'[q].obj] = IF file'[q].obj = obj THEN acked[obj] \cup {top'} ELSE acked[file'[q].obj]
            BY <1>4, <2>2
        <3>3. stray \subseteq stray'
            BY <2>2
        <3>4. CASE file'[q].obj = obj /\ file[p].obj = obj
            BY <1>4, <3>1, <3>2, <3>3, <3>4
        <3>5. CASE file'[q].obj # obj \/ file[p].obj # obj
            BY <2>2, <3>1, <3>2, <3>3, <3>5
        <3>6. QED BY <3>4, <3>5
    <2>3. QED BY <2>1, <2>2
<1>5. Cardinality(BasePaths) =< top'
    BY FreshFiles
<1>6. QED BY <1>1, <1>2, <1>3, <1>4, <1>5

(* Every step keeps the acknowledged writes in the files they were made to. *)
LEMMA FileStep ==
    TypeInv /\ ControlInv /\ FileInv /\ [Next]_vars => FileInv'
<1> SUFFICES ASSUME TypeInv, ControlInv, FileInv, [Next]_vars PROVE FileInv'
    OBVIOUS
<1> USE DEF FileInv, NoLostWrite, Exists, daemon, kernel, control, history
<1>1. ASSUME NEW p \in Paths, tri_getattr(p)
      PROVE  FileInv'
    BY <1>1 DEF tri_getattr
<1>2. ASSUME NEW p \in Paths, Expire(p)
      PROVE  FileInv'
    BY <1>2 DEF Expire
<1>3. ASSUME NEW p \in Paths, NEW mode \in Modes, tri_open(p, mode)
      PROVE  FileInv'
    <2>1. {} \in SUBSET Inodes
        OBVIOUS
    <2>2. CASE mode = "trunc"
        BY <1>3, <2>1, <2>2, OpenEffect, ShortenedKeeps
    <2>3. CASE mode # "trunc"
        BY <1>3, <2>3, OpenEffect
    <2>4. QED BY <2>2, <2>3
<1>4. ASSUME NEW p \in Paths, tri_create(p)
      PROVE  FileInv'
    BY <1>4, CreateFileEffect, CreatedKeeps
<1>5. ASSUME NEW p \in Paths, tri_unlink(p)
      PROVE  FileInv'
    BY <1>5, UnlinkEffect, RelocatedKeeps, GoneKeeps, HalfGoneKeeps, HalfMovedKeeps
<1>6. ASSUME NEW p \in Paths, tri_truncate(p)
      PROVE  FileInv'
    <2>1. {} \in SUBSET Inodes
        OBVIOUS
    <2>2. QED BY <1>6, <2>1, CutEffect, ShortenedKeeps
<1>7. ASSUME NEW p \in Paths, NEW q \in Paths, tri_rename(p, q)
      PROVE  FileInv'
    BY <1>7, RenameEffect, RelocatedKeeps, HalfMovedKeeps
<1>8. ASSUME NEW p \in Paths, NEW q \in Paths, NEW verb \in Verbs, dispatch_filesystem_request(verb, p, q)
      PROVE  FileInv'
    BY <1>8, DispatchEffect
<1>9. CASE Reply
    BY <1>9 DEF Reply, InFlight
<1>10. CASE tri_create_open
    BY <1>10, CreateOpenEffect
<1>11. ASSUME NEW o \in opens, tri_write(o)
      PROVE  FileInv'
    <2>1. PICK h \in handles, g \in Handles : ToolWrote(o, h, g)
        BY <1>11, ToolWriteEffect
    <2>2. o.obj =< top
        BY DEF TypeInv, OpenTypes
    <2>3. QED BY <2>1, <2>2, WrittenKeeps DEF ToolWrote
<1>12. ASSUME NEW o \in opens, tri_release(o)
      PROVE  FileInv'
    <2>1. Hidden \in Names
        BY FileFacts
    <2>2. QED BY <1>12, <2>1, ReleaseEffect, GoneKeeps
<1>13. CASE mutate_names
    <2>1. ctl.path \in Names /\ ctl.dest \in Names
        BY <1>13, MutateNamesEffect, FileFacts
    <2>2. QED BY <1>13, <2>1, MutateNamesEffect, RelocatedKeeps, GoneKeeps, HalfGoneKeeps, HalfMovedKeeps
<1>14. CASE mutate_contents \/ trim
    <2>1. ctl.path \in Names
        BY <1>14, MutateContentsEffect, FileFacts
    <2>2. QED BY <1>14, <2>1, MutateContentsEffect, ShortenedKeeps
<1>15. CASE write_file_open
    <2>1. ctl.path \in Names
        BY <1>15, WriteFileOpenEffect, FileFacts
    <2>2. QED BY <1>15, <2>1, WriteFileOpenEffect, CreatedKeeps
<1>16. CASE write_file_write
    <2>1. UNCHANGED stray
        BY <1>16, WriteFileWriteEffect
    <2>2. CASE UNCHANGED <<file, top, acked>>
        BY <2>1, <2>2
    <2>3. ASSUME NEW h \in Handle(ctl.num),
                 h.path \in Names, file[h.path] # Nil, file[h.path].obj \in Inodes,
                 NewVersion(h.path, file[h.path].obj, file[h.path].text \cup {top'}),
                 \/ acked' = [acked EXCEPT ![file[h.path].obj] = acked[file[h.path].obj] \cup {top'}]
                 \/ UNCHANGED acked
          PROVE  FileInv'
        <3>1. file[h.path].obj =< top
            BY <2>3
        <3>2. QED BY <2>1, <2>3, <3>1, WrittenKeeps
    <2>4. QED BY <1>16, <2>2, <2>3, WriteFileWriteEffect
<1>17. CASE report_filesystem_mutation
    BY <1>17, ReportEffect
<1>18. CASE drop_entry \/ drop_workspace_entry
    BY <1>18, DropEffect
<1>19. CASE remove_workspace
    <2>1. file' = [p \in Names |-> Nil] /\ UNCHANGED <<top, acked, stray>>
        BY <1>19, RemoveEffect
    <2>2. QED BY <2>1
<1>20. CASE create_workspace
    <2>1. file' = Fresh /\ top' = top /\ acked' = [i \in Inodes |-> {}]
        BY <1>20 DEF create_workspace
    <2>2. top \in Nat
        BY FileFacts
    <2>3. \A p \in Names : Fresh[p] # Nil =>
             /\ Fresh[p].ino =< top /\ Fresh[p].obj =< top /\ Fresh[p].obj \in Inodes
        BY <2>2, FreshFiles DEF Files, Inodes
    <2>4. QED BY <2>1, <2>2, <2>3, FreshFiles
<1>21. CASE UNCHANGED vars
    BY <1>21 DEF vars
<1>22. QED
    BY <1>1, <1>2, <1>3, <1>4, <1>5, <1>6, <1>7, <1>8, <1>9, <1>10, <1>11, <1>12, <1>13, <1>14, <1>15, <1>16, <1>17, <1>18, <1>19, <1>20, <1>21
       DEF Next

(* Every step keeps the cached entries, or has them dropped. *)
LEMMA EntryStep ==
    TypeInv /\ ControlInv /\ FileInv /\ EntryInv /\ [Next]_vars => EntryInv'
<1> SUFFICES ASSUME TypeInv, ControlInv, FileInv, EntryInv, [Next]_vars PROVE EntryInv'
    OBVIOUS
<1> USE FileFacts DEF TypeInv, KernelTypes, ControlTypes, Controls, LookUps, ControlInv, EntryInv, Dropping, Exists, Idle, NoEntry, NoAttr, Inodes, NameVerbs, FileVerbs, DirLocked, find_path_inode, AttrsForgotten, ReplyVoided, NextStep, NoLookup, Reported, Shortened, NewVersion, Relocated, Gone, HalfGone, HalfMoved, daemon, kernel, control, history
<1>1. ASSUME NEW p \in Paths, tri_getattr(p)
      PROVE  EntryInv'
    BY <1>1 DEF tri_getattr
<1>2. ASSUME NEW p \in Paths, Expire(p)
      PROVE  EntryInv'
    BY <1>2 DEF Expire
<1>3. ASSUME NEW p \in Paths, NEW mode \in Modes, tri_open(p, mode)
      PROVE  EntryInv'
    BY <1>3, OpenEffect
<1>4. ASSUME NEW p \in Paths, tri_create(p)
      PROVE  EntryInv'
    BY <1>4, CreateFileEffect
<1>5. ASSUME NEW p \in Paths, tri_unlink(p)
      PROVE  EntryInv'
    BY <1>5, UnlinkEffect
<1>6. ASSUME NEW p \in Paths, tri_truncate(p)
      PROVE  EntryInv'
    BY <1>6, CutEffect
<1>7. ASSUME NEW p \in Paths, NEW q \in Paths, tri_rename(p, q)
      PROVE  EntryInv'
    BY <1>7, RenameEffect
<1>8. ASSUME NEW p \in Paths, NEW q \in Paths, NEW verb \in Verbs, dispatch_filesystem_request(verb, p, q)
      PROVE  EntryInv'
    BY <1>8, DispatchEffect
<1>9. CASE Reply
    BY <1>9 DEF Reply, InFlight
<1>10. CASE tri_create_open
    BY <1>10, CreateOpenEffect
<1>11. ASSUME NEW o \in opens, tri_write(o)
      PROVE  EntryInv'
    <2>1. PICK h \in handles, g \in Handles : ToolWrote(o, h, g)
        BY <1>11, ToolWriteEffect
    <2>2. QED BY <1>11, <2>1, ToolWriteEffect DEF ToolWrote
<1>12. ASSUME NEW o \in opens, tri_release(o)
      PROVE  EntryInv'
    BY <1>12, ReleaseEffect
<1>13. CASE mutate_names
    BY <1>13, MutateNamesEffect
<1>14. CASE mutate_contents \/ trim
    BY <1>14, MutateContentsEffect
<1>15. CASE write_file_open
    BY <1>15, WriteFileOpenEffect
<1>16. CASE write_file_write
    BY <1>16, WriteFileWriteEffect
<1>17. CASE report_filesystem_mutation
    BY <1>17, ReportEffect
<1>18. CASE drop_entry \/ drop_workspace_entry
    <2>1. CASE ctl.verb # "ws.remove"
        BY <1>18, <2>1, DropEffect
    <2>2. CASE ctl.verb = "ws.remove"
        <3>1. /\ \A p \in Paths \ blind' : cache'[p] = NoEntry /\ ~(lookup.dir /\ lookup.path = p)
              /\ UNCHANGED <<lookup, unseen>> /\ Paths \ blind' \subseteq Paths \ blind
            BY <1>18, <2>2, DropEffect DEF InUse
        <3>2. QED BY <3>1
    <2>3. QED BY <2>1, <2>2
<1>19. CASE remove_workspace
    BY <1>19, RemoveEffect
<1>20. CASE create_workspace
    BY <1>20 DEF create_workspace
<1>21. CASE UNCHANGED vars
    BY <1>21 DEF vars
<1>22. QED
    BY <1>1, <1>2, <1>3, <1>4, <1>5, <1>6, <1>7, <1>8, <1>9, <1>10, <1>11, <1>12, <1>13, <1>14, <1>15, <1>16, <1>17, <1>18, <1>19, <1>20, <1>21
       DEF Next

(* Every step keeps the cached attributes, or has them forgotten. *)
LEMMA AttrStep ==
    TypeInv /\ ControlInv /\ FileInv /\ OwnerInv /\ EntryInv /\ AttrInv /\ [Next]_vars => AttrInv'
<1> SUFFICES ASSUME TypeInv, ControlInv, FileInv, OwnerInv, EntryInv, AttrInv, [Next]_vars PROVE AttrInv'
    OBVIOUS
<1> USE FileFacts DEF TypeInv, KernelTypes, ControlTypes, Controls, LookUps, ControlInv, OwnerInv, EntryInv, Dropping, AttrInv, Refreshing, Exists, Idle, NoEntry, NoAttr, Inodes, NameVerbs, FileVerbs, DirLocked, find_path_inode, AttrsForgotten, ReplyVoided, NextStep, NoLookup, Reported, Shortened, NewVersion, Relocated, Gone, HalfGone, HalfMoved, daemon, kernel, control, history
<1>1. ASSUME NEW p \in Paths, tri_getattr(p)
      PROVE  AttrInv'
    <2>1. file[p].ino \in Inodes
        BY <1>1, FileFacts DEF tri_getattr
    <2>2. CASE cache' = [cache EXCEPT ![p] = find_path_inode(p)] /\ UNCHANGED lookup
        BY <1>1, <2>1, <2>2 DEF tri_getattr, InFlight
    <2>3. CASE /\ lookup' = [path |-> p, ino |-> find_path_inode(p), dir |-> cache[p] = NoEntry]
               /\ UNCHANGED cache
        BY <1>1, <2>1, <2>3 DEF tri_getattr
    <2>4. QED BY <1>1, <2>2, <2>3 DEF tri_getattr
<1>2. ASSUME NEW p \in Paths, Expire(p)
      PROVE  AttrInv'
    BY <1>2 DEF Expire
<1>3. ASSUME NEW p \in Paths, NEW mode \in Modes, tri_open(p, mode)
      PROVE  AttrInv'
    BY <1>3, OpenEffect
<1>4. ASSUME NEW p \in Paths, tri_create(p)
      PROVE  AttrInv'
    BY <1>4, CreateFileEffect
<1>5. ASSUME NEW p \in Paths, tri_unlink(p)
      PROVE  AttrInv'
    BY <1>5, UnlinkEffect
<1>6. ASSUME NEW p \in Paths, tri_truncate(p)
      PROVE  AttrInv'
    BY <1>6, CutEffect
<1>7. ASSUME NEW p \in Paths, NEW q \in Paths, tri_rename(p, q)
      PROVE  AttrInv'
    BY <1>7, RenameEffect
<1>8. ASSUME NEW p \in Paths, NEW q \in Paths, NEW verb \in Verbs, dispatch_filesystem_request(verb, p, q)
      PROVE  AttrInv'
    BY <1>8, DispatchEffect
<1>9. CASE Reply
    BY <1>9 DEF Reply, InFlight
<1>10. CASE tri_create_open
    BY <1>10, CreateOpenEffect
<1>11. ASSUME NEW o \in opens, tri_write(o)
      PROVE  AttrInv'
    <2>1. PICK h \in handles, g \in Handles : ToolWrote(o, h, g)
        BY <1>11, ToolWriteEffect
    <2>2. QED BY <1>11, <2>1, ToolWriteEffect DEF ToolWrote
<1>12. ASSUME NEW o \in opens, tri_release(o)
      PROVE  AttrInv'
    BY <1>12, ReleaseEffect
<1>13. CASE mutate_names
    BY <1>13, MutateNamesEffect
<1>14. CASE mutate_contents \/ trim
    BY <1>14, MutateContentsEffect
<1>15. CASE write_file_open
    BY <1>15, WriteFileOpenEffect
<1>16. CASE write_file_write
    BY <1>16, WriteFileWriteEffect
<1>17. CASE report_filesystem_mutation
    BY <1>17, ReportEffect
<1>18. CASE drop_entry \/ drop_workspace_entry
    <2>1. CASE ctl.verb # "ws.remove"
        BY <1>18, <2>1, DropEffect
    <2>2. CASE ctl.verb = "ws.remove"
        <3>1. /\ \A p \in Paths \ blind' : cache'[p] = NoEntry /\ ~(lookup.dir /\ lookup.path = p)
              /\ UNCHANGED <<lookup, unseen>> /\ Paths \ blind' \subseteq Paths \ blind
            BY <1>18, <2>2, DropEffect DEF InUse
        <3>2. QED BY <3>1
    <2>3. QED BY <2>1, <2>2
<1>19. CASE remove_workspace
    BY <1>19, RemoveEffect
<1>20. CASE create_workspace
    BY <1>20 DEF create_workspace
<1>21. CASE UNCHANGED vars
    BY <1>21 DEF vars
<1>22. QED
    BY <1>1, <1>2, <1>3, <1>4, <1>5, <1>6, <1>7, <1>8, <1>9, <1>10, <1>11, <1>12, <1>13, <1>14, <1>15, <1>16, <1>17, <1>18, <1>19, <1>20, <1>21
       DEF Next

-----------------------------------------------------------------------------
(* A fresh Workspace that nobody has looked at satisfies the invariant. *)
LEMMA InitInv == Init => IInv
<1> SUFFICES ASSUME Init PROVE IInv
    OBVIOUS
<1> USE MountAssumption, FreshFiles DEF Init
<1>1. FileTypes
    BY DEF FileTypes
<1>2. HandleTypes /\ OpenTypes
    BY DEF HandleTypes, OpenTypes
<1>3. KernelTypes
    BY DEF KernelTypes, LookUps, NoLookup
<1>4. ControlTypes
    BY DEF ControlTypes, Controls, ControlSteps, Idle
<1>5. ControlInv
    BY DEF ControlInv, Idle, NoLookup, FileVerbs
<1>6. OwnerInv /\ ReadsOwnLastWrite
    BY DEF OwnerInv, HandlesOwned, ReadsOwnLastWrite, Idle
<1>7. FileInv
    <2>1. \A p \in Names : Fresh[p] # Nil => Fresh[p].obj \in Inodes
        BY DEF Files
    <2>2. QED BY <2>1 DEF FileInv, NoLostWrite, Exists
<1>8. EntryInv /\ AttrInv
    BY DEF EntryInv, AttrInv, NoLookup
<1>9. QED BY <1>1, <1>2, <1>3, <1>4, <1>5, <1>6, <1>7, <1>8 DEF IInv, TypeInv

(* The inductive invariant holds in every reachable state. *)
THEOREM Invariance == Spec => []IInv
<1>1. IInv /\ [Next]_vars => IInv'
    <2> SUFFICES ASSUME IInv, [Next]_vars PROVE IInv'
        OBVIOUS
    <2>1. TypeInv /\ ControlInv /\ OwnerInv /\ ReadsOwnLastWrite /\ FileInv /\ EntryInv /\ AttrInv
        BY DEF IInv
    <2>2. TypeInv'
        BY <2>1, FileTypesStep, HandleTypesStep, OpenTypesStep, KernelTypesStep, ControlTypesStep
           DEF TypeInv
    <2>3. ControlInv' /\ OwnerInv' /\ ReadsOwnLastWrite'
        BY <2>1, ControlStep, OwnerStep, ReadsStep
    <2>4. FileInv' /\ EntryInv' /\ AttrInv'
        BY <2>1, FileStep, EntryStep, AttrStep
    <2>5. QED BY <2>2, <2>3, <2>4 DEF IInv
<1>2. QED BY InitInv, <1>1, PTL DEF Spec

(* Every variable keeps its type and handle numbers are given out once. *)
THEOREM TypeCorrect == Spec => []TypeOK
<1>1. IInv => TypeOK
    <2> SUFFICES ASSUME IInv PROVE TypeOK
        OBVIOUS
    <2> USE DEF IInv, TypeInv
    <2>1. \A o \in opens : o.node \in Names /\ o.obj \in Inodes /\ o.last \in 0 .. top
        BY DEF OpenTypes, OpenFiles, FileTypes
    <2>2. lookup.path \in Paths \cup {None}
        BY DEF KernelTypes, LookUps
    <2>3. ctl.pc \in {"idle", "mutate", "write", "trim", "report", "drop", "report2", "drop2"}
        BY DEF ControlTypes, Controls, ControlSteps
    <2>4. QED BY <2>1, <2>2, <2>3
              DEF TypeOK, FileTypes, HandleTypes, KernelTypes, ControlTypes, Handles
<1>2. QED BY Invariance, <1>1, PTL

(* The engine's handles are those of the open files of the tools and of the  *)
(* control thread's write: open_handle, close_handle and write_file neither  *)
(* lose one nor leave one behind, whatever fails.                            *)
THEOREM HandlesAreOwned == Spec => []HandlesOwned
<1>1. IInv => HandlesOwned
    BY DEF IInv, OwnerInv
<1>2. QED BY Invariance, <1>1, PTL

(* read_handle gives an open file its own last write, whichever other        *)
(* handles, renames and control requests come in between.                    *)
THEOREM OwnWritesRead == Spec => []ReadsOwnLastWrite
<1>1. IInv => ReadsOwnLastWrite
    BY DEF IInv
<1>2. QED BY Invariance, <1>1, PTL

(* write_handle loses no acknowledged write of any handle: it copies the     *)
(* version the path names and not the one the handle holds.                  *)
THEOREM NoWriteIsLost == Spec => []NoLostWrite
<1>1. IInv => NoLostWrite
    BY DEF IInv, FileInv
<1>2. QED BY Invariance, <1>1, PTL

(* Once a control request is done the kernel has no entry of a name that the *)
(* request removed, whichever look-ups, creations and renames of the tools   *)
(* its steps met (report_filesystem_mutation and the entries it drops), but  *)
(* for the names in blind: those that appeared between the request's look at *)
(* them and its removal, that were in use when their Workspace went, or that *)
(* a tool removed or renamed with a call that then failed.                   *)
THEOREM NoStaleEntry == Spec => []EntriesCurrent
<1>1. IInv => EntriesCurrent
    BY DEF IInv, EntryInv, Dropping, EntriesCurrent, Idle, NameVerbs
<1>2. QED BY Invariance, <1>1, PTL

(* Once a control request is done the kernel has no attributes of an earlier *)
(* version of a name, replies that were under way included, but for names in *)
(* unseen or blind: changed with a call that then failed, through a handle   *)
(* opened under another name, or during their first look-up.                 *)
THEOREM NoStaleAttributes == Spec => []AttrsCurrent
<1>1. IInv => AttrsCurrent
    BY DEF IInv, AttrInv, Refreshing, AttrsCurrent, Idle
<1>2. QED BY Invariance, <1>1, PTL
=============================================================================
