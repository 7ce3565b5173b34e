---------------------------- MODULE MountedView ----------------------------
(***************************************************************************)
(* What the tools that use the mount see of one Workspace name: the open   *)
(* handles of its engine, the directory entries and attributes the Linux   *)
(* kernel caches for a minute, and the control thread that changes files   *)
(* behind the kernel's back and then drops what it cached (ADR 0010).      *)
(*                                                                         *)
(* An engine call is one step: the engine's lock makes it one.  A call may *)
(* fail and leave everything as it was, or fail after its publication and  *)
(* leave what the module WorkspaceEngine shows it leaves (Fails).  The     *)
(* files are those of one directory.  Every publication puts a new backing *)
(* inode under the name, so an inode never changes: it is the file it is a *)
(* version of (obj) and the writes it holds.  A write is named by the      *)
(* inode it published.                                                     *)
(*                                                                         *)
(* External: libfuse and the kernel.  The parent directory's lock orders   *)
(* the look-ups, creations, removals and renames of names and the dropping *)
(* of an entry; an entry whose Workspace's entry is dropped stays as long  *)
(* as a tool has the file open; a call that fails with EIO leaves the      *)
(* cache alone, but for a write; an attribute reply that an invalidation   *)
(* of a known node overtook is not kept; a name that does not exist is     *)
(* never cached.                                                           *)
(***************************************************************************)
EXTENDS Integers, FiniteSets

CONSTANTS Paths,      \* the names in the directory
          BasePaths,  \* those the Base state has
          Hidden,     \* the name libfuse gives to an open file that is removed
          Verbs,      \* the control requests
          Modes,      \* how tools open files: "r", "w", "trunc"
          MaxInodes,  \* bound: backing inodes, so also publications
          MaxHandles, \* bound: the last handle an engine gives to a tool
          MaxOpens,   \* bound: files the tools have open of one engine
          MaxEngines, \* bound: Workspaces created under the name
          MaxRequests, \* bound: control requests but ws.create, which MaxEngines bounds
          MaxFaults   \* bound: backing files that cannot be opened, calls that fail late

Names == Paths \cup {Hidden}
None == "none"

ASSUME MountAssumption ==
    /\ BasePaths \subseteq Paths /\ Hidden \notin Paths /\ None \notin Names
    /\ Modes \subseteq {"r", "w", "trunc"}
    /\ Verbs \subseteq {"fs.rm", "fs.mv", "fs.write", "fs.truncate", "ws.create", "ws.remove"}
    /\ {MaxInodes, MaxHandles, MaxOpens, MaxEngines, MaxRequests, MaxFaults} \subseteq Nat
    /\ MaxEngines > 0
    /\ IsFiniteSet(BasePaths) /\ Cardinality(BasePaths) < MaxInodes

VARIABLES engine,     \* which of the engines of the name serves it, 0 when none does
          born,       \* how many there were
          file,       \* the visible file under each name
          top,        \* the last backing inode
          handles,    \* handles_ of the engine
          nextHandle, \* next_handle_
          opens,      \* the open files of the tools, each with the fh its open returned
          cache,      \* per name: NoEntry, NoAttr, or the inode in the cached attributes
          lookup,     \* a look-up or getattr whose reply is under way
          creating,   \* the name tri_create has created and not yet opened
          ctl,        \* the request the control thread executes
          requests,   \* control requests so far
          faults,     \* faults so far
          acked,      \* per file: the acknowledged writes since it was last truncated
          stray,      \* acknowledged writes that went to another file than the opened one
          unseen,     \* names changed without the kernel learning of it
          blind,      \* names removed without the kernel learning of it
          foreign     \* a handle number met the handle of another open file

daemon == <<engine, born, file, top, handles, nextHandle>>
kernel == <<opens, cache, lookup, creating>>
control == <<ctl, requests>>
history == <<acked, stray, unseen, blind, foreign>>
vars == <<daemon, kernel, control, faults, history>>

NoEntry == -1
NoAttr == 0
Inodes == 1 .. MaxInodes
Nil == [ino |-> 0, obj |-> 0, text |-> {}]
Files == [ino : Inodes, obj : Inodes, text : SUBSET Inodes]
NoLookup == [path |-> None, ino |-> 0, dir |-> FALSE]
Idle == [pc |-> "idle", verb |-> "none", path |-> None, dest |-> None,
         before |-> 0, before2 |-> 0, num |-> 0]

(* The files of a fresh Workspace: the inodes of the Base state.             *)
Fresh ==
    LET number == CHOOSE f \in [BasePaths -> 1 .. Cardinality(BasePaths)] :
                     \A p, q \in BasePaths : f[p] = f[q] => p = q
    IN [p \in Names |-> IF p \in BasePaths
                          THEN [ino |-> number[p], obj |-> number[p], text |-> {}] ELSE Nil]

Init ==
    /\ engine = 1 /\ born = 1
    /\ file = Fresh /\ top = Cardinality(BasePaths)
    /\ handles = {} /\ nextHandle = 1
    /\ opens = {} /\ cache = [p \in Paths |-> NoEntry]
    /\ lookup = NoLookup /\ creating = None
    /\ ctl = Idle /\ requests = 0 /\ faults = 0
    /\ acked = [o \in Inodes |-> {}]
    /\ stray = {} /\ unseen = {} /\ blind = {} /\ foreign = FALSE
-----------------------------------------------------------------------------
(***************************************************************************)
(* The engine.                                                             *)
(***************************************************************************)
Exists(p) == file[p] # Nil
find_path_inode(p) == file[p].ino

(* A mutation of p publishes a new inode under it.                           *)
Publish(p, obj, text) ==
    /\ top < MaxInodes /\ top' = top + 1
    /\ file' = [file EXCEPT ![p] = [ino |-> top + 1, obj |-> obj, text |-> text]]

(* Renaming copies the file to a new inode under its new name.               *)
Move(from, to) ==
    /\ top < MaxInodes /\ top' = top + 1
    /\ file' = [file EXCEPT ![from] = Nil, ![to] = [file[from] EXCEPT !.ino = top + 1]]

Truncate(p, text) ==
    /\ Publish(p, file[p].obj, text)
    /\ acked' = [acked EXCEPT ![file[p].obj] = text]

Fails == faults < MaxFaults /\ faults' = faults + 1

(* What a removal of p that fails late leaves under it: the upper version is *)
(* gone, but not so a Base version that only the new tombstone would hide.   *)
(* Coming back, that counts as a file of its own, n.                         *)
Uncovered(p, n) ==
    IF file[p].ino = Fresh[p].ino THEN {file[p]}
    ELSE {Nil} \cup (IF p \in BasePaths THEN {[Fresh[p] EXCEPT !.obj = n]} ELSE {})

HalfRemove(p) ==
    /\ top < MaxInodes /\ top' = top + 1
    /\ \E left \in Uncovered(p, top') : file' = [file EXCEPT ![p] = left]

(* A rename that fails late has published a copy, with the writes it holds,  *)
(* and the source is there still or half removed.                            *)
HalfMove(from, to) ==
    /\ top + 1 < MaxInodes /\ top' = top + 2
    /\ \E left \in {file[from]} \cup Uncovered(from, top') :
         file' = [file EXCEPT ![from] = left,
                    ![to] = [ino |-> top + 1, obj |-> top + 1, text |-> file[from].text]]
    /\ acked' = [acked EXCEPT ![top + 1] = acked[file[from].obj]]

Handle(num) == {h \in handles : h.num = num}

(* The end of open_handle: the visible version is opened and given a number. *)
MutReusesNumber(p, version, mode) ==
    /\ handles' = handles \cup
         {[num |-> nextHandle, path |-> p, writable |-> mode # "r", back |-> version]}
    /\ UNCHANGED nextHandle
KeepHandle(p, version, mode) ==
    /\ nextHandle' = nextHandle + 1
    /\ handles' = handles \cup
         {[num |-> nextHandle, path |-> p, writable |-> mode # "r", back |-> version]}

(* write_handle: the file the handle's path names now is copied, extended by *)
(* the write and published.                                                  *)
MutWritesOwnVersion(h) ==
    Exists(h.path) /\ Publish(h.path, file[h.path].obj, h.back.text \cup {top + 1})
write_handle(h) ==
    Exists(h.path) /\ Publish(h.path, file[h.path].obj, file[h.path].text \cup {top + 1})

(* ... and the handle goes over to the new version.                          *)
MutKeepsOldVersion(h, version) == handles
Reopened(h, version) == (handles \ {h}) \cup {[h EXCEPT !.back = version]}
-----------------------------------------------------------------------------
(***************************************************************************)
(* Requests of the kernel.                                                 *)
(***************************************************************************)
InFlight == lookup # NoLookup
DirLocked == lookup.dir \/ creating # None
Served(p) == engine # 0 /\ cache[p] # NoEntry /\ Exists(p)
IsOpen(p) == \E o \in opens : o.node = p
Known(p) == cache[p] # NoEntry \/ IsOpen(p)   \* libfuse has a node for the name
Forgotten(p) == IF p \in Paths /\ cache[p] # NoEntry THEN [cache EXCEPT ![p] = NoAttr] ELSE cache
Voided(p) == IF lookup.path = p THEN [lookup EXCEPT !.ino = NoAttr] ELSE lookup
Opened(p, version) ==
    /\ nextHandle <= MaxHandles /\ Cardinality({o \in opens : o.born = engine}) < MaxOpens
    /\ opens' = opens \cup {[num |-> nextHandle, born |-> engine, node |-> p,
                             obj |-> version.obj, last |-> 0]}

(* The kernel asks for a name it has no entry or no attributes of; a missing *)
(* name leaves nothing behind.  The reply is under way for some time; when   *)
(* it only refreshes the attributes of a known name, nothing but a control   *)
(* request on the name can tell, and without one it arrives in the same step.*)
tri_getattr(p) ==
    /\ engine # 0 /\ ~InFlight /\ cache[p] \in {NoEntry, NoAttr} /\ Exists(p)
    /\ cache[p] = NoEntry => ~DirLocked
    /\ IF cache[p] = NoEntry \/ p \in {ctl.path, ctl.dest}
         THEN /\ lookup' = [path |-> p, ino |-> find_path_inode(p), dir |-> cache[p] = NoEntry]
              /\ UNCHANGED cache
         ELSE cache' = [cache EXCEPT ![p] = find_path_inode(p)] /\ UNCHANGED lookup
    /\ UNCHANGED <<daemon, opens, creating, control, faults, history>>

(* External: the reply arrives; its attributes are kept unless voided.       *)
Reply ==
    LET p == lookup.path IN
    /\ InFlight /\ lookup' = NoLookup
    /\ cache' = IF ~lookup.dir /\ cache[p] = NoEntry THEN cache
                ELSE [cache EXCEPT ![p] = lookup.ino]
    /\ UNCHANGED <<daemon, opens, creating, control, faults, history>>

(* External: a minute passes, or memory pressure makes the kernel forget.    *)
Expire(p) ==
    /\ cache[p] # NoEntry /\ cache' = [cache EXCEPT ![p] = NoEntry]
    /\ UNCHANGED <<daemon, opens, lookup, creating, control, faults, history>>

(* open_handle: O_TRUNC publishes an empty version first; that may fail late *)
(* or the backing file not open, and the kernel takes the file for unchanged.*)
tri_open(p, mode) ==
    /\ Served(p)
    /\ IF mode = "trunc" THEN Truncate(p, {}) ELSE UNCHANGED <<file, top, acked>>
    /\ \/ /\ KeepHandle(p, file'[p], mode) /\ Opened(p, file'[p])
          /\ IF mode = "trunc" THEN cache' = Forgotten(p) /\ lookup' = Voided(p)
                               ELSE UNCHANGED <<cache, lookup>>
          /\ UNCHANGED <<faults, unseen>>
       \/ /\ Fails /\ mode = "trunc"
          /\ unseen' = unseen \cup {p}
          /\ UNCHANGED <<handles, nextHandle, opens, cache, lookup>>
    /\ UNCHANGED <<engine, born, creating, control, stray, blind, foreign>>

(* tri_create makes two engine calls: create, and open_handle of whatever    *)
(* the name is by then.                                                      *)
tri_create(p) ==
    /\ engine # 0 /\ ~DirLocked /\ cache[p] = NoEntry /\ ~Exists(p)
    /\ Publish(p, top + 1, {})
    /\ \/ creating' = p /\ UNCHANGED faults
       \/ Fails /\ UNCHANGED creating
    /\ UNCHANGED <<engine, born, handles, nextHandle, opens, cache, lookup, control, history>>

tri_create_open ==
    LET p == creating IN
    /\ p # None /\ creating' = None
    /\ \/ /\ engine # 0 /\ Exists(p)
          /\ KeepHandle(p, file[p], "w") /\ Opened(p, file[p])
          /\ cache' = [cache EXCEPT ![p] = find_path_inode(p)] /\ lookup' = Voided(p)
          /\ UNCHANGED faults
       \/ /\ IF engine # 0 /\ Exists(p) THEN Fails ELSE UNCHANGED faults
          /\ UNCHANGED <<handles, nextHandle, opens, cache, lookup>>
    /\ UNCHANGED <<engine, born, file, top, control, history>>

(* The handle is found by number in the engine that serves the name now, and *)
(* the file by the path it was opened under.  The call may fail late, or     *)
(* lose the handle's version when the new one does not open.                 *)
tri_write(o) ==
    /\ engine # 0
    /\ \E h \in Handle(o.num) :
         /\ h.writable /\ write_handle(h)
         /\ \/ /\ handles' = Reopened(h, file'[h.path])
               /\ opens' = (opens \ {o}) \cup {[o EXCEPT !.last = top']}
               /\ acked' = [acked EXCEPT ![o.obj] = @ \cup {top'}]
               /\ stray' = IF file[h.path].obj = o.obj THEN stray ELSE stray \cup {top'}
               /\ UNCHANGED faults
            \/ /\ Fails /\ \E version \in {h.back, Nil} : handles' = Reopened(h, version)
               /\ UNCHANGED <<opens, acked, stray>>
         /\ unseen' = IF h.path = o.node THEN unseen ELSE unseen \cup {h.path}
    /\ foreign' = (foreign \/ o.born # engine)
    /\ cache' = Forgotten(o.node) /\ lookup' = Voided(o.node)
    /\ UNCHANGED <<engine, born, nextHandle, creating, control, blind>>

(* close_handle; libfuse then removes a hidden file nobody has open.         *)
tri_release(o) ==
    /\ opens' = opens \ {o}
    /\ handles' = IF engine = 0 THEN handles ELSE handles \ Handle(o.num)
    /\ foreign' = (foreign \/ (engine # 0 /\ o.born # engine /\ Handle(o.num) # {}))
    /\ file' = IF o.node = Hidden /\ \A q \in opens' : q.node # Hidden
                 THEN [file EXCEPT ![Hidden] = Nil] ELSE file
    /\ UNCHANGED <<engine, born, top, nextHandle, cache, lookup, creating, control, faults,
                   acked, stray, unseen, blind>>

(* libfuse moves the node, and with it the open files; their handles keep    *)
(* the old path.  An open target is hidden first, as tri_unlink hides it.    *)
Renamed(from, to) ==
    opens' = {IF o.node = from THEN [o EXCEPT !.node = to] ELSE o : o \in opens}

(* EIO, after the change: the kernel keeps what it knows of the names.       *)
RenameFails(from, to) ==
    /\ HalfMove(from, to) /\ Fails
    /\ unseen' = unseen \cup {to} /\ blind' = blind \cup {from}
    /\ UNCHANGED <<opens, cache, lookup, stray, foreign>>
UnlinkFails(p) ==
    /\ HalfRemove(p) /\ Fails
    /\ blind' = blind \cup {p}
    /\ UNCHANGED <<opens, cache, lookup, acked, stray, unseen, foreign>>

tri_rename(from, to) ==
    /\ Served(from) /\ ~DirLocked /\ from # to /\ ~IsOpen(to)
    /\ \/ /\ Move(from, to) /\ Renamed(from, to)
          /\ cache' = [cache EXCEPT ![from] = NoEntry, ![to] = NoAttr]
          /\ lookup' = IF lookup.path = from THEN Voided(from) ELSE Voided(to)
          /\ UNCHANGED <<faults, history>>
       \/ RenameFails(from, to)
    /\ UNCHANGED <<engine, born, handles, nextHandle, creating, control>>

(* External: libfuse renames an open file instead of removing it.            *)
tri_unlink(p) ==
    /\ Served(p) /\ ~DirLocked
    /\ IsOpen(p) => ~Exists(Hidden) /\ ~IsOpen(Hidden)
    /\ \/ /\ \/ IsOpen(p) /\ Move(p, Hidden) /\ Renamed(p, Hidden)
             \/ ~IsOpen(p) /\ file' = [file EXCEPT ![p] = Nil] /\ UNCHANGED <<top, opens>>
          /\ cache' = [cache EXCEPT ![p] = NoEntry]
          /\ lookup' = Voided(p)
          /\ UNCHANGED <<faults, history>>
       \/ IsOpen(p) /\ RenameFails(p, Hidden)
       \/ ~IsOpen(p) /\ UnlinkFails(p)
    /\ UNCHANGED <<engine, born, handles, nextHandle, creating, control>>

(* tri_truncate; tri_chmod and tri_utimens differ in what they change.  The  *)
(* reply carries the new attributes, unless the call failed late.            *)
tri_truncate(p) ==
    /\ Served(p) /\ Truncate(p, {})
    /\ \/ /\ cache' = [cache EXCEPT ![p] = top'] /\ lookup' = Voided(p)
          /\ UNCHANGED <<faults, unseen>>
       \/ Fails /\ unseen' = unseen \cup {p} /\ UNCHANGED <<cache, lookup>>
    /\ UNCHANGED <<engine, born, handles, nextHandle, opens, creating, control,
                   stray, blind, foreign>>
-----------------------------------------------------------------------------
(***************************************************************************)
(* The control thread: one request at a time.                              *)
(***************************************************************************)
Goto(pc) == ctl' = [ctl EXCEPT !.pc = pc]

(* dispatch_filesystem_request: looks the engine up and, when the request    *)
(* may unlink names, reads their inodes.                                     *)
dispatch_filesystem_request(verb, p, d) ==
    /\ ctl = Idle /\ requests < MaxRequests /\ requests' = requests + 1
    /\ engine # 0 /\ verb \in {"fs.rm", "fs.mv", "fs.write", "fs.truncate"}
    /\ verb = "fs.mv" \/ d = p
    /\ ctl' = [Idle EXCEPT !.pc = "mutate", !.verb = verb, !.path = p, !.dest = d,
                 !.before = IF verb \in {"fs.rm", "fs.mv"} THEN find_path_inode(p) ELSE 0,
                 !.before2 = IF verb = "fs.mv" THEN find_path_inode(d) ELSE 0]
    /\ UNCHANGED <<daemon, kernel, faults, history>>

(* dispatch_filesystem_mutation.  What is reported does not depend on the    *)
(* outcome, so a call that fails late is one that changes the same, or half  *)
(* of it; an early failure changes nothing.                                  *)
mutate_names ==
    LET p == ctl.path IN
    /\ ctl.pc = "mutate" /\ ctl.verb \in {"fs.rm", "fs.mv"} /\ Goto("report")
    /\ \/ UNCHANGED <<file, top, acked, faults, blind>>
       \/ /\ Exists(p)
          /\ \/ ctl.verb = "fs.rm" /\ file' = [file EXCEPT ![p] = Nil] /\ UNCHANGED <<top, acked, faults>>
             \/ ctl.verb = "fs.rm" /\ HalfRemove(p) /\ Fails /\ UNCHANGED acked
             \/ ctl.verb = "fs.mv" /\ p # ctl.dest /\ Move(p, ctl.dest) /\ UNCHANGED <<acked, faults>>
             \/ ctl.verb = "fs.mv" /\ p # ctl.dest /\ HalfMove(p, ctl.dest) /\ Fails
          /\ blind' = IF ctl.before = 0 THEN blind \cup {p} ELSE blind
    /\ UNCHANGED <<engine, born, handles, nextHandle, kernel, requests, stray, unseen, foreign>>

mutate_contents ==
    /\ ctl.pc = "mutate" /\ ctl.verb = "fs.truncate" /\ Goto("report")
    /\ (Exists(ctl.path) /\ Truncate(ctl.path, {})) \/ UNCHANGED <<file, top, acked>>
    /\ UNCHANGED <<engine, born, handles, nextHandle, kernel, requests, faults, stray, unseen, blind, foreign>>

(* fs.write: write_file opens or creates the file, writes and closes it; at  *)
(* offset 0 the file is then cut to what was written.                        *)
write_file_open ==
    LET p == ctl.path IN
    /\ ctl.pc = "mutate" /\ ctl.verb = "fs.write"
    /\ IF Exists(p) THEN UNCHANGED <<file, top>> ELSE Publish(p, top + 1, {})
    /\ \/ /\ KeepHandle(p, file'[p], "w") /\ UNCHANGED faults
          /\ ctl' = [ctl EXCEPT !.pc = "write", !.num = nextHandle]
       \/ Fails /\ Goto("report") /\ UNCHANGED <<handles, nextHandle>>
    /\ UNCHANGED <<engine, born, kernel, requests, history>>

MutLeaksOnError(closed, failed) == IF failed THEN handles ELSE handles \ closed
write_file_close(closed, failed) == handles \ closed
write_file_write ==
    LET found == Handle(ctl.num) IN
    /\ ctl.pc = "write"
    /\ \/ /\ \E h \in found :
               write_handle(h) /\ acked' = [acked EXCEPT ![file[h.path].obj] = @ \cup {top'}]
          /\ ctl' = [ctl EXCEPT !.pc = "trim", !.num = top'] \/ Goto("report")
          /\ handles' = write_file_close(found, FALSE) /\ UNCHANGED faults
       \/ /\ \E h \in found : write_handle(h)
          /\ Fails /\ Goto("report")
          /\ handles' = write_file_close(found, TRUE) /\ UNCHANGED acked
       \/ /\ \A h \in found : ~Exists(h.path)
          /\ Goto("report") /\ handles' = write_file_close(found, TRUE)
          /\ UNCHANGED <<file, top, faults, acked>>
    /\ UNCHANGED <<engine, born, nextHandle, kernel, requests, stray, unseen, blind, foreign>>

trim ==
    LET p == ctl.path IN
    /\ ctl.pc = "trim" /\ Goto("report")
    /\ (Exists(p) /\ Truncate(p, file[p].text \cap {ctl.num})) \/ UNCHANGED <<file, top, acked>>
    /\ UNCHANGED <<engine, born, handles, nextHandle, kernel, requests, faults, stray, unseen, blind, foreign>>

(* forget_kernel_cache_for_workspace_path, attributes: libfuse knows nothing *)
(* of a name whose first look-up is still under way.                         *)
MutKeepsAttributes(p) == UNCHANGED <<cache, lookup, unseen>>
invalidate_attributes(p) ==
    IF Known(p) THEN cache' = Forgotten(p) /\ lookup' = Voided(p) /\ UNCHANGED unseen
    ELSE /\ unseen' = IF lookup.path = p THEN unseen \cup {p} ELSE unseen
         /\ UNCHANGED <<cache, lookup>>

(* report_filesystem_mutation: attributes are dropped whatever happened, the *)
(* entry when the name is no longer what it was before.                      *)
MutIgnoresMissing(p, before) == find_path_inode(p) \notin {0, before}
Unlinked(p, before) == find_path_inode(p) # before
report_filesystem_mutation ==
    LET second == ctl.pc = "report2"
        p == IF second THEN ctl.dest ELSE ctl.path
        unlinked == /\ ctl.verb = "fs.rm" \/ (ctl.verb = "fs.mv" /\ ctl.path # ctl.dest)
                    /\ Unlinked(p, IF second THEN ctl.before2 ELSE ctl.before)
        more == ctl.verb = "fs.mv" /\ ~second
    IN /\ ctl.pc \in {"report", "report2"} /\ invalidate_attributes(p)
       /\ ctl' = IF unlinked THEN [ctl EXCEPT !.pc = IF second THEN "drop2" ELSE "drop", !.before = 0]
                 ELSE IF more THEN [ctl EXCEPT !.pc = "report2", !.before = 0] ELSE Idle
       /\ UNCHANGED <<daemon, opens, creating, requests, faults, acked, stray, blind, foreign>>

(* ... entries: the name is dropped under the lock of the parent directory.  *)
drop_entry ==
    /\ ctl.pc \in {"drop", "drop2"} /\ ctl.verb # "ws.remove" /\ ~DirLocked
    /\ cache' = [cache EXCEPT ![IF ctl.pc = "drop2" THEN ctl.dest ELSE ctl.path] = NoEntry]
    /\ ctl' = IF ctl.verb = "fs.mv" /\ ctl.pc = "drop" THEN [ctl EXCEPT !.pc = "report2"] ELSE Idle
    /\ UNCHANGED <<daemon, opens, lookup, creating, requests, faults, history>>

(* The name of a removed Workspace is in the view root, whose lock nobody    *)
(* who works inside the Workspace holds.  The names inside go with it, but   *)
(* not those in use, and a look-up under way brings its entry later.         *)
InUse(p) == (IsOpen(p) /\ cache[p] # NoEntry) \/ (lookup.dir /\ lookup.path = p)
drop_workspace_entry ==
    /\ ctl.pc = "drop" /\ ctl.verb = "ws.remove" /\ ctl' = Idle
    /\ cache' = [p \in Paths |-> IF IsOpen(p) THEN cache[p] ELSE NoEntry]
    /\ blind' = blind \cup {p \in Paths : InUse(p)}
    /\ UNCHANGED <<daemon, opens, lookup, creating, requests, faults, acked, stray, unseen, foreign>>

(* remove_workspace: the engine goes, and its handles with it.               *)
remove_workspace ==
    /\ ctl = Idle /\ requests < MaxRequests /\ requests' = requests + 1 /\ "ws.remove" \in Verbs
    /\ engine # 0 /\ engine' = 0 /\ handles' = {}
    /\ file' = [p \in Names |-> Nil]
    /\ ctl' = [Idle EXCEPT !.pc = "drop", !.verb = "ws.remove"]
    /\ UNCHANGED <<born, top, nextHandle, kernel, faults, history>>

(* create_workspace: a fresh engine, whose handles are numbered from 1.      *)
create_workspace ==
    /\ ctl = Idle /\ "ws.create" \in Verbs
    /\ engine = 0 /\ born < MaxEngines /\ born' = born + 1 /\ engine' = born'
    /\ file' = Fresh /\ nextHandle' = 1
    /\ acked' = [o \in Inodes |-> {}]
    /\ UNCHANGED <<top, handles, control, kernel, faults, stray, unseen, blind, foreign>>
-----------------------------------------------------------------------------
Next ==
    \/ \E p \in Paths :
         \/ tri_getattr(p) \/ Expire(p)
         \/ \E mode \in Modes : tri_open(p, mode)
         \/ tri_create(p) \/ tri_unlink(p) \/ tri_truncate(p)
         \/ \E q \in Paths : tri_rename(p, q)
         \/ \E q \in Paths, verb \in Verbs : dispatch_filesystem_request(verb, p, q)
    \/ Reply \/ tri_create_open
    \/ \E o \in opens : tri_write(o) \/ tri_release(o)
    \/ mutate_names \/ mutate_contents \/ write_file_open \/ write_file_write \/ trim
    \/ report_filesystem_mutation \/ drop_entry \/ drop_workspace_entry \/ remove_workspace \/ create_workspace

Spec == Init /\ [][Next]_vars
-----------------------------------------------------------------------------
(* Every variable has its type, and handle numbers are given out once.       *)
TypeOK ==
    /\ engine \in 0 .. born /\ born \in 1 .. MaxEngines
    /\ file \in [Names -> Files \cup {Nil}] /\ top \in 0 .. MaxInodes
    /\ handles \subseteq [num : Nat, path : Paths, writable : BOOLEAN, back : Files \cup {Nil}]
    /\ \A h \in handles : h.num < nextHandle /\ Handle(h.num) = {h}
    /\ \A o \in opens : o.node \in Names /\ o.obj \in Inodes /\ o.last \in 0 .. top
    /\ cache \in [Paths -> {NoEntry, NoAttr} \cup Inodes]
    /\ lookup.path \in Paths \cup {None} /\ creating \in Paths \cup {None}
    /\ ctl.pc \in {"idle", "mutate", "write", "trim", "report", "drop", "report2", "drop2"}
    /\ acked \in [Inodes -> SUBSET Inodes]

(* Between two control requests, a name the kernel has an entry of exists: a *)
(* removal, a rename or the removal of the Workspace made by the control     *)
(* thread has been dropped from the cache (control_server.cpp,               *)
(* fuse_adapter.cpp).  Set aside (blind): a name that appeared after the     *)
(* thread had read its inode and that it then removed, one that was open or  *)
(* being looked up when its Workspace went, and one whose removal or rename  *)
(* by a tool failed after it had happened.                                   *)
EntriesCurrent ==
    ctl = Idle => \A p \in Paths \ blind : cache[p] # NoEntry => engine # 0 /\ Exists(p)

(* Between two control requests, cached attributes are those of the version  *)
(* the name has.  Set aside (unseen): a name written through a handle that   *)
(* was opened under it and renamed since, one changed while its first        *)
(* look-up was under way, one that a call changed before it failed, and the  *)
(* names in blind.                                                           *)
AttrsCurrent ==
    ctl = Idle => \A p \in Paths \ (unseen \cup blind) :
                    cache[p] \in {NoEntry, NoAttr, find_path_inode(p)}

(* An acknowledged write is in the file it was made to until somebody        *)
(* truncates the file, whichever handles, renames and control requests come  *)
(* in between (write_handle copies the visible version).  Set aside: writes  *)
(* through a path that names another file since the open.                    *)
NoLostWrite ==
    \A p \in Names : Exists(p) => acked[file[p].obj] \ stray \subseteq file[p].text

(* An open file reads its own last write, through whatever version its       *)
(* handle holds (read_handle), unless that version could not be opened.      *)
ReadsOwnLastWrite ==
    ~foreign => \A o \in opens : (o.born = engine /\ o.last # 0) =>
        \A h \in Handle(o.num) : h.back # Nil => o.last \in h.back.text

(* The handles of the engine are those of the open files and of the request  *)
(* the control thread executes: none is lost and none is left behind by an   *)
(* error or by the removal of the Workspace.  Set aside: a number from an    *)
(* earlier engine of the name that met a handle of this one.                 *)
HandlesOwned ==
    ~foreign => {h.num : h \in handles} =
        {o.num : o \in {q \in opens : q.born = engine}}
          \cup (IF ctl.pc = "write" THEN {ctl.num} ELSE {})
=============================================================================
