---------------------------- MODULE WorkspaceView ----------------------------
(***************************************************************************)
(* What a Workspace promises the programs that use it: one tree, changed   *)
(* by one mutation at a time, each of which happens completely or not at   *)
(* all.  No layers, journal, staging, crashes or recovery.                 *)
(***************************************************************************)
EXTENDS VisibleTree

CONSTANT BaseView    \* the tree a Workspace begins from

VARIABLE view

Init == view = BaseView

(* A mutation needs the directory it lands in, and a write needs a file. *)
Mutate(r) ==
    /\ Admitted(view, r)
    /\ Destination(r) # Root => IsDir(view, Parent(Destination(r)))
    /\ r.kind = "write" => Exists(view, r.path) /\ ~IsDir(view, r.path)
    /\ view' = Applied(view, r)

Next == \E r \in Requests : Mutate(r)

Spec == Init /\ [][Next]_view
=============================================================================
