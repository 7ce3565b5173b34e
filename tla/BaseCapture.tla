---------------------------- MODULE BaseCapture ----------------------------
(***************************************************************************)
(* What is captured of a Project: the walk over its files, and the answer  *)
(* of `tribios check-ignore`, which must agree with the walk.  The         *)
(* patterns are those compile returns.                                     *)
(***************************************************************************)
EXTENDS CapturePolicy, ProjectTree

(* The entries of an excluded tree, under the rules the capture applies.     *)
RECURSIVE count_excluded_tree(_, _)
MutCountsItselfOnly(tree, path) == {path}
count_excluded_tree(tree, path) ==
    {path} \cup (IF tree[path] # "dir" THEN {}
                 ELSE UNION {count_excluded_tree(tree, child) :
                             child \in {c \in Children(tree, path) : Capturable(tree, c)}})

(* The children of dir the walk looks at, and those the policy keeps.  One   *)
(* that lstat fails for is passed over without a word, as special files are. *)
Considered(tree, dir) ==
    {path \in Children(tree, dir) :
        Capturable(tree, path) /\ (dir = <<>> => path[1] \notin {GitDir, TribiosDir, PolicyFile})}
Kept(tree, patterns, dir) ==
    {path \in Considered(tree, dir) : ~excluded(patterns, path, tree[path] = "dir")}

(* capture_directory: what the walk beneath dir captures, and what it counts *)
(* as excluded.                                                              *)
RECURSIVE capture_directory(_, _, _)
capture_directory(tree, patterns, dir) ==
    LET kept == Kept(tree, patterns, dir)
        below == {capture_directory(tree, patterns, d) : d \in {k \in kept : tree[k] = "dir"}}
    IN [captured |-> kept \cup UNION {b.captured : b \in below},
        excluded |-> UNION {count_excluded_tree(tree, path) :
                            path \in Considered(tree, dir) \ kept}
                       \cup UNION {b.excluded : b \in below}]

(* walk_project: the policy file itself is always captured.                  *)
walk_project(tree, patterns) ==
    LET walk == capture_directory(tree, patterns, <<>>)
    IN [walk EXCEPT !.captured = @ \cup {path \in Universe : path = <<PolicyFile>> /\ tree[path] = "file"}]

(* explain_capture_decision: is the path excluded?  The first ancestor that  *)
(* is a link, a mount or excluded decides.  Of an entry that lstat fails for *)
(* only the policy is asked.                                                 *)
MutFollowsLinks(tree, patterns, ancestor) ==
    tree[ancestor] = "mount" \/ excluded(patterns, ancestor, TRUE)
AncestorDecides(tree, patterns, ancestor) ==
    tree[ancestor] \in {"link", "mount"} \/ excluded(patterns, ancestor, TRUE)
explain_capture_decision(tree, patterns, path) ==
    IF path[1] \in {GitDir, TribiosDir} THEN TRUE
    ELSE IF path = <<PolicyFile>> THEN FALSE
    ELSE \/ \E a \in Ancestors(path) : AncestorDecides(tree, patterns, a)
         \/ tree[path] \in {"mount", "special"}
         \/ excluded(patterns, path, tree[path] = "dir")
-----------------------------------------------------------------------------
(* check-ignore says "excluded" of an entry exactly when the capture leaves  *)
(* it out, and the walk counts every entry that it could capture once, as    *)
(* captured or as excluded.  Set aside: an entry that lstat fails for, which *)
(* the capture leaves out and check-ignore may call captured.                *)
ExplainAgreesOn(t, patterns, walk) ==
    LET Reaches(path) == \A a \in Ancestors(path) : t[a] = "dir"
        Beyond(path) == \E a \in Ancestors(path) : t[a] \in {"link", "mount"}
        Metadata(path) == path[1] \in {GitDir, TribiosDir}
    IN /\ \A path \in Universe : (t[path] \notin {"none", "unreadable"} \/ Beyond(path)) =>
             (path \notin walk.captured <=> explain_capture_decision(t, patterns, path))
       /\ walk.captured \cap walk.excluded = {}
       /\ walk.captured \cup walk.excluded =
             {path \in Universe : Capturable(t, path) /\ Reaches(path) /\ ~Metadata(path)}
=============================================================================
