-------------------------- MODULE MCWorkspaceEngine --------------------------
(* Instances of WorkspaceEngine: a Base state with one directory d holding   *)
(* one file d/x, and room for a second directory e with a file e/x.  In the  *)
(* runs that do not say otherwise no name is the lower-case form of another. *)
EXTENDS WorkspaceEngine

MCNames == {"d", "e", "x"}
MCPaths == {<<>>, <<"d">>, <<"d", "x">>, <<"e">>, <<"e", "x">>}
MCVals == {"v0", "v1"}
BaseOn(paths) == [p \in paths |->
    [kind |-> CASE p \in {<<>>, <<"d">>} -> "dir" [] p = <<"d", "x">> -> "file" [] OTHER -> "absent",
     val |-> "v0", ino |-> 0]]
MCBase == BaseOn(MCPaths)
MCFoldCase == [n \in MCNames |-> n]

Req(k, p, t) == [kind |-> k, path |-> p, target |-> t, val |-> "v1"]
Named == MCPaths \ {<<>>}

(* Renames that keep the moved subtree inside the universe of paths. *)
FittingRenames ==
    {r \in {Req("rename", f, t) : f \in Named, t \in Named} :
        r.path # r.target /\ Len(r.path) >= Len(r.target)}

(* Every kind of mutation; chmod of what the Base state holds.  Renames onto d, the directory that *)
(* holds a removable Base entry, are the subject of ResurrectingRequests.    *)
(* symlink and truncate stage exactly what create and write stage, utimens   *)
(* what chmod stages, with the old mode.                                     *)
MCRequests ==
    {Req(k, p, <<>>) : k \in {"create", "mkdir", "write", "unlink", "rmdir"}, p \in Named}
    \cup {Req("chmod", p, <<>>) : p \in {<<>>, <<"d">>, <<"d", "x">>}}
    \cup {Req("utimens", <<"d", "x">>, <<>>)}
    \cup {r \in FittingRenames : r.target # <<"d">>}

(* Without a chmod of the root or of a directory that may have entries. *)
SafeRequests == {r \in MCRequests : r.kind = "chmod" => Len(r.path) = 2}

(* Remove the file in d, and rename another directory onto the empty d. *)
ResurrectingRequests ==
    {Req("unlink", <<"d", "x">>, <<>>), Req("mkdir", <<"e">>, <<>>),
     Req("rename", <<"e">>, <<"d">>)}

(* Only changes of directory metadata. *)
ChmodRequests == {Req("chmod", <<"d">>, <<>>), Req("chmod", <<"d", "x">>, <<>>)}

(* Two directories beside d, one of them spelt as d in upper case: remove    *)
(* the file in d, and rename the one onto the other.                         *)
CaseNames == {"d", "D", "f", "x"}
CasePaths == {<<>>, <<"d">>, <<"d", "x">>, <<"D">>, <<"D", "x">>, <<"f">>, <<"f", "x">>}
CaseBase == BaseOn(CasePaths)
CaseFolding == [n \in CaseNames |-> IF n = "D" THEN "d" ELSE n]
CaseRequests ==
    {Req("unlink", <<"d", "x">>, <<>>), Req("mkdir", <<"f">>, <<>>),
     Req("rename", <<"f">>, <<"D">>)}
=============================================================================
