------------------------- MODULE MCProjectLifecycle -------------------------
(* Instances of ProjectLifecycle: two Workspace names, the user's branch     *)
(* main, and two branches that creations may ask for.                        *)
EXTENDS ProjectLifecycle

MCWorkspaces == {"w1", "w2"}
MCUserBranches == {"main"}
MCBranches == MCUserBranches \cup {"b1", "b2"}
=============================================================================
