----------------------------- MODULE MCWorkspaces -----------------------------
(* Workspaces with two workspaces, two users and two requests at a time. *)
EXTENDS Workspaces, TLC

Symmetry == Permutations(User) \cup Permutations(Workspace) \cup Permutations(Member)
                \cup Permutations(Request)
=============================================================================
