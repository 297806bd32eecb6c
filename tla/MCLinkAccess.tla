----------------------------- MODULE MCLinkAccess -----------------------------
(* LinkAccess with one visit and one unlock at a time, and two editors. *)
EXTENDS LinkAccess, TLC

Symmetry == Permutations(Editor) \cup Permutations(Password)
=============================================================================
