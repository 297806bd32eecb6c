----------------------------- MODULE MCAuthSession -----------------------------
(* AuthSession with two sessions and two requests. *)
EXTENDS AuthSession, TLC

Symmetry == Permutations(Session) \cup Permutations(Request)
=============================================================================
