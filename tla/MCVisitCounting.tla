-------------------------- MODULE MCVisitCounting --------------------------
(* VisitCounting on a small instance. *)
EXTENDS VisitCounting
=============================================================================
