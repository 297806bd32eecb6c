---------------------------- MODULE MCResolveCache ----------------------------
(* ResolveCache with two processes, each with its readers and its writers. *)
EXTENDS ResolveCache

CONSTANTS p1, p2, r1, r2, w1, w2

TwoProcesses == [x \in Reader \cup Writer |-> IF x \in {r1, w1} THEN p1 ELSE p2]
=============================================================================
