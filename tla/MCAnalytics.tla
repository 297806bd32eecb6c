------------------------------ MODULE MCAnalytics ------------------------------
(* Analytics of two workspaces, with days of two hours, in UTC and in a zone
   that is an hour ahead: of a workspace for the default range, for a part of it,
   for a range that ends before it begins, of a link, and of a link that is
   another workspace's. *)
EXTENDS Analytics, TLC

CONSTANTS a, b

Symmetry == Permutations(Event)
InWorkspaces == <<a, a, b>>
Utc == [h \in 0..3 |-> 0]
Ahead == [h \in 0..3 |-> 1]

Zones == {Utc, Ahead}

Asked(link, from, to, granularity, zone) ==
    [ws |-> a, link |-> link, from |-> from, to |-> to, granularity |-> granularity, zone |-> zone]

Queries == {Asked(None, None, None, "day", Utc), Asked(None, None, None, "hour", Utc),
            Asked(None, 1, 3, "hour", Ahead),
            Asked(None, 3, 1, "day", Utc), Asked(1, 1, 3, "day", Ahead), Asked(3, 2, 4, "day", Utc)}
=============================================================================
