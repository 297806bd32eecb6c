---------------------------- MODULE RateLimitGuard ----------------------------
(***************************************************************************)
(* The guard of one rate-limited endpoint (src/rate-limit/guards) and the  *)
(* calls it makes of the limiter of one key, any one that implements       *)
(* AdmissionBound.  Requests overlap in any number of processes, and Redis *)
(* may fail a call before the script has run or after.                     *)
(***************************************************************************)
EXTENDS Integers, FiniteSets

CONSTANTS Request,
          MaxTime, Allowed,    \* of the limiter
          MaxFaults            \* bound on failing calls of Redis

GuardAssumption ==
    /\ IsFiniteSet(Request)
    /\ MaxTime \in Nat /\ MaxFaults \in Nat
    /\ Allowed \in [0..MaxTime -> Nat]
    \* A longer stretch may take as much, as it may of each of the limiters.
    /\ \A d, e \in 0..MaxTime : d <= e => Allowed[d] <= Allowed[e]

VARIABLES failureMode,   \* of the endpoint: "open" or "closed"
          now, spent,    \* the limiter's
          pc,            \* request -> where it is, or its outcome
          faults

limiterVars == <<now, spent>>
vars == <<failureMode, limiterVars, pc, faults>>

Limiter == INSTANCE AdmissionBound WITH Cost <- 1

Init ==
    /\ failureMode \in {"open", "closed"}
    /\ Limiter!Init
    /\ pc = [r \in Request |-> "asking"]
    /\ faults = 0

Goes(r, from, to) == pc[r] = from /\ pc' = [pc EXCEPT ![r] = to]

\* The script runs.
Admitted(r) ==
    /\ Goes(r, "asking", "admitted")
    /\ Limiter!Admit
    /\ UNCHANGED <<failureMode, faults>>

\* The script runs, and takes nothing.
Refused(r) ==
    /\ Goes(r, "asking", "refused")
    /\ UNCHANGED <<failureMode, limiterVars, faults>>

\* canActivate answers by the limiter's result.
Answer(r) ==
    /\ Goes(r, "admitted", "passed") \/ Goes(r, "refused", "limited")
    /\ UNCHANGED <<failureMode, limiterVars, faults>>

\* Mutant: the catch clause lets the request pass in both modes.
AlwaysOpen == "passed"

\* Mutant: without a failureMode the request is turned away.
AlwaysClosed == "unavailable"

\* What the catch clause makes of a request.
OnFailure == IF failureMode = "closed" THEN "unavailable" ELSE "passed"

\* eval rejects, before the script has run or after.
RedisFails(r) ==
    /\ faults < MaxFaults
    /\ faults' = faults + 1
    /\ \E from \in {"asking", "admitted", "refused"} : Goes(r, from, OnFailure)
    /\ UNCHANGED <<failureMode, limiterVars>>

Tick == Limiter!Tick /\ UNCHANGED <<failureMode, pc, faults>>

Next ==
    \/ \E r \in Request : Admitted(r) \/ Refused(r) \/ Answer(r) \/ RedisFails(r)
    \/ Tick

Spec == Init /\ [][Next]_vars

(***************************************************************************)
(* Properties                                                              *)
(***************************************************************************)
Are(outcome) == {r \in Request : pc[r] = outcome}

\* An endpoint that fails closed lets no more requests pass than the limiter
\* admits, whatever becomes of Redis and of its answers.
ClosedStaysBounded ==
    failureMode = "closed" => Cardinality(Are("passed")) <= Allowed[now]

\* An endpoint that fails open turns away nobody because of Redis, and lets at
\* most one request pass uncounted for each failing call.
OpenPaysPerFault ==
    failureMode = "open" =>
        /\ Are("unavailable") = {}
        /\ Cardinality(Are("passed")) <= Allowed[now] + faults
=============================================================================
