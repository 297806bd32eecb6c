---------------------------- MODULE AdmissionBound ----------------------------
(***************************************************************************)
(* What a rate limiter promises of one key, whatever its algorithm: in any *)
(* stretch of time it admits no more than is allowed for the length of     *)
(* that stretch, however the requests arrive.                              *)
(*                                                                         *)
(* FixedWindow, SlidingWindow and TokenBucket implement this module, each  *)
(* with its own Allowed; RateLimitGuard is built upon it.                  *)
(***************************************************************************)
EXTENDS Integers

CONSTANTS MaxTime,     \* bound on the clock
          Cost,        \* what one admission takes of what is allowed
          Allowed      \* length of a stretch (0: one tick) -> what it may take

VARIABLES now,
          spent        \* tick -> what was taken by the end of that tick

vars == <<now, spent>>

Init == /\ now = 0
        /\ spent = [t \in 0..MaxTime |-> 0]

Before(s, a) == IF a = 0 THEN 0 ELSE s[a - 1]

\* No stretch that ends at t has taken more than it may.
Within(s, t) == \A a \in 0..t : s[t] - Before(s, a) <= Allowed[t - a]

Admit == /\ spent' = [spent EXCEPT ![now] = @ + Cost]
         /\ Within(spent', now)
         /\ UNCHANGED now

\* The key is deleted on purpose, and what was taken is forgiven.
Forgive == /\ spent' = [t \in 0..MaxTime |-> 0]
           /\ UNCHANGED now

Tick == /\ now < MaxTime
        /\ now' = now + 1
        /\ spent' = [spent EXCEPT ![now + 1] = spent[now]]

Next == Admit \/ Forgive \/ Tick

Spec == Init /\ [][Next]_vars
=============================================================================
