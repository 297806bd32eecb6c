----------------------------- MODULE FixedWindow -----------------------------
(***************************************************************************)
(* The fixed window of one key (src/rate-limit/scripts), which protects    *)
(* the creation of links in one workspace and counts the failed logins of  *)
(* one account; a successful login deletes the key of the latter.          *)
(*                                                                         *)
(* A tick is a millisecond, the resolution in which Redis expires keys:    *)
(* a key is still there in the tick of its expiry.  The script runs        *)
(* atomically.                                                             *)
(***************************************************************************)
EXTENDS Integers

CONSTANTS Limit,       \* limit
          Window,      \* windowSeconds, in ticks
          MaxTime      \* bound on the clock

WindowAssumption ==
    /\ Limit \in Nat \ {0}
    /\ Window \in Nat \ {0}
    /\ MaxTime \in Nat

VARIABLES now,
          count,       \* the counter, up to Limit + 1; 0: no key
          expiresAt,
          spent,       \* tick -> requests admitted by the end of that tick
          retryAt      \* the earliest time a client was told to come back, or Never

vars == <<now, count, expiresAt, spent, retryAt>>

Never == MaxTime + Window + 1

Init ==
    /\ now = 0
    /\ count = 0 /\ expiresAt = 0
    /\ spent = [t \in 0..MaxTime |-> 0]
    /\ retryAt = Never

\* INCR.  The script tells no two numbers beyond the limit apart.
Counted == IF count <= Limit THEN count + 1 ELSE count

\* EXPIRE, for the first request of a window.
Expiry(c) == IF c = 1 THEN now + Window ELSE expiresAt

Count(c) == count' = c /\ expiresAt' = Expiry(c)

\* Mutant: off by one.
OverLimitByOne(c) == c > Limit + 1

OverLimit(c) == c > Limit

Admit ==
    /\ ~OverLimit(Counted)
    /\ Count(Counted)
    /\ spent' = [spent EXCEPT ![now] = @ + 1]
    /\ retryAt' = Never
    /\ UNCHANGED now

Least(a, b) == IF a <= b THEN a ELSE b

\* PTTL is the answer, and the header rounds it up.  Requests that are refused
\* count as well.
Refuse ==
    /\ OverLimit(Counted)
    /\ Count(Counted)
    /\ retryAt' = Least(retryAt, expiresAt')
    /\ UNCHANGED <<now, spent>>

\* clearAccountFailure.
Clear ==
    /\ count' = 0
    /\ spent' = [t \in 0..MaxTime |-> 0]
    /\ retryAt' = Never
    /\ UNCHANGED <<now, expiresAt>>

\* Redis forgets the key in the tick after its expiry.
Tick ==
    /\ now < MaxTime
    /\ now' = now + 1
    /\ count' = IF now' > expiresAt THEN 0 ELSE count
    /\ spent' = [spent EXCEPT ![now + 1] = spent[now]]
    /\ UNCHANGED <<expiresAt, retryAt>>

Next == Admit \/ Refuse \/ Clear \/ Tick

Spec == Init /\ [][Next]_vars

(***************************************************************************)
(* Properties                                                              *)
(***************************************************************************)
\* A stretch touches one window more than fit into it.
PerWindow == [d \in 0..MaxTime |-> ((d \div (Window + 1)) + 2) * Limit]

Bound == INSTANCE AdmissionBound WITH Allowed <- PerWindow, Cost <- 1

\* Since the last successful login, if the key has such, no stretch as long as
\* a window admits more than two windows' worth, nor a longer one more than
\* its windows do.
ImplementsBound == Bound!Spec

\* A refused client that comes back a tick later than it was told is admitted
\* unless others have used the next window up: those who keep asking do not
\* put its end off.
RetryAfterSuffices == now > retryAt => count <= Limit
=============================================================================
