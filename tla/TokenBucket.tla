----------------------------- MODULE TokenBucket -----------------------------
(***************************************************************************)
(* The token bucket of one key (src/rate-limit/scripts), which protects    *)
(* the redirects of one code.                                              *)
(*                                                                         *)
(* A tick is a millisecond.  Tokens are counted in ticks of refill: Cost   *)
(* of them make up one token, so that refilling adds one per tick; the     *)
(* floating point of the script is taken as exact.  The script runs        *)
(* atomically, with the clock of the Redis server, which may be set back   *)
(* while real time goes on.                                                *)
(***************************************************************************)
EXTENDS Integers

CONSTANTS Capacity,    \* tokens of a full bucket
          Cost,        \* ticks that refill one token: 1000 / refillPerSecond
          Ttl,         \* ticks for which the key is kept
          Second,      \* ticks per second
          MaxTime,     \* bound on real time
          MaxBack      \* bound on the ticks by which the clock is set back

Full == Capacity * Cost

\* Ttl is ceil(capacity / refillRate * 2) seconds.
ASSUME BucketAssumption ==
    /\ Capacity \in Nat \ {0} /\ Cost \in Nat \ {0}
    /\ Second \in Nat \ {0}
    /\ Full \in Nat /\ Cost <= Full
    /\ Ttl \in Nat /\ Ttl >= 2 * Full /\ Ttl < 2 * Full + Second
    /\ Ttl % Second = 0
    /\ MaxTime \in Nat /\ MaxBack \in Nat

VARIABLES now,          \* real time
          back,         \* how far the clock has been set back so far
          exists,       \* the key exists
          tokens, lastRefill, expiresAt,
          spent,        \* real tick -> what was taken by the end of that tick
          retryAt       \* the earliest time a client was told to come back, or Never

keyVars == <<exists, tokens, lastRefill, expiresAt>>
vars == <<now, back, keyVars, spent, retryAt>>

Never == MaxTime + Cost + 1

Init ==
    /\ now = 0 /\ back = 0
    /\ exists = FALSE
    /\ tokens = 0 /\ lastRefill = 0 /\ expiresAt = 0
    /\ spent = [t \in 0..MaxTime |-> 0]
    /\ retryAt = Never

\* redis TIME
Clock == MaxBack + now - back

Least(a, b) == IF a <= b THEN a ELSE b

Alive == exists /\ Clock <= expiresAt

\* The tokens after the refill: a bucket nobody remembers is full, and a clock
\* that went back refills nothing.
Level ==
    IF Alive THEN Least(Full, tokens + (IF Clock > lastRefill THEN Clock - lastRefill ELSE 0))
             ELSE Full

\* Mutant: the key is kept for a fraction of the time its refill takes.
ForgetsEarly == Clock + Cost

Expiry == Clock + Ttl

\* HSET and EXPIRE, whatever the answer is.
Store(n) ==
    /\ exists' = TRUE
    /\ tokens' = n
    /\ lastRefill' = Clock
    /\ expiresAt' = Expiry

Admit ==
    /\ Level >= Cost
    /\ Store(Level - Cost)
    /\ spent' = [spent EXCEPT ![now] = @ + Cost]
    /\ retryAt' = Never
    /\ UNCHANGED <<now, back>>

\* Mutant: the missing part of the token is rounded down.
RetryAfterShort == Cost - Level - 1

\* retryAfterMs: the refill of what is missing of one token.
RetryAfter == Cost - Level

Refuse ==
    /\ Level < Cost
    /\ Store(Level)
    /\ retryAt' = Least(retryAt, now + RetryAfter)
    /\ UNCHANGED <<now, back, spent>>

\* Redis removes an expired key, at any time after its expiry.
Expire ==
    /\ exists
    /\ Clock > expiresAt
    /\ exists' = FALSE
    /\ UNCHANGED <<now, back, tokens, lastRefill, expiresAt, spent, retryAt>>

Tick ==
    /\ now < MaxTime
    /\ now' = now + 1
    /\ spent' = [spent EXCEPT ![now + 1] = spent[now]]
    /\ UNCHANGED <<back, keyVars, retryAt>>

\* The clock is corrected backwards: what a client was told is void.
SetBack ==
    /\ back < MaxBack
    /\ back' = back + 1
    /\ retryAt' = Never
    /\ UNCHANGED <<now, keyVars, spent>>

Next == Admit \/ Refuse \/ Expire \/ Tick \/ SetBack

Spec == Init /\ [][Next]_vars

(***************************************************************************)
(* Properties                                                              *)
(***************************************************************************)
TypeOK ==
    /\ now \in 0..MaxTime /\ back \in 0..MaxBack
    /\ exists \in BOOLEAN
    /\ tokens \in 0..Full
    /\ lastRefill \in 0..(MaxBack + MaxTime)
    /\ expiresAt \in 0..(MaxBack + MaxTime + Ttl)
    /\ spent \in [0..MaxTime -> Nat]
    /\ retryAt \in 0..Never

\* A full bucket, and what has been refilled since.
BurstAndRefill == [d \in 0..MaxTime |-> Full + d]

Bound == INSTANCE AdmissionBound WITH Allowed <- BurstAndRefill

\* No stretch of real time takes more than a full bucket and the refill of
\* that stretch, although the key is forgotten and made anew as if it were
\* full, every answer moves lastRefill, and the clock may go back.
ImplementsBound == Bound!Spec

\* A client that comes back after the time it was told is admitted, unless
\* another one was quicker or the clock was set back.
RetryAfterSuffices == now >= retryAt => Level >= Cost
=============================================================================
