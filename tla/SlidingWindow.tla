---------------------------- MODULE SlidingWindow ----------------------------
(***************************************************************************)
(* The sliding window of one key (src/rate-limit/scripts), which protects  *)
(* the logins of one address.                                              *)
(*                                                                         *)
(* The sorted set maps a member, made up for each request, to its score.   *)
(* A tick is the resolution of the scores, a fraction of a millisecond;    *)
(* the answer is given in milliseconds, and the header in seconds.  The    *)
(* script runs atomically.                                                 *)
(***************************************************************************)
EXTENDS Integers, FiniteSets

CONSTANTS Limit,       \* limit
          Window,      \* windowSeconds, in ticks
          Milli,       \* ticks per millisecond
          Second,      \* milliseconds per second
          MaxTime      \* bound on the clock

WindowAssumption ==
    /\ Limit \in Nat \ {0}
    /\ Window \in Nat \ {0} /\ Milli \in Nat \ {0} /\ Second \in Nat \ {0}
    /\ Window % (Milli * Second) = 0
    /\ MaxTime \in Nat

VARIABLES now,
          members,     \* the sorted set: member -> its score
          expiresAt,   \* of its key
          spent,       \* tick -> requests admitted by the end of that tick
          retryAt      \* the earliest time a client was told to come back, or Never

vars == <<now, members, expiresAt, spent, retryAt>>

Never == MaxTime + Window + Milli * Second + 1

Init ==
    /\ now = 0
    /\ members = [i \in {} |-> 0] /\ expiresAt = 0
    /\ spent = [t \in 0..MaxTime |-> 0]
    /\ retryAt = Never

Outdated(t) == t <= now - Window

\* What ZREMRANGEBYSCORE leaves, of a key that Redis may have dropped.
Remaining == {i \in DOMAIN members : now <= expiresAt /\ ~Outdated(members[i])}

Expiry == now + 2 * Window

\* ZCARD.
Room == Cardinality(Remaining) < Limit

\* The member is a number nobody has used, the service's random UUID.
Member == spent[now] + 1

Admit ==
    /\ Room
    /\ members' = [i \in Remaining \cup {Member} |-> IF i = Member THEN now ELSE members[i]]
    /\ expiresAt' = Expiry
    /\ spent' = [spent EXCEPT ![now] = @ + 1]
    /\ retryAt' = Never
    /\ UNCHANGED now

\* ZRANGE from 0 to 0.
Oldest == CHOOSE i \in Remaining : \A j \in Remaining : members[i] <= members[j]

\* Until the oldest request leaves the window, in whole milliseconds.
RetryAfterMs == (members[Oldest] + Window - now) \div Milli

\* Mutant: the header cuts the seconds off.
HeaderCutOff == RetryAfterMs \div Second

\* The Retry-After header; without one a client comes back as it likes.
Header == (RetryAfterMs + Second - 1) \div Second

Least(a, b) == IF a <= b THEN a ELSE b

Refuse ==
    /\ ~Room
    /\ members' = [i \in Remaining |-> members[i]]
    /\ retryAt' = Least(retryAt, now + Header * Second * Milli)
    /\ UNCHANGED <<now, expiresAt, spent>>

Tick ==
    /\ now < MaxTime
    /\ now' = now + 1
    /\ spent' = [spent EXCEPT ![now + 1] = spent[now]]
    /\ UNCHANGED <<members, expiresAt, retryAt>>

Next == Admit \/ Refuse \/ Tick

Spec == Init /\ [][Next]_vars

(***************************************************************************)
(* Properties                                                              *)
(***************************************************************************)
\* As many as fit into the windows that cover a stretch.
PerWindow == [d \in 0..MaxTime |-> ((d \div Window) + 1) * Limit]

Bound == INSTANCE AdmissionBound WITH Allowed <- PerWindow, Cost <- 1

\* No stretch as long as the window admits more than the limit, wherever it
\* begins, although the key is dropped and outdated members are removed.
ImplementsBound == Bound!Spec

\* A client that comes back a millisecond later than it was told is admitted,
\* unless another one was quicker.
RetryAfterSuffices == now >= retryAt + Milli => Room
=============================================================================
