------------------------------ MODULE RateLimits ------------------------------
(***************************************************************************)
(* The three limiters and the guard of an endpoint, side by side           *)
(* (src/rate-limit).  They share nothing, each endpoint having a key of    *)
(* its own, so one of them moves, chosen at the start, and the others stay *)
(* as they are.  The token bucket is this module's own.                    *)
(***************************************************************************)
EXTENDS TokenBucket

CONSTANTS FLimit, FWindow, FMaxTime,                      \* of the fixed window
          SLimit, SWindow, SMilli, SSecond, SMaxTime,     \* of the sliding window
          Request, GMaxTime, Allowed, MaxFaults           \* of the guard

VARIABLES moves,                                          \* the one that moves
          fNow, count, fExpiresAt, fSpent, fRetryAt,      \* the fixed window's
          sNow, members, sExpiresAt, sSpent, sRetryAt,    \* the sliding window's
          failureMode, gNow, gSpent, pc, faults           \* the guard's

fixedVars == <<fNow, count, fExpiresAt, fSpent, fRetryAt>>
slidingVars == <<sNow, members, sExpiresAt, sSpent, sRetryAt>>
guardVars == <<failureMode, gNow, gSpent, pc, faults>>
allVars == <<moves, vars, fixedVars, slidingVars, guardVars>>

Fixed == INSTANCE FixedWindow
    WITH now <- fNow, expiresAt <- fExpiresAt, spent <- fSpent, retryAt <- fRetryAt,
         Limit <- FLimit, Window <- FWindow, MaxTime <- FMaxTime

Sliding == INSTANCE SlidingWindow
    WITH now <- sNow, expiresAt <- sExpiresAt, spent <- sSpent, retryAt <- sRetryAt,
         Limit <- SLimit, Window <- SWindow, Milli <- SMilli, Second <- SSecond,
         MaxTime <- SMaxTime

Guard == INSTANCE RateLimitGuard
    WITH now <- gNow, spent <- gSpent, MaxTime <- GMaxTime

ASSUME LimitAssumption ==
    /\ Fixed!WindowAssumption
    /\ Sliding!WindowAssumption
    /\ Guard!GuardAssumption

AllInit ==
    /\ moves \in {"bucket", "fixed", "sliding", "guard"}
    /\ Init /\ Fixed!Init /\ Sliding!Init /\ Guard!Init

AllNext ==
    /\ UNCHANGED moves
    /\ \/ /\ moves = "bucket" /\ Next
          /\ UNCHANGED <<fixedVars, slidingVars, guardVars>>
       \/ /\ moves = "fixed" /\ Fixed!Next
          /\ UNCHANGED <<vars, slidingVars, guardVars>>
       \/ /\ moves = "sliding" /\ Sliding!Next
          /\ UNCHANGED <<vars, fixedVars, guardVars>>
       \/ /\ moves = "guard" /\ Guard!Next
          /\ UNCHANGED <<vars, fixedVars, slidingVars>>

AllSpec == AllInit /\ [][AllNext]_allVars

(***************************************************************************)
(* Properties                                                              *)
(***************************************************************************)
\* Both windows keep their bound in every stretch of time: the fixed one twice
\* the limit around its boundary, the sliding one the limit wherever it begins.
WindowsImplementBound == Fixed!ImplementsBound /\ Sliding!ImplementsBound

\* Both windows send a client away for long enough.
WindowsRetryAfterSuffices == Fixed!RetryAfterSuffices /\ Sliding!RetryAfterSuffices

\* A closed endpoint keeps to the limiter's bound although Redis fails.
ClosedStaysBounded == Guard!ClosedStaysBounded

\* An open endpoint lets one request pass uncounted for each failing call.
OpenPaysPerFault == Guard!OpenPaysPerFault
=============================================================================
