---------------------------- MODULE CircuitBreaker ----------------------------
(***************************************************************************)
(* The circuit breaker of one API process in front of the Redis cache      *)
(* (src/cache/cache-circuit-breaker.service.ts) and the calls of getOrLoad *)
(* (src/cache/redirect-cache.service.ts) it lets through.                  *)
(*                                                                         *)
(* A call acquires a permit, works with Redis and the database for as long *)
(* as it takes, and reports to the breaker, whatever state that is in by   *)
(* then.  A call stands for one slot of concurrency: it is used again and  *)
(* again.                                                                  *)
(*                                                                         *)
(* cooldown is the time left until Date.now() - openedAt reaches           *)
(* openDurationMs.  failureCount is counted up to the threshold, which is  *)
(* all the code compares it with.                                          *)
(***************************************************************************)
EXTENDS Naturals

CONSTANTS Call,              \* concurrent calls of getOrLoad
          Enabled,           \* CACHE_CIRCUIT_BREAKER_ENABLED
          FailureThreshold,  \* CACHE_CIRCUIT_FAILURE_THRESHOLD
          OpenDuration,      \* CACHE_CIRCUIT_OPEN_MS, in ticks
          MaxLoaderFailures  \* bound on failing database loaders

ASSUME BreakerAssumption ==
    /\ Enabled \in BOOLEAN
    /\ FailureThreshold \in Nat \ {0}
    /\ OpenDuration \in Nat \ {0}
    /\ MaxLoaderFailures \in Nat

VARIABLES state, failureCount, cooldown, probeInFlight,
          permit,         \* call -> the permit it works with, or "none"
          loaderFailures

breakerVars == <<state, failureCount, cooldown, probeInFlight>>
vars == <<breakerVars, permit, loaderFailures>>

Init ==
    /\ state = "closed"
    /\ failureCount = 0
    /\ cooldown = 0
    /\ probeInFlight = FALSE
    /\ permit = [c \in Call |-> "none"]
    /\ loaderFailures = 0

(***************************************************************************)
(* acquire                                                                 *)
(***************************************************************************)
Gets(c, p) == permit[c] = "none" /\ permit' = [permit EXCEPT ![c] = p]

AcquireNormal(c) ==
    /\ Enabled => state = "closed"
    /\ Gets(c, "normal")
    /\ UNCHANGED <<breakerVars, loaderFailures>>

\* Mutant: acquire does not look at the clock.
CoolingForever == state = "open"

Cooling == state = "open" /\ cooldown > 0

\* Mutant: acquire does not remember the probe.
SlotNotTaken == probeInFlight

\* probeInFlight once acquire has granted a probe.
SlotTaken == TRUE

AcquireProbe(c) ==
    /\ Enabled
    /\ state # "closed"
    /\ ~Cooling
    /\ ~probeInFlight
    /\ state' = "half-open"
    /\ probeInFlight' = SlotTaken
    /\ Gets(c, "probe")
    /\ UNCHANGED <<failureCount, cooldown, loaderFailures>>

AcquireBypass(c) ==
    /\ Enabled
    /\ state # "closed"
    /\ Cooling \/ probeInFlight
    /\ state' = IF Cooling THEN state ELSE "half-open"
    /\ Gets(c, "bypass")
    /\ UNCHANGED <<failureCount, cooldown, probeInFlight, loaderFailures>>

(***************************************************************************)
(* The end of a call                                                       *)
(***************************************************************************)
UsesRedis(c) == permit[c] \in {"normal", "probe"}

Ends(c) == permit' = [permit EXCEPT ![c] = "none"]

\* recordSuccess: the cache answered, from Redis or from the process's own L1.
Succeed(c) ==
    /\ UsesRedis(c)
    /\ Ends(c)
    /\ IF Enabled
         THEN /\ failureCount' = 0
              /\ probeInFlight' = FALSE
              /\ state' = "closed"
              /\ UNCHANGED cooldown
         ELSE UNCHANGED breakerVars
    /\ UNCHANGED loaderFailures

Counted == IF failureCount < FailureThreshold THEN failureCount + 1
                                              ELSE FailureThreshold

\* The condition under which a failure opens the circuit.
Opens == state = "half-open" \/ Counted >= FailureThreshold

Restarted == OpenDuration

\* Mutant: every failure is counted, also after the circuit has opened.
IgnoresNothing == FALSE

\* recordFailure returns early.
IgnoresFailure == state = "open"

\* recordFailure: Redis failed the call, which goes on to ask the database.
Fail(c) ==
    /\ UsesRedis(c)
    /\ Ends(c)
    /\ IF ~Enabled
         THEN UNCHANGED breakerVars
         ELSE /\ probeInFlight' = FALSE
              /\ IF IgnoresFailure
                   THEN UNCHANGED <<state, failureCount, cooldown>>
                   ELSE /\ failureCount' = Counted
                        /\ state' = IF Opens THEN "open" ELSE state
                        /\ cooldown' = IF Opens THEN Restarted ELSE cooldown
    /\ UNCHANGED loaderFailures

\* The loader inside the cache failed: the error is rethrown, and the breaker
\* hears nothing.
LoaderFails(c) ==
    /\ UsesRedis(c)
    /\ loaderFailures < MaxLoaderFailures
    /\ loaderFailures' = loaderFailures + 1
    /\ Ends(c)
    /\ UNCHANGED breakerVars

\* A bypassing call has asked the database; it never reports.
BypassEnds(c) ==
    /\ permit[c] = "bypass"
    /\ Ends(c)
    /\ UNCHANGED <<breakerVars, loaderFailures>>

Tick ==
    /\ cooldown > 0
    /\ cooldown' = cooldown - 1
    /\ UNCHANGED <<state, failureCount, probeInFlight, permit, loaderFailures>>

Acquire(c) == AcquireNormal(c) \/ AcquireProbe(c) \/ AcquireBypass(c)

EndCall(c) == Succeed(c) \/ Fail(c) \/ BypassEnds(c)

Next ==
    \/ \E c \in Call : Acquire(c) \/ EndCall(c) \/ LoaderFails(c)
    \/ Tick

Spec == Init /\ [][Next]_vars

\* Time passes, calls end (every Redis and database client has a timeout),
\* and requests keep coming.
Fairness ==
    /\ WF_vars(Tick)
    /\ \A c \in Call : WF_vars(Acquire(c)) /\ WF_vars(EndCall(c))

FairSpec == Spec /\ Fairness

(***************************************************************************)
(* Properties                                                              *)
(***************************************************************************)
TypeOK ==
    /\ state \in {"closed", "open", "half-open"}
    /\ failureCount \in 0..FailureThreshold
    /\ cooldown \in 0..OpenDuration
    /\ probeInFlight \in BOOLEAN
    /\ permit \in [Call -> {"none", "normal", "probe", "bypass"}]
    /\ loaderFailures \in 0..MaxLoaderFailures

\* The breaker is half-open exactly while it takes a probe to be in flight:
\* no late report of another call leaves it half-open without one, or open or
\* closed with one.
HalfOpenIsProbing == (state = "half-open") <=> probeInFlight

\* A half-open breaker lets nobody but its one probe through to Redis, for as
\* long as it stays half-open.
HalfOpenLetsNobodyIn ==
    [][state = "half-open" /\ state' = "half-open"
         => \A c \in Call : permit[c] = "none" => permit'[c] \in {"none", "bypass"}]_vars

\* As long as the circuit stays open, nothing puts the end of the cooldown
\* off, however many calls of the same outage fail late.
CooldownNotExtended ==
    [][state = "open" /\ state' = "open" => cooldown' <= cooldown]_vars

\* A closed circuit has seen fewer failures than the threshold since the last
\* success.
ClosedBelowThreshold == state = "closed" => failureCount < FailureThreshold

\* As long as the database answers, an open circuit is probed or closed in the
\* end, and a half-open one closes or opens again.
AsksRedisAgain ==
    [](loaderFailures = 0) =>
        /\ (state = "open") ~> (state # "open")
        /\ (state = "half-open") ~> (state # "half-open")

\* What the test says of the half-open state: the probe closes the circuit or
\* opens it again.
HalfOpenEnds == (state = "half-open") ~> (state # "half-open")
=============================================================================
