--------------------------- MODULE RedisGuardsProofs ---------------------------
(***************************************************************************)
(* What holds of the two guards that stand between a redirect and Redis    *)
(* (src/cache): of CircuitBreaker for every number of concurrent calls,    *)
(* every threshold and every cooldown, and of BloomFilter for every set of *)
(* processes, codes and buckets, every page size, and any number of        *)
(* failures and lost buckets.                                              *)
(***************************************************************************)
EXTENDS CircuitBreaker, BloomFilter, FiniteSetTheorems, TLAPS

(***************************************************************************)
(* The circuit breaker                                                     *)
(***************************************************************************)

\* Values are within their types: in particular the time that is left of a
\* cooldown never exceeds one cooldown.
THEOREM BreakerTypes == Spec => []TypeOK
  <1>1. Init => TypeOK
    <2> SUFFICES ASSUME Init
                 PROVE  TypeOK
      OBVIOUS
    <2>1. 0 \in 0..FailureThreshold /\ 0 \in 0..OpenDuration /\ 0 \in 0..MaxLoaderFailures
      BY BreakerAssumption
    <2>2. permit \in [Call -> {"none", "normal", "probe", "bypass"}]
      BY DEF Init
    <2>3. QED
      BY <2>1, <2>2, Zenon DEF Init, TypeOK
  <1>2. TypeOK /\ [Next]_vars => TypeOK'
    <2> SUFFICES ASSUME TypeOK, [Next]_vars
                 PROVE  TypeOK'
      OBVIOUS
    <2> USE BreakerAssumption DEF TypeOK, breakerVars
    <2>1. ASSUME NEW c \in Call, Acquire(c)
          PROVE  TypeOK'
      BY <2>1 DEF Acquire, AcquireNormal, AcquireProbe, AcquireBypass, Gets, SlotTaken
    <2>2. ASSUME NEW c \in Call, Succeed(c)
          PROVE  TypeOK'
      <3>1. 0 \in 0..FailureThreshold
        OBVIOUS
      <3>2. CASE Enabled
        BY <2>2, <3>1, <3>2 DEF Succeed, Ends
      <3>3. CASE ~Enabled
        BY <2>2, <3>3 DEF Succeed, Ends
      <3>4. QED
        BY <3>2, <3>3
    <2>3. ASSUME NEW c \in Call, Fail(c)
          PROVE  TypeOK'
      <3>1. Counted \in 0..FailureThreshold /\ Restarted \in 0..OpenDuration
        BY DEF Counted, Restarted
      <3>2. QED
        BY <2>3, <3>1 DEF Fail, Ends
    <2>4. ASSUME NEW c \in Call, BypassEnds(c) \/ LoaderFails(c)
          PROVE  TypeOK'
      BY <2>4 DEF BypassEnds, LoaderFails, Ends
    <2>5. CASE Tick
      BY <2>5 DEF Tick
    <2>6. CASE UNCHANGED vars
      BY <2>6 DEF vars
    <2>7. QED
      BY <2>1, <2>2, <2>3, <2>4, <2>5, <2>6 DEF Next, EndCall
  <1>3. QED
    BY <1>1, <1>2, PTL DEF Spec

\* A failure either opens the circuit or leaves the count below the
\* threshold.
LEMMA FailureStep ==
    ASSUME BreakerAssumption, TypeOK, NEW c \in Call, Fail(c), Enabled
    PROVE  /\ probeInFlight' = FALSE
           /\ \/ state = "open" /\ state' = "open" /\ cooldown' = cooldown
              \/ state # "open" /\ state' = "open"
              \/ /\ state' = "closed" /\ state = "closed"
                 /\ failureCount' < FailureThreshold
  <1>1. CASE IgnoresFailure
    BY <1>1 DEF Fail, IgnoresFailure
  <1>2. CASE ~IgnoresFailure /\ Opens
    BY <1>2 DEF Fail, IgnoresFailure
  <1>3. CASE ~IgnoresFailure /\ ~Opens
    <2>1. Counted < FailureThreshold
      BY <1>3 DEF Opens, Counted, TypeOK
    <2>2. QED
      BY <1>3, <2>1 DEF Fail, IgnoresFailure, Opens, TypeOK
  <1>4. QED
    BY <1>1, <1>2, <1>3

\* Half-open and probeInFlight come and go together.
THEOREM HalfOpenMeansProbing == Spec => []HalfOpenIsProbing
  <1>1. Init => HalfOpenIsProbing
    BY DEF Init, HalfOpenIsProbing
  <1>2. TypeOK /\ HalfOpenIsProbing /\ [Next]_vars => HalfOpenIsProbing'
    <2> SUFFICES ASSUME TypeOK, HalfOpenIsProbing, [Next]_vars
                 PROVE  HalfOpenIsProbing'
      OBVIOUS
    <2> USE DEF HalfOpenIsProbing, breakerVars
    <2>1. ASSUME NEW c \in Call, AcquireNormal(c)
          PROVE  HalfOpenIsProbing'
      BY <2>1 DEF AcquireNormal
    <2>2. ASSUME NEW c \in Call, AcquireProbe(c)
          PROVE  HalfOpenIsProbing'
      BY <2>2 DEF AcquireProbe, SlotTaken
    \* A bypass that finds the cooldown over needs a probe in flight to be one.
    <2>3. ASSUME NEW c \in Call, AcquireBypass(c)
          PROVE  HalfOpenIsProbing'
      BY <2>3 DEF AcquireBypass, Cooling
    <2>4. ASSUME NEW c \in Call, Succeed(c)
          PROVE  HalfOpenIsProbing'
      BY <2>4 DEF Succeed
    <2>5. ASSUME NEW c \in Call, Fail(c)
          PROVE  HalfOpenIsProbing'
      <3>1. CASE Enabled
        BY <2>5, <3>1, FailureStep, BreakerAssumption
      <3>2. CASE ~Enabled
        BY <2>5, <3>2 DEF Fail
      <3>3. QED
        BY <3>1, <3>2
    <2>6. ASSUME NEW c \in Call, BypassEnds(c) \/ LoaderFails(c)
          PROVE  HalfOpenIsProbing'
      BY <2>6 DEF BypassEnds, LoaderFails
    <2>7. CASE Tick \/ UNCHANGED vars
      BY <2>7 DEF Tick, vars
    <2>8. QED
      BY <2>1, <2>2, <2>3, <2>4, <2>5, <2>6, <2>7 DEF Next, Acquire, EndCall
  <1>3. QED
    BY <1>1, <1>2, BreakerTypes, PTL DEF Spec

\* What a switched-off breaker is: closed, because nothing is recorded.
DisabledIsClosed == Enabled \/ state = "closed"

\* A breaker that is switched off stays closed.
LEMMA OffStaysClosed == Spec => []DisabledIsClosed
  <1>1. Init => DisabledIsClosed
    BY DEF Init, DisabledIsClosed
  <1>2. DisabledIsClosed /\ [Next]_vars => DisabledIsClosed'
    BY DEF DisabledIsClosed, Next, Acquire, EndCall, AcquireNormal, AcquireProbe,
           AcquireBypass, Succeed, Fail, BypassEnds, LoaderFails, Tick, vars, breakerVars
  <1>3. QED
    BY <1>1, <1>2, PTL DEF Spec

\* While the breaker is half-open, only its probe has a permit for Redis that
\* was given in that time.
THEOREM OneProbePerPeriod == Spec => HalfOpenLetsNobodyIn
  <1> DEFINE LetsNobodyIn ==
               state = "half-open" /\ state' = "half-open"
                 => \A c \in Call : permit[c] = "none" => permit'[c] \in {"none", "bypass"}
  <1>1. TypeOK /\ HalfOpenIsProbing /\ DisabledIsClosed /\ [Next]_vars
         => [LetsNobodyIn]_vars
    <2> SUFFICES ASSUME TypeOK, HalfOpenIsProbing, DisabledIsClosed, [Next]_vars,
                        state = "half-open", state' = "half-open",
                        NEW d \in Call, permit[d] = "none"
                 PROVE  permit'[d] \in {"none", "bypass"}
      OBVIOUS
    <2>1. probeInFlight
      BY DEF HalfOpenIsProbing
    <2>2. ASSUME NEW c \in Call, AcquireNormal(c)
          PROVE  FALSE
      BY <2>2 DEF AcquireNormal, DisabledIsClosed
    <2>3. ASSUME NEW c \in Call, AcquireProbe(c)
          PROVE  FALSE
      BY <2>1, <2>3 DEF AcquireProbe
    <2>4. ASSUME NEW c \in Call, AcquireBypass(c)
          PROVE  permit'[d] \in {"none", "bypass"}
      BY <2>4 DEF AcquireBypass, Gets, TypeOK
    <2>5. ASSUME NEW c \in Call, EndCall(c) \/ LoaderFails(c)
          PROVE  permit'[d] \in {"none", "bypass"}
      BY <2>5 DEF EndCall, Succeed, Fail, BypassEnds, LoaderFails, Ends, TypeOK
    <2>6. CASE Tick \/ UNCHANGED vars
      BY <2>6 DEF Tick, vars
    <2>7. QED
      BY <2>2, <2>3, <2>4, <2>5, <2>6 DEF Next, Acquire
  <1>2. QED
    BY <1>1, BreakerTypes, HalfOpenMeansProbing, OffStaysClosed, PTL DEF Spec, HalfOpenLetsNobodyIn

\* A late failure finds the circuit open and leaves its cooldown alone.
THEOREM CooldownEnds == Spec => CooldownNotExtended
  <1>1. TypeOK /\ [Next]_vars
         => [state = "open" /\ state' = "open" => cooldown' <= cooldown]_vars
    <2> SUFFICES ASSUME TypeOK, [Next]_vars, state = "open", state' = "open"
                 PROVE  cooldown' <= cooldown
      OBVIOUS
    <2>1. cooldown \in Nat
      BY BreakerAssumption DEF TypeOK
    <2> USE DEF breakerVars
    <2>2. ASSUME NEW c \in Call, Acquire(c) \/ Succeed(c) \/ BypassEnds(c) \/ LoaderFails(c)
          PROVE  cooldown' = cooldown
      BY <2>2 DEF Acquire, AcquireNormal, AcquireProbe, AcquireBypass, Succeed,
                  BypassEnds, LoaderFails
    <2>3. ASSUME NEW c \in Call, Fail(c)
          PROVE  cooldown' = cooldown
      BY <2>3 DEF Fail, IgnoresFailure
    <2>4. CASE Tick
      BY <2>1, <2>4 DEF Tick
    <2>5. CASE UNCHANGED vars
      BY <2>1, <2>5 DEF vars
    <2>6. QED
      BY <2>1, <2>2, <2>3, <2>4, <2>5 DEF Next, EndCall
  <1>2. QED
    BY <1>1, BreakerTypes, PTL DEF Spec, CooldownNotExtended

\* Failures never pile up in a closed circuit.
THEOREM ClosedIsHealthy == Spec => []ClosedBelowThreshold
  <1>1. Init => ClosedBelowThreshold
    BY BreakerAssumption DEF Init, ClosedBelowThreshold
  <1>2. TypeOK /\ ClosedBelowThreshold /\ [Next]_vars => ClosedBelowThreshold'
    <2> SUFFICES ASSUME TypeOK, ClosedBelowThreshold, [Next]_vars
                 PROVE  ClosedBelowThreshold'
      OBVIOUS
    <2> USE DEF ClosedBelowThreshold, breakerVars
    <2>1. ASSUME NEW c \in Call, Acquire(c) \/ BypassEnds(c) \/ LoaderFails(c)
          PROVE  ClosedBelowThreshold'
      BY <2>1 DEF Acquire, AcquireNormal, AcquireProbe, AcquireBypass, Cooling,
                  BypassEnds, LoaderFails
    <2>2. ASSUME NEW c \in Call, Succeed(c)
          PROVE  ClosedBelowThreshold'
      BY <2>2, BreakerAssumption DEF Succeed
    <2>3. ASSUME NEW c \in Call, Fail(c)
          PROVE  ClosedBelowThreshold'
      <3>1. CASE Enabled
        BY <2>3, <3>1, FailureStep, BreakerAssumption
      <3>2. CASE ~Enabled
        BY <2>3, <3>2 DEF Fail
      <3>3. QED
        BY <3>1, <3>2
    <2>4. CASE Tick \/ UNCHANGED vars
      BY <2>4 DEF Tick, vars
    <2>5. QED
      BY <2>1, <2>2, <2>3, <2>4 DEF Next, EndCall
  <1>3. QED
    BY <1>1, <1>2, BreakerTypes, PTL DEF Spec

(***************************************************************************)
(* The Bloom filter: numbers and pages                                     *)
(***************************************************************************)

\* A finite set of numbers that is not empty has a least and a greatest one.
LEMMA Extremes ==
    ASSUME NEW S \in SUBSET Nat, IsFiniteSet(S), S # {}
    PROVE  /\ \E m \in S : \A n \in S : m <= n
           /\ \E m \in S : \A n \in S : m >= n
  <1>0. /\ \A x, y, z \in S : x < y /\ y < z => x < z
        /\ \A x, y, z \in S : x > y /\ y > z => x > z
        /\ \A x, y \in S : ~(x < x) /\ ~(x > x) /\ (x <= y \/ y < x) /\ (x >= y \/ y > x)
    OBVIOUS
  <1> DEFINE Below(m) == {n \in S : n < m}
             Above(m) == {n \in S : n > m}
  <1>1. \A m \in S : Below(m) \in FiniteSubsetsOf(S) /\ Above(m) \in FiniteSubsetsOf(S)
    BY FS_Subset DEF FiniteSubsetsOf
  <1>2. ASSUME NEW T \in SUBSET FiniteSubsetsOf(S), T # {}
        PROVE  \E U \in T : \A V \in T : <<V, U>> \notin StrictSubsetOrdering(S)
    BY <1>2, FS_StrictSubsetOrderingWellFounded, WFMin
  <1>3. \E m \in S : \A n \in S : m <= n
    <2> DEFINE T == {Below(m) : m \in S}
    <2>1. PICK U \in T : \A V \in T : <<V, U>> \notin StrictSubsetOrdering(S)
      <3>1. T \in SUBSET FiniteSubsetsOf(S) /\ T # {}
        BY <1>1
      <3> HIDE DEF T
      <3>2. QED
        BY <3>1, <1>2
    <2>2. PICK m \in S : U = Below(m)
      OBVIOUS
    <2>3. ASSUME NEW n \in S, n < m
          PROVE  FALSE
      <3>1. Below(n) \subseteq Below(m) /\ n \in Below(m) /\ n \notin Below(n)
        BY ONLY <2>3, <1>0
      <3>2. <<Below(n), Below(m)>> \in StrictSubsetOrdering(S)
        BY <3>1 DEF StrictSubsetOrdering
      <3>3. QED
        BY <3>2, <2>1, <2>2
    <2>4. QED
      BY <2>3, <1>0
  <1>4. \E m \in S : \A n \in S : m >= n
    <2> DEFINE T == {Above(m) : m \in S}
    <2>1. PICK U \in T : \A V \in T : <<V, U>> \notin StrictSubsetOrdering(S)
      <3>1. T \in SUBSET FiniteSubsetsOf(S) /\ T # {}
        BY <1>1
      <3> HIDE DEF T
      <3>2. QED
        BY <3>1, <1>2
    <2>2. PICK m \in S : U = Above(m)
      OBVIOUS
    <2>3. ASSUME NEW n \in S, n > m
          PROVE  FALSE
      <3>1. Above(n) \subseteq Above(m) /\ n \in Above(m) /\ n \notin Above(n)
        BY ONLY <2>3, <1>0
      <3>2. <<Above(n), Above(m)>> \in StrictSubsetOrdering(S)
        BY <3>1 DEF StrictSubsetOrdering
      <3>3. QED
        BY <3>2, <2>1, <2>2
    <2>4. QED
      BY <2>3, <1>0
  <1>5. QED
    BY <1>3, <1>4

\* The cursor after a page is its greatest code.
LEMMA CursorOfPage ==
    ASSUME NEW p, NEW P \in SUBSET Code, P # {}
    PROVE  /\ NextCursor(p, P) \in P
           /\ \A c \in P : c <= NextCursor(p, P)
  <1>1. P \in SUBSET Nat /\ IsFiniteSet(P)
    BY BloomAssumption, FS_Subset
  <1>2. \E m \in P : \A n \in P : m >= n
    BY ONLY <1>1, P # {}, Extremes
  <1>3. NextCursor(p, P) \in P /\ \A n \in P : NextCursor(p, P) >= n
    BY <1>2 DEF NextCursor, Max
  <1>4. QED
    BY <1>1, <1>3

\* A page is an initial part of what comes after the cursor, and a page that is
\* not full is all of it.
LEMMA PageIsInitial ==
    ASSUME BloomTypeOK, NEW p \in Process
    PROVE  /\ NextPage(p) \subseteq Later(p)
           /\ \A c \in NextPage(p), d \in Later(p) : d <= c => d \in NextPage(p)
           /\ LastPage(NextPage(p)) => NextPage(p) = Later(p)
  <1> DEFINE L == Later(p)
             P == NextPage(p)
             UpTo(c) == {d \in L : d <= c}
  <1>1. L \in SUBSET Nat /\ IsFiniteSet(L) /\ P \in SUBSET L
    BY BloomAssumption, FS_Subset DEF Later, NextPage, BloomTypeOK
  <1>2. \A c \in L : IsFiniteSet(UpTo(c)) /\ Cardinality(UpTo(c)) \in Nat
    BY <1>1, FS_Subset, FS_CardinalityType
  <1>3. \A c \in L : c \in P <=> Cardinality(UpTo(c)) <= BatchSize
    BY DEF NextPage
  <1>4. BatchSize \in Nat
    BY BloomAssumption
  <1>0. \A x, y, z \in L : x <= y /\ y <= z => x <= z
    BY <1>1
  <1> HIDE DEF L, P
  <1>5. ASSUME NEW c \in P, NEW d \in L, d <= c
        PROVE  d \in P
    <2>1. UpTo(d) \in SUBSET UpTo(c)
      BY ONLY <1>0, <1>1, <1>5
    <2>2. Cardinality(UpTo(d)) <= Cardinality(UpTo(c))
      BY <2>1, <1>1, <1>2, FS_Subset
    <2>3. QED
      BY <2>2, <1>1, <1>2, <1>3, <1>4
  <1>6. ASSUME Cardinality(P) < BatchSize, P # L
        PROVE  FALSE
    <2>1. L \ P \in SUBSET Nat /\ IsFiniteSet(L \ P) /\ L \ P # {}
      BY <1>1, <1>6, FS_Subset
    <2>2. PICK c \in L \ P : \A d \in L \ P : c <= d
      BY ONLY <2>1, Extremes
    <2>3. IsFiniteSet(P) /\ Cardinality(P) \in Nat
      BY <1>1, FS_Subset, FS_CardinalityType
    <2>4. IsFiniteSet(P \cup {c}) /\ Cardinality(P \cup {c}) = Cardinality(P) + 1
      BY <2>3, FS_AddElement
    <2>5. UpTo(c) \in SUBSET (P \cup {c})
      <3>1. \A d \in L \ P : d <= c => d = c
        BY <1>1, <2>2
      <3>2. QED
        BY ONLY <3>1, <2>2
    <2>6. Cardinality(UpTo(c)) <= Cardinality(P \cup {c})
      BY <2>4, <2>5, FS_Subset
    <2>7. Cardinality(UpTo(c)) <= BatchSize
      BY <2>3, <2>4, <2>6, <1>2, <1>4, <1>6
    <2>8. QED
      BY <2>7, <1>3
  <1>7. QED
    BY <1>1, <1>5, <1>6 DEF LastPage, L, P

(***************************************************************************)
(* The Bloom filter: types                                                 *)
(***************************************************************************)

\* The types of what creations, the shared filter and the bootstraps work with.
CreateTypes ==
    /\ links \in SUBSET Code /\ pending \in SUBSET (Process \X Code)
    /\ answered \in SUBSET links /\ unadded \in SUBSET (Process \X links)

FilterTypes ==
    /\ present \in SUBSET Bucket /\ lost \in SUBSET Bucket
    /\ bucket \in [Bucket -> SUBSET Code]

BootTypes ==
    /\ ready \in [Process -> BOOLEAN]
    /\ pc \in [Process -> {"reserving", "listing", "adding", "serving"}]
    /\ cursor \in [Process -> Code \cup {0}]
    /\ page \in [Process -> SUBSET Code]
    /\ last \in [Process -> BOOLEAN]
    /\ cut \in SUBSET Process

BoundTypes ==
    faults \in 0..MaxFaults /\ losses \in 0..MaxLosses /\ deletes \in 0..MaxDeletes

\* BloomTypeOK in these parts, and what leaves a part as it is.
LEMMA TypesInParts ==
    /\ BloomTypeOK <=> CreateTypes /\ FilterTypes /\ BootTypes /\ BoundTypes
    /\ CreateTypes /\ UNCHANGED createVars => CreateTypes'
    /\ FilterTypes /\ UNCHANGED <<filterVars, lost>> => FilterTypes'
    /\ BootTypes /\ UNCHANGED <<ready, bootVars>> => BootTypes'
    /\ BoundTypes /\ UNCHANGED boundVars => BoundTypes'
    /\ BoundTypes /\ Fault => BoundTypes'
  <1>1. BloomTypeOK <=> CreateTypes /\ FilterTypes /\ BootTypes /\ BoundTypes
    BY Zenon DEF BloomTypeOK, CreateTypes, FilterTypes, BootTypes, BoundTypes
  <1>2. CreateTypes /\ UNCHANGED createVars => CreateTypes'
    BY DEF CreateTypes, createVars
  <1>3. FilterTypes /\ UNCHANGED <<filterVars, lost>> => FilterTypes'
    BY DEF FilterTypes, filterVars
  <1>4. BootTypes /\ UNCHANGED <<ready, bootVars>> => BootTypes'
    BY DEF BootTypes, bootVars
  <1>5. BoundTypes /\ UNCHANGED boundVars => BoundTypes'
    BY DEF BoundTypes, boundVars
  <1>6. BoundTypes /\ Fault => BoundTypes'
    BY BloomAssumption DEF BoundTypes, Fault
  <1>7. QED
    BY <1>1, <1>2, <1>3, <1>4, <1>5, <1>6

\* Additions to a bucket keep its type, and steps of the bootstrap keep theirs.
LEMMA AddToKeepsTypes ==
    ASSUME FilterTypes, NEW b \in Bucket, NEW S \in SUBSET Code, AddTo(b, S), UNCHANGED lost
    PROVE  FilterTypes'
  BY DEF FilterTypes, AddTo

\* Values are within their types; in particular the cursor is always a code or 0.
THEOREM BloomTypes == BloomSpec => []BloomTypeOK
  <1>1. BloomInit => BloomTypeOK
    BY BloomAssumption DEF BloomInit, BloomTypeOK
  <1>2. BloomTypeOK /\ [BloomNext]_bloomVars => BloomTypeOK'
    <2> SUFFICES ASSUME CreateTypes, FilterTypes, BootTypes, BoundTypes, [BloomNext]_bloomVars
                 PROVE  CreateTypes' /\ FilterTypes' /\ BootTypes' /\ BoundTypes'
      <3>1. (BloomTypeOK <=> CreateTypes /\ FilterTypes /\ BootTypes /\ BoundTypes)'
        BY TypesInParts, PTL
      <3>2. QED
        BY <3>1, TypesInParts
    <2> DEFINE Goal == CreateTypes' /\ FilterTypes' /\ BootTypes' /\ BoundTypes'
    <2>1. ASSUME NEW p \in Process, NEW b \in Bucket, Reserve(p, b) \/ AddGroup(p, b)
          PROVE  Goal
      <3> DEFINE group == {c \in page[p] : BucketOf[c] = b}
      <3>1. UNCHANGED createVars /\ UNCHANGED boundVars /\ UNCHANGED lost
        BY <2>1 DEF Reserve, AddGroup
      <3>2. CASE Reserve(p, b)
        BY <3>1, <3>2, TypesInParts, AddToKeepsTypes DEF Reserve
      <3>3. CASE AddGroup(p, b)
        <4>1. group \in SUBSET Code /\ AddTo(b, group)
          BY <3>3 DEF AddGroup, BootTypes
        <4>2. BootTypes'
          BY <3>3 DEF AddGroup, BootTypes
        <4> HIDE DEF group
        <4>3. QED
          BY <3>1, <4>1, <4>2, TypesInParts, AddToKeepsTypes
      <3>4. QED
        BY <2>1, <3>2, <3>3
    <2>2. ASSUME NEW p \in Process, ReserveDone(p) \/ PageDone(p)
          PROVE  Goal
      <3>1. UNCHANGED createVars /\ UNCHANGED boundVars /\ UNCHANGED <<filterVars, lost>>
        BY <2>2 DEF ReserveDone, PageDone, filterVars
      <3>2. BootTypes'
        BY <2>2 DEF ReserveDone, PageDone, GoTo, BootTypes
      <3>3. QED
        BY <3>1, <3>2, TypesInParts
    <2>3. ASSUME NEW p \in Process, NEW P \in SUBSET Code, ListPage(p, P), cut' \in {cut, cut \cup {p}}
          PROVE  Goal
      <3> DEFINE moved == IF P = {} THEN cursor[p] ELSE NextCursor(p, P)
      <3>1. moved \in Code \cup {0} /\ LastPage(P) \in BOOLEAN
        BY CursorOfPage DEF LastPage, BootTypes
      <3>2. UNCHANGED createVars /\ UNCHANGED boundVars /\ UNCHANGED <<filterVars, lost>>
        BY <2>3 DEF ListPage, filterVars
      <3>3. cursor' = [cursor EXCEPT ![p] = moved]
        BY <2>3 DEF ListPage
      <3> HIDE DEF moved
      <3>4. BootTypes'
        BY <2>3, <3>1, <3>3 DEF ListPage, GoTo, BootTypes
      <3>5. QED
        BY <3>2, <3>4, TypesInParts
    <2>4. ASSUME NEW p \in Process, List(p) \/ ListCutShort(p)
          PROVE  Goal
      <3>1. NextPage(p) \in SUBSET Code
        BY DEF NextPage, Later, CreateTypes
      <3>2. CASE List(p)
        <4>1. ListPage(p, NextPage(p)) /\ cut' \in {cut, cut \cup {p}}
          BY <3>2 DEF List
        <4>2. QED
          BY <4>1, <3>1, <2>3
      <3>3. CASE ListCutShort(p)
        <4>1. ListPage(p, {}) /\ cut' \in {cut, cut \cup {p}}
          BY <3>3 DEF ListCutShort
        <4>2. QED
          BY <4>1, <2>3
      <3>4. QED
        BY <2>4, <3>2, <3>3
    <2>5. ASSUME NEW p \in Process, BootFails(p) \/ Restart(p)
          PROVE  Goal
      <3>1. Fault /\ UNCHANGED <<filterVars, lost>>
        BY <2>5 DEF BootFails, Restart, filterVars
      <3>2. BootTypes'
        BY <2>5 DEF BootFails, Restart, GoTo, BootTypes
      <3>3. CreateTypes'
        BY <2>5 DEF BootFails, Restart, createVars, CreateTypes
      <3>4. QED
        BY <3>1, <3>2, <3>3, TypesInParts
    <2>6. ASSUME NEW p \in Process, NEW c \in Code, Create(p, c)
          PROVE  Goal
      <3>1. UNCHANGED boundVars /\ UNCHANGED <<filterVars, lost>> /\ UNCHANGED <<ready, bootVars>>
        BY <2>6 DEF Create, filterVars, bootVars
      <3>2. CreateTypes'
        BY <2>6 DEF Create, CreateTypes
      <3>3. QED
        BY <3>1, <3>2, TypesInParts
    <2>7. ASSUME NEW p \in Process, NEW c \in Code, Add(p, c)
          PROVE  Goal
      <3>1. UNCHANGED boundVars /\ UNCHANGED <<ready, bootVars>>
        BY <2>7 DEF Add, bootVars
      <3>2. CreateTypes'
        BY <2>7 DEF Add, CreateTypes
      <3>3. AddTo(BucketOf[c], {c}) /\ UNCHANGED lost /\ BucketOf[c] \in Bucket /\ {c} \in SUBSET Code
        BY <2>7, BloomAssumption DEF Add
      <3>4. QED
        BY <3>1, <3>2, <3>3, TypesInParts, AddToKeepsTypes
    <2>8. ASSUME NEW p \in Process, NEW c \in Code, AddFails(p, c)
          PROVE  Goal
      <3>1. Fault /\ UNCHANGED <<filterVars, lost>>
        BY <2>8 DEF AddFails, filterVars
      <3>2. CreateTypes'
        BY <2>8 DEF AddFails, CreateTypes
      <3>3. BootTypes'
        BY <2>8 DEF AddFails, MarkedNotReady, BootTypes, bootVars
      <3>4. QED
        BY <3>1, <3>2, <3>3, TypesInParts
    <2>9. ASSUME NEW p \in Process, NEW b \in Bucket, FindsBucketMissing(p, b)
          PROVE  Goal
      <3>1. UNCHANGED createVars /\ UNCHANGED boundVars /\ UNCHANGED <<filterVars, lost>>
        BY <2>9 DEF FindsBucketMissing, filterVars
      <3>2. BootTypes'
        BY <2>9 DEF FindsBucketMissing, MarkedNotReady, BootTypes, bootVars
      <3>3. QED
        BY <3>1, <3>2, TypesInParts
    <2>10. ASSUME NEW b \in Bucket, LoseBucket(b)
           PROVE  Goal
      <3>1. UNCHANGED createVars /\ UNCHANGED <<ready, bootVars>>
        BY <2>10 DEF LoseBucket, bootVars
      <3>2. FilterTypes'
        BY <2>10 DEF LoseBucket, FilterTypes
      <3>3. BoundTypes'
        BY <2>10, BloomAssumption DEF LoseBucket, BoundTypes
      <3>4. QED
        BY <3>1, <3>2, <3>3, TypesInParts
    <2>11. ASSUME NEW c \in Code, Delete(c)
           PROVE  Goal
      <3>1. UNCHANGED <<filterVars, lost>> /\ UNCHANGED <<ready, bootVars>>
        BY <2>11 DEF Delete, filterVars, bootVars
      <3>2. CreateTypes'
        BY <2>11 DEF Delete, CreateTypes
      <3>3. BoundTypes'
        BY <2>11, BloomAssumption DEF Delete, BoundTypes
      <3>4. QED
        BY <3>1, <3>2, <3>3, TypesInParts
    <2>12. CASE UNCHANGED bloomVars
      <3>1. UNCHANGED createVars /\ UNCHANGED boundVars /\ UNCHANGED <<filterVars, lost>>
            /\ UNCHANGED <<ready, bootVars>>
        BY <2>12 DEF bloomVars, createVars, filterVars, bootVars, boundVars
      <3>2. QED
        BY <3>1, TypesInParts
    <2>13. QED
      BY <2>1, <2>2, <2>4, <2>5, <2>6, <2>7, <2>8, <2>9, <2>10, <2>11, <2>12
         DEF BloomNext, BootStep
  <1>3. QED
    BY <1>1, <1>2, PTL DEF BloomSpec

(***************************************************************************)
(* The Bloom filter: nothing is missed                                     *)
(***************************************************************************)

\* The reasons for which process p need not find code c in the filter, and that
\* the filter holds it.
Excused(p, c) ==
    \/ c \in bucket[BucketOf[c]]
    \/ BucketOf[c] \in lost
    \/ p \in cut
    \/ \E q \in Process \ {p} : <<q, c>> \in unadded

\* The bootstrap of p has listed the codes up to c: its cursor is past c, its last
\* page is listed, or it is over.
Listed(p, c) ==
    \/ (pc[p] = "listing" \/ (pc[p] = "adding" /\ ~last[p])) /\ c <= cursor[p]
    \/ pc[p] = "adding" /\ last[p]
    \/ pc[p] = "serving" /\ ready[p]

\* What is listed is in the filter, or in the page that is still to be added, or
\* excused.  (That says most while the bootstrap is under way.)
NothingMissed ==
    \A p \in Process, c \in answered : Listed(p, c) => c \in page[p] \/ Excused(p, c)

\* How far a process is, in terms of its variables.
BootInOrder ==
    /\ \A p \in Process : ready[p] => pc[p] = "serving"
    /\ \A p \in Process : pc[p] = "reserving" => cursor[p] = 0
    /\ \A p \in Process : pc[p] \in {"reserving", "listing"} \/ ready[p] => page[p] = {}
    /\ \A p \in Process, c \in Code : <<p, c>> \in pending => pc[p] = "serving"

\* The steps of the bootstrap come in their order.
LEMMA BootKeepsOrder == BloomSpec => []BootInOrder
  <1>1. BloomInit => BootInOrder
    BY DEF BloomInit, BootInOrder
  <1>2. BloomTypeOK /\ BootInOrder /\ [BloomNext]_bloomVars => BootInOrder'
    <2> SUFFICES ASSUME CreateTypes, BootTypes, BootInOrder, [BloomNext]_bloomVars
                 PROVE  BootInOrder'
      BY TypesInParts
    <2> USE DEF BootInOrder, BootTypes, CreateTypes, GoTo, bootVars, createVars
    <2>1. ASSUME NEW p \in Process, NEW b \in Bucket, Reserve(p, b) \/ AddGroup(p, b)
          PROVE  BootInOrder'
      BY <2>1 DEF Reserve, AddGroup
    <2>2. ASSUME NEW p \in Process, ReserveDone(p)
          PROVE  BootInOrder'
      BY <2>2 DEF ReserveDone
    <2>3. ASSUME NEW p \in Process, PageDone(p)
          PROVE  BootInOrder'
      BY <2>3 DEF PageDone
    <2>4. ASSUME NEW p \in Process, NEW P, ListPage(p, P)
          PROVE  BootInOrder'
      BY <2>4 DEF ListPage
    <2>5. ASSUME NEW p \in Process, BootFails(p)
          PROVE  BootInOrder'
      BY <2>5 DEF BootFails
    <2>6. ASSUME NEW p \in Process, Restart(p)
          PROVE  BootInOrder'
      BY <2>6 DEF Restart
    <2>7. ASSUME NEW p \in Process, NEW c \in Code, Create(p, c) \/ Add(p, c)
          PROVE  BootInOrder'
      BY <2>7 DEF Create, Add
    <2>8. ASSUME NEW p \in Process, NEW c \in Code, AddFails(p, c)
          PROVE  BootInOrder'
      BY <2>8 DEF AddFails, MarkedNotReady
    <2>9. ASSUME NEW p \in Process, NEW b \in Bucket, FindsBucketMissing(p, b)
          PROVE  BootInOrder'
      BY <2>9 DEF FindsBucketMissing, MarkedNotReady
    <2>10. ASSUME NEW b \in Bucket, LoseBucket(b)
           PROVE  BootInOrder'
      BY <2>10 DEF LoseBucket
    <2>11. ASSUME NEW c \in Code, Delete(c)
           PROVE  BootInOrder'
      BY <2>11 DEF Delete
    <2>12. CASE UNCHANGED bloomVars
      BY <2>12 DEF bloomVars
    <2>13. QED
      BY <2>1, <2>2, <2>3, <2>4, <2>5, <2>6, <2>7, <2>8, <2>9, <2>10, <2>11, <2>12
         DEF BloomNext, BootStep, List, ListCutShort
  <1>3. QED
    BY <1>1, <1>2, BloomTypes, PTL DEF BloomSpec

\* Filters only grow, unless a bucket is lost.
LEMMA FilterGrows ==
    ASSUME BloomTypeOK, BloomNext, NEW c \in Code
    PROVE  /\ c \in bucket[BucketOf[c]] => c \in bucket'[BucketOf[c]] \/ BucketOf[c] \in lost'
           /\ lost \subseteq lost'
  <1> DEFINE Goal == /\ c \in bucket[BucketOf[c]] =>
                           c \in bucket'[BucketOf[c]] \/ BucketOf[c] \in lost'
                     /\ lost \subseteq lost'
  <1>1. FilterTypes /\ BucketOf[c] \in Bucket
    BY TypesInParts, BloomAssumption
  <1>2. ASSUME NEW b \in Bucket, NEW S, AddTo(b, S), UNCHANGED lost
        PROVE  Goal
    BY <1>1, <1>2 DEF AddTo, FilterTypes
  <1>3. ASSUME NEW p \in Process, NEW b \in Bucket, Reserve(p, b)
        PROVE  Goal
    BY <1>2, <1>3 DEF Reserve
  <1>4. ASSUME NEW p \in Process, NEW b \in Bucket, AddGroup(p, b)
        PROVE  Goal
    BY <1>2, <1>4 DEF AddGroup
  <1>5. ASSUME NEW p \in Process, NEW d \in Code, Add(p, d)
        PROVE  Goal
    <2>1. BucketOf[d] \in Bucket
      BY BloomAssumption
    <2>2. QED
      BY <1>2, <1>5, <2>1 DEF Add
  <1>6. ASSUME NEW b \in Bucket, LoseBucket(b)
        PROVE  Goal
    BY <1>1, <1>6 DEF LoseBucket, FilterTypes
  <1>7. CASE UNCHANGED bucket /\ UNCHANGED lost
    BY <1>7
  <1>8. QED
    BY <1>3, <1>4, <1>5, <1>6, <1>7
       DEF BloomNext, BootStep, ReserveDone, List, ListCutShort, ListPage, PageDone, BootFails,
           Restart, Create, AddFails, FindsBucketMissing, Delete, filterVars

\* An excuse lasts as long as the process does not start again, and the link
\* is there.
LEMMA ExcuseLasts ==
    ASSUME BloomTypeOK, BloomNext, NEW p \in Process, NEW c \in answered \cap answered', Excused(p, c)
    PROVE  Excused(p, c)' \/ pc'[p] = "reserving"
  <1>1. c \in Code /\ CreateTypes /\ BootTypes
    BY TypesInParts DEF CreateTypes
  <1>2. CASE c \in bucket[BucketOf[c]] \/ BucketOf[c] \in lost
    BY <1>1, <1>2, FilterGrows DEF Excused
  <1>3. CASE p \in cut
    <2>1. ASSUME NEW q \in Process, Restart(q)
          PROVE  q = p \/ p \in cut'
      BY <2>1, <1>3 DEF Restart
    <2>2. ASSUME Restart(p)
          PROVE  pc'[p] = "reserving"
      BY <2>2, <1>1 DEF Restart, BootTypes
    <2>3. ASSUME NEW q \in Process, ListCutShort(q)
          PROVE  p \in cut'
      BY <2>3, <1>3 DEF ListCutShort
    <2>4. CASE UNCHANGED cut
      BY <2>4, <1>3 DEF Excused
    <2>5. QED
      BY <2>1, <2>2, <2>3, <2>4
         DEF BloomNext, BootStep, Reserve, AddGroup, ReserveDone, List, PageDone, BootFails,
             Create, Add, AddFails, FindsBucketMissing, LoseBucket, Delete, bootVars, Excused
  <1>4. ASSUME NEW q \in Process \ {p}, <<q, c>> \in unadded
        PROVE  <<q, c>> \in unadded'
    <2>1. ASSUME NEW d \in Code, Delete(d)
          PROVE  <<q, c>> \in unadded'
      <3>1. c # d
        BY <2>1 DEF Delete
      <3>2. QED
        BY <3>1, <2>1, <1>4 DEF Delete
    <2>2. ASSUME NEW r \in Process, NEW d \in Code, AddFails(r, d)
          PROVE  <<q, c>> \in unadded'
      BY <2>2, <1>4 DEF AddFails
    <2>3. CASE UNCHANGED unadded
      BY <2>3, <1>4
    <2>4. QED
      BY <2>1, <2>2, <2>3
         DEF BloomNext, BootStep, Reserve, AddGroup, ReserveDone, List, ListCutShort, ListPage,
             PageDone, BootFails, Restart, Create, Add, FindsBucketMissing, LoseBucket, createVars
  <1>5. QED
    BY <1>2, <1>3, <1>4 DEF Excused

\* A code whose creation answers is in the filter, or it is excused, or the
\* process that failed to add it does not trust the filter.
LEMMA NewCodes ==
    ASSUME BloomTypeOK, BootInOrder, BloomNext, NEW p \in Process, NEW c \in answered', c \notin answered
    PROVE  Excused(p, c)' \/ (pc'[p] = "serving" /\ ~ready'[p])
  <1>1. CreateTypes /\ BootTypes /\ FilterTypes
    BY TypesInParts
  <1>2. ASSUME NEW q \in Process, NEW d \in Code, Add(q, d)
        PROVE  Excused(p, c)'
    <2>1. c = d /\ AddTo(BucketOf[c], {c}) /\ BucketOf[c] \in Bucket
      BY <1>2, BloomAssumption DEF Add
    <2>2. c \in bucket'[BucketOf[c]]
      BY <2>1, <1>1 DEF AddTo, FilterTypes
    <2>3. QED
      BY <2>2 DEF Excused
  <1>3. ASSUME NEW q \in Process, NEW d \in Code, AddFails(q, d)
        PROVE  Excused(p, c)' \/ (pc'[p] = "serving" /\ ~ready'[p])
    <2>1. c = d /\ c \in links /\ <<q, c>> \in unadded'
      BY <1>3 DEF AddFails
    <2>2. CASE q # p
      BY <2>1, <2>2 DEF Excused
    <2>3. CASE q = p
      BY <2>1, <2>3, <1>1, <1>3 DEF AddFails, MarkedNotReady, BootInOrder, BootTypes, bootVars
    <2>4. QED
      BY <2>2, <2>3
  <1>4. CASE answered' \subseteq answered
    BY <1>4
  <1>5. QED
    BY <1>2, <1>3, <1>4
       DEF BloomNext, BootStep, Reserve, AddGroup, ReserveDone, List, ListCutShort, ListPage,
           PageDone, BootFails, Restart, Create, FindsBucketMissing, LoseBucket, Delete, createVars

\* A code leaves the page of a process when it is added to the filter, or when the
\* process starts again.
LEMMA PageIsAdded ==
    ASSUME BloomTypeOK, BootInOrder, BloomNext, NEW p \in Process, NEW c \in page[p]
    PROVE  c \in page'[p] \/ Excused(p, c)' \/ pc'[p] = "reserving"
  <1>1. CreateTypes /\ BootTypes /\ FilterTypes /\ c \in Code
    BY TypesInParts DEF BootTypes
  <1>2. ASSUME NEW q \in Process, NEW b \in Bucket, AddGroup(q, b)
        PROVE  c \in page'[p] \/ Excused(p, c)'
    <2>1. CASE q = p /\ BucketOf[c] = b
      <3>1. c \in bucket'[b]
        BY <2>1, <1>1, <1>2 DEF AddGroup, AddTo, FilterTypes
      <3>2. QED
        BY <3>1, <2>1 DEF Excused
    <2>2. CASE ~(q = p /\ BucketOf[c] = b)
      BY <2>2, <1>1, <1>2 DEF AddGroup, BootTypes
    <2>3. QED
      BY <2>1, <2>2
  <1>3. ASSUME NEW q \in Process, NEW P, ListPage(q, P)
        PROVE  c \in page'[p]
    <2>1. q # p
      BY <1>3 DEF ListPage, BootInOrder
    <2>2. QED
      BY <2>1, <1>1, <1>3 DEF ListPage, BootTypes
  <1>4. ASSUME NEW q \in Process, Restart(q)
        PROVE  c \in page'[p] \/ pc'[p] = "reserving"
    BY <1>1, <1>4 DEF Restart, BootTypes
  <1>5. CASE UNCHANGED page
    BY <1>5
  <1>6. QED
    BY <1>2, <1>3, <1>4, <1>5
       DEF BloomNext, BootStep, Reserve, ReserveDone, List, ListCutShort, PageDone, BootFails,
           Create, Add, AddFails, FindsBucketMissing, LoseBucket, Delete, bootVars

\* The codes that a page newly lists are in it: none is left out between the cursor
\* and the page, or after a page that is not full, unless the listing was cut short.
LEMMA PageListsAll ==
    ASSUME BloomTypeOK, BootInOrder, NEW p \in Process, NEW c \in answered,
           List(p) \/ ListCutShort(p), ~Listed(p, c), Listed(p, c)'
    PROVE  c \in page'[p] \/ Excused(p, c)'
  <1>1. CreateTypes /\ BootTypes /\ c \in links /\ c \in Nat /\ cursor[p] \in Nat
    <2>1. CreateTypes /\ BootTypes
      BY TypesInParts
    <2>2. c \in links /\ links \subseteq Code /\ Code \cup {0} \subseteq Nat
      BY <2>1, BloomAssumption DEF CreateTypes
    <2>3. cursor[p] \in Code \cup {0}
      BY <2>1 DEF BootTypes
    <2>4. c \in Nat /\ cursor[p] \in Nat
      BY ONLY <2>2, <2>3
    <2>5. QED
      BY <2>1, <2>2, <2>4
  <1>2. pc[p] = "listing" /\ ~(c <= cursor[p])
    BY DEF List, ListCutShort, ListPage, Listed
  <1>3. c \in Later(p)
    BY <1>1, <1>2 DEF Later
  <1>4. CASE List(p)
    <2> DEFINE P == NextPage(p)
    <2>1. P \in SUBSET Code /\ P \in SUBSET Nat
      BY <1>1, BloomAssumption DEF NextPage, Later, CreateTypes
    <2>2. /\ page'[p] = P /\ pc'[p] = "adding" /\ last'[p] = LastPage(P)
          /\ cursor'[p] = IF P = {} THEN cursor[p] ELSE NextCursor(p, P)
      BY <1>1, <1>4 DEF List, ListPage, GoTo, BootTypes
    <2>3. CASE last'[p]
      <3>1. P = Later(p)
        BY <2>2, <2>3, PageIsInitial
      <3>2. QED
        BY <3>1, <2>2, <1>3
    <2>4. CASE ~last'[p]
      <3>1. c <= cursor'[p]
        BY <2>2, <2>4 DEF Listed
      <3>2. P # {}
        BY <3>1, <2>2, <1>2
      <3>3. NextCursor(p, P) \in P
        <4> HIDE DEF P
        <4>1. QED
          BY <2>1, <3>2, CursorOfPage
      <3>4. c \in P
        BY <3>1, <3>2, <3>3, <2>2, <1>3, PageIsInitial
      <3>5. QED
        BY <3>4, <2>2
    <2>5. QED
      BY <2>3, <2>4
  <1>5. CASE ListCutShort(p)
    <2>1. CASE NextPage(p) = {}
      <3>1. Cardinality(NextPage(p)) = 0
        BY <2>1, FS_EmptySet
      <3>2. LastPage(NextPage(p))
        BY <3>1, BloomAssumption DEF LastPage
      <3>3. QED
        BY <3>2, <2>1, <1>3, PageIsInitial
    <2>2. CASE NextPage(p) # {}
      BY <2>2, <1>5 DEF ListCutShort, Excused
    <2>3. QED
      BY <2>1, <2>2
  <1>6. QED
    BY <1>4, <1>5

\* Only listing a page makes a process pass codes it has not passed yet.
LEMMA OnlyListingLists ==
    ASSUME BloomTypeOK, BootInOrder, BloomNext, NEW p \in Process, NEW c \in Code,
           ~Listed(p, c), Listed(p, c)'
    PROVE  List(p) \/ ListCutShort(p)
  <1> SUFFICES ASSUME ~(List(p) \/ ListCutShort(p))
               PROVE  FALSE
    OBVIOUS
  <1>1. BootTypes /\ c \in Nat /\ ~(c <= 0)
    BY TypesInParts, BloomAssumption
  <1> USE DEF Listed, BootTypes, GoTo, bootVars
  <1>2. ASSUME NEW q \in Process, ReserveDone(q)
        PROVE  FALSE
    BY <1>1, <1>2 DEF ReserveDone, BootInOrder
  <1>3. ASSUME NEW q \in Process, PageDone(q)
        PROVE  FALSE
    BY <1>1, <1>3 DEF PageDone, BootInOrder
  <1>4. ASSUME NEW q \in Process, BootFails(q)
        PROVE  FALSE
    BY <1>1, <1>4 DEF BootFails, BootInOrder
  <1>5. ASSUME NEW q \in Process, Restart(q)
        PROVE  FALSE
    BY <1>1, <1>5 DEF Restart
  <1>6. ASSUME NEW q \in Process, NEW P, ListPage(q, P), q # p
        PROVE  FALSE
    BY <1>1, <1>6 DEF ListPage
  <1>7. CASE /\ UNCHANGED pc /\ UNCHANGED cursor /\ UNCHANGED last
             /\ \/ UNCHANGED ready
                \/ \E q \in Process : ready' = MarkedNotReady(q)
    BY <1>1, <1>7 DEF MarkedNotReady
  <1>8. QED
    BY <1>2, <1>3, <1>4, <1>5, <1>6, <1>7
       DEF BloomNext, BootStep, Reserve, AddGroup, List, ListCutShort, Create, Add, AddFails,
           FindsBucketMissing, LoseBucket, Delete

\* Nothing that is listed is missed.
LEMMA ListingMissesNothing == BloomSpec => []NothingMissed
  <1>1. BloomInit => NothingMissed
    BY DEF BloomInit, NothingMissed, Listed
  <1>2. BloomTypeOK /\ BootInOrder /\ NothingMissed /\ [BloomNext]_bloomVars => NothingMissed'
    <2>1. CASE UNCHANGED bloomVars
      BY <2>1 DEF bloomVars, createVars, filterVars, bootVars, NothingMissed, Listed, Excused
    <2>2. ASSUME BloomTypeOK, BootInOrder, NothingMissed, BloomNext,
                 NEW p \in Process, NEW c \in answered', Listed(p, c)'
          PROVE  (c \in page[p] \/ Excused(p, c))'
      <3>1. pc'[p] # "reserving" /\ ~(pc'[p] = "serving" /\ ~ready'[p])
        BY <2>2 DEF Listed
      <3>2. CASE c \notin answered
        BY <3>1, <3>2, <2>2, NewCodes
      <3>3. CASE c \in answered /\ Listed(p, c)
        <4>1. c \in page[p] \/ Excused(p, c)
          BY <3>3, <2>2 DEF NothingMissed
        <4>2. CASE c \in page[p]
          BY <4>2, <3>1, <2>2, PageIsAdded
        <4>3. CASE Excused(p, c)
          BY <4>3, <3>1, <3>3, <2>2, ExcuseLasts
        <4>4. QED
          BY <4>1, <4>2, <4>3
      <3>4. CASE c \in answered /\ ~Listed(p, c)
        <4>1. c \in Code
          BY <3>4, <2>2, TypesInParts DEF CreateTypes
        <4>2. List(p) \/ ListCutShort(p)
          BY <4>1, <3>4, <2>2, OnlyListingLists
        <4>3. QED
          BY <4>2, <3>4, <2>2, PageListsAll
      <3>5. QED
        BY <3>2, <3>3, <3>4
    <2>3. QED
      BY <2>1, <2>2 DEF NothingMissed
  <1>3. QED
    BY <1>1, <1>2, BloomTypes, BootKeepsOrder, PTL DEF BloomSpec

\* A link its creator knows of is hidden by a process only for one of the three
\* reasons.
THEOREM FilterHidesForAReason == BloomSpec => []HiddenForAReason
  <1>1. BootInOrder /\ NothingMissed => HiddenForAReason
    BY DEF BootInOrder, NothingMissed, HiddenForAReason, Negative, Trusts, Listed, Excused
  <1>2. QED
    BY <1>1, BootKeepsOrder, ListingMissesNothing, PTL
=============================================================================
