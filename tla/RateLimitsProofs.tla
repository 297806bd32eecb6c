---------------------------- MODULE RateLimitsProofs ----------------------------
(***************************************************************************)
(* Proofs about the rate limits, for every limit, window, capacity, refill *)
(* rate, expiry and correction of the clock: the three limiters implement  *)
(* AdmissionBound, their Retry-After tells no client to come back too      *)
(* early, and the guard keeps what its failure mode promises, whatever the *)
(* limiter.                                                                *)
(***************************************************************************)
EXTENDS RateLimits, FiniteSetTheorems, TLAPS

(***************************************************************************)
(* The token bucket.  One inequality over all stretches that end now: what *)
(* the stretch has taken, and what the bucket would still give, is         *)
(* together no more than a full bucket and the refill of the stretch.      *)
(***************************************************************************)
\* The bucket's level, seen from the present tick, pays for every stretch.
Covered ==
    \A a \in 0..now : spent[now] - Bound!Before(spent, a) + Level <= Full + (now - a)

\* The key lives until its bucket is certainly full again.
LivesLongEnough == exists => expiresAt = lastRefill + Ttl

Inv == TypeOK /\ LivesLongEnough /\ Covered

\* The constants, without the multiplication in Full.
LEMMA Constants ==
    /\ Full \in Nat /\ Cost \in Nat /\ Cost > 0 /\ Cost <= Full
    /\ Ttl \in Nat /\ Ttl >= Full
    /\ MaxTime \in Nat /\ MaxBack \in Nat /\ Never \in Nat /\ Never > MaxTime + Cost
BY BucketAssumption, SMT DEF Never

\* The level is one a bucket can have, and the clock does not leave its range.
LEMMA LevelRange ==
    ASSUME TypeOK
    PROVE  /\ Level \in 0..Full
           /\ Clock \in 0..(MaxBack + MaxTime)
<1> USE DEF TypeOK
<1>1. Clock \in 0..(MaxBack + MaxTime)
  BY Constants DEF Clock
<1>2. tokens \in 0..Full /\ lastRefill \in Int
  BY Constants
<1> HIDE DEF TypeOK
<1>3. Level \in 0..Full
  BY <1>1, <1>2, Constants DEF Level, Least
<1> QED
  BY <1>1, <1>3

\* Admissions and refusals find the bucket full or refilled, and put back what
\* they leave: nothing is refilled in the tick of the answer.
LEMMA LevelAfterStore ==
    ASSUME TypeOK, UNCHANGED <<now, back>>,
           NEW n \in 0..Full, Store(n)
    PROVE  Level' = n /\ LivesLongEnough'
<1>1. Clock' = Clock
  BY DEF Clock
<1>2. Clock \in Int
  BY LevelRange
<1>3. Alive'
  BY <1>1, <1>2, Constants DEF Alive, Store, Expiry
<1>4. Level' = n
  BY <1>1, <1>2, <1>3, Constants DEF Level, Least, Store
<1>5. LivesLongEnough'
  BY <1>1 DEF LivesLongEnough, Store, Expiry
<1> QED
  BY <1>4, <1>5

\* No time passes between two levels without refilling, and never more than
\* one tick's worth: not by expiry, not by a clock that is set back.
LEMMA LevelOverTime ==
    ASSUME Inv, TypeOK', UNCHANGED <<tokens, lastRefill, expiresAt>>,
           \/ now' = now + 1 /\ back' = back /\ exists' = exists
           \/ now' = now /\ back' = back + 1 /\ exists' = exists
           \/ UNCHANGED <<now, back>> /\ exists /\ Clock > expiresAt /\ ~exists'
    PROVE  /\ now' = now + 1 => Level' <= Level + 1
           /\ now' = now => Level' <= Level
<1>1. /\ Clock \in Int /\ Level \in 0..Full
      /\ tokens \in 0..Full /\ lastRefill \in Int /\ expiresAt \in Int
      /\ now \in Int /\ back \in Int
  <2>1. TypeOK
    BY DEF Inv
  <2>2. Clock \in Int /\ Level \in 0..Full
    BY <2>1, LevelRange
  <2> QED
    BY ONLY <2>1, <2>2 DEF TypeOK
<1>2. exists => expiresAt = lastRefill + Ttl
  BY DEF Inv, LivesLongEnough
<1>3. CASE now' = now + 1 /\ back' = back /\ exists' = exists
  <2>1. Clock' = Clock + 1
    BY <1>3, <1>1, Constants DEF Clock
  <2>2. CASE Alive'
    BY <2>1, <2>2, <1>1, <1>3, Constants DEF Alive, Level, Least
  <2>3. CASE ~Alive' /\ Alive
    BY <2>1, <2>3, <1>1, <1>2, <1>3, Constants DEF Alive, Level, Least
  <2>4. CASE ~Alive' /\ ~Alive
    BY <2>1, <2>4, <1>1, <1>3, Constants DEF Level
  <2> QED
    BY <2>2, <2>3, <2>4, <1>3, <1>1
<1>4. CASE now' = now /\ back' = back + 1 /\ exists' = exists
  <2>1. Clock' = Clock - 1
    BY <1>4, <1>1, Constants DEF Clock
  <2>2. CASE Alive
    BY <2>1, <2>2, <1>1, <1>4, Constants DEF Alive, Level, Least
  <2>3. CASE ~Alive
    <3>1. Level = Full
      BY <2>3 DEF Level
    <3>2. Level' \in 0..Full
      BY LevelRange, <1>1, Constants, <1>4 DEF Level, Least, TypeOK, Clock
    <3> QED
      BY <3>1, <3>2, <1>1, <1>4, Constants
  <2> QED
    BY <2>2, <2>3
<1>5. CASE UNCHANGED <<now, back>> /\ exists /\ Clock > expiresAt /\ ~exists'
  BY <1>5, <1>1, Constants DEF Level, Alive
<1> QED
  BY <1>3, <1>4, <1>5

\* An empty bucket table satisfies the invariant.
THEOREM InitInv == Init => Inv
<1> SUFFICES ASSUME Init PROVE Inv
  OBVIOUS
<1> USE DEF Init
<1>1. TypeOK
  <2>1. /\ 0 \in 0..MaxTime /\ 0 \in 0..MaxBack /\ 0 \in 0..Full
        /\ 0 \in 0..(MaxBack + MaxTime) /\ 0 \in 0..(MaxBack + MaxTime + Ttl)
        /\ Never \in 0..Never
    BY Constants
  <2>2. [t \in 0..MaxTime |-> 0] \in [0..MaxTime -> Nat]
    OBVIOUS
  <2> QED
    BY <2>1, <2>2, Zenon DEF TypeOK
<1>2. LivesLongEnough
  BY DEF LivesLongEnough
<1>3. Level = Full
  BY DEF Level, Alive
<1>4. spent[0] = 0 /\ 0 \in 0..MaxTime
  BY Constants
<1>5. Covered
  BY <1>3, <1>4, Constants DEF Covered, Bound!Before
<1> QED
  BY <1>1, <1>2, <1>5 DEF Inv

\* Every step keeps the variables in their ranges.
LEMMA TypeStep == TypeOK /\ [Next]_vars => TypeOK'
<1> SUFFICES ASSUME TypeOK, [Next]_vars PROVE TypeOK'
  OBVIOUS
<1>1. /\ Level \in 0..Full /\ Clock \in 0..(MaxBack + MaxTime)
      /\ now \in 0..MaxTime /\ spent \in [0..MaxTime -> Nat]
  BY LevelRange DEF TypeOK
<1>2. Expiry \in 0..(MaxBack + MaxTime + Ttl)
  BY <1>1, Constants DEF Expiry
<1>3. CASE Admit
  <2>1. Level - Cost \in 0..Full
    BY <1>3, <1>1, Constants DEF Admit
  <2>2. [spent EXCEPT ![now] = @ + Cost] \in [0..MaxTime -> Nat]
    BY <1>1, Constants
  <2> QED
    BY <1>3, <1>1, <1>2, <2>1, <2>2, Constants DEF Admit, Store, TypeOK
<1>4. CASE Refuse
  <2>1. Least(retryAt, now + RetryAfter) \in 0..Never
    BY <1>4, <1>1, Constants DEF Refuse, Least, RetryAfter, TypeOK
  <2> QED
    BY <1>4, <1>1, <1>2, <2>1 DEF Refuse, Store, TypeOK
<1>5. CASE Expire
  BY <1>5 DEF Expire, TypeOK
<1>6. CASE Tick
  <2>1. now + 1 \in 0..MaxTime
    BY <1>6, <1>1, Constants DEF Tick
  <2>2. [spent EXCEPT ![now + 1] = spent[now]] \in [0..MaxTime -> Nat]
    BY <1>1
  <2> QED
    BY <1>6, <2>1, <2>2 DEF Tick, keyVars, TypeOK
<1>7. CASE SetBack
  BY <1>7, Constants DEF SetBack, keyVars, TypeOK
<1>8. CASE UNCHANGED vars
  BY <1>8 DEF vars, keyVars, TypeOK
<1> QED
  BY <1>3, <1>4, <1>5, <1>6, <1>7, <1>8 DEF Next

\* Every step of the token bucket keeps its invariant.
THEOREM StepInv == Inv /\ [Next]_vars => Inv'
<1> SUFFICES ASSUME Inv, [Next]_vars PROVE Inv'
  OBVIOUS
<1>1. TypeOK /\ TypeOK'
  BY TypeStep DEF Inv
<1>2. /\ Level \in 0..Full /\ Level' \in 0..Full
      /\ now \in 0..MaxTime /\ spent \in [0..MaxTime -> Nat]
  <2>1. Level \in 0..Full
    BY <1>1, LevelRange
  <2>2. (TypeOK => Level \in 0..Full)'
    BY LevelRange, PTL
  <2> QED
    BY <2>1, <2>2, <1>1 DEF TypeOK
<1>3. \A a \in 0..now : /\ Bound!Before(spent, a) \in Nat
                        /\ spent[now] - Bound!Before(spent, a) + Level <= Full + (now - a)
  <2>1. ASSUME NEW a \in 0..now
        PROVE  Bound!Before(spent, a) \in Nat
    BY <1>2, Constants DEF Bound!Before
  <2> QED
    BY <2>1 DEF Inv, Covered
<1>4. CASE Admit
  <2>1. Level - Cost \in 0..Full /\ Store(Level - Cost) /\ UNCHANGED <<now, back>>
    BY <1>4, <1>2, Constants DEF Admit
  <2>2. Level' = Level - Cost /\ LivesLongEnough'
    BY <2>1, <1>1, LevelAfterStore
  <2>3. spent'[now] = spent[now] + Cost
    BY <1>4, <1>2 DEF Admit
  <2>4. ASSUME NEW a \in 0..now
        PROVE  Bound!Before(spent', a) = Bound!Before(spent, a)
    BY <1>4, <1>2 DEF Admit, Bound!Before
  <2>5. ASSUME NEW a \in 0..now'
        PROVE  spent'[now'] - Bound!Before(spent', a) + Level' <= Full + (now' - a)
    <3>1. now' = now /\ a \in 0..now
      BY <2>1
    <3>2. /\ Bound!Before(spent, a) \in Nat
          /\ spent[now] - Bound!Before(spent, a) + Level <= Full + (now - a)
      BY <3>1, <1>3
    <3>3. spent'[now'] = spent[now] + Cost /\ Bound!Before(spent', a) = Bound!Before(spent, a)
      BY <3>1, <2>3, <2>4
    <3>4. spent[now] \in Int /\ Level \in Int /\ Cost \in Int
      BY <1>2, Constants
    <3> QED
      BY ONLY <3>1, <3>2, <3>3, <3>4, <1>2, <2>2, Constants
  <2>6. Covered'
    BY <2>5 DEF Covered
  <2> QED
    BY <1>1, <2>2, <2>6 DEF Inv
<1>5. CASE Refuse
  <2>1. Store(Level) /\ UNCHANGED <<now, back, spent>>
    BY <1>5 DEF Refuse
  <2>2. Level' = Level /\ LivesLongEnough'
    BY <2>1, <1>1, <1>2, LevelAfterStore
  <2> QED
    BY <1>1, <1>3, <2>1, <2>2 DEF Inv, Covered
<1>6. CASE Expire
  <2>1. Level' <= Level
    BY <1>6, <1>1, <1>2, LevelOverTime DEF Expire
  <2>2. LivesLongEnough'
    BY <1>6 DEF Expire, LivesLongEnough
  <2>3. UNCHANGED <<now, spent>>
    BY <1>6 DEF Expire
  <2>4. Covered'
    <3>1. ASSUME NEW a \in 0..now
          PROVE  spent[now] - Bound!Before(spent, a) + Level' <= Full + (now - a)
      <4>1. spent[now] \in Nat /\ Full \in Nat
        BY <1>2, Constants
      <4>2. /\ Bound!Before(spent, a) \in Nat
            /\ spent[now] - Bound!Before(spent, a) + Level <= Full + (now - a)
        BY <1>3
      <4> QED
        BY ONLY <4>1, <4>2, <1>2, <2>1
    <3> QED
      BY <3>1, <2>3 DEF Covered, Bound!Before
  <2> QED
    BY <1>1, <2>2, <2>4 DEF Inv
<1>7. CASE Tick
  <2>1. /\ now' = now + 1 /\ now + 1 \in 0..MaxTime
        /\ UNCHANGED <<back, exists, tokens, lastRefill, expiresAt>>
    BY <1>7, <1>2, Constants DEF Tick, keyVars
  <2>2. Level' <= Level + 1
    BY <2>1, <1>1, LevelOverTime
  <2>3. spent'[now + 1] = spent[now] /\ spent'[now] = spent[now]
    BY <1>7, <1>2, <2>1 DEF Tick
  <2>4. ASSUME NEW a \in 0..now
        PROVE  Bound!Before(spent', a) = Bound!Before(spent, a)
    BY <1>7, <1>2, <2>1 DEF Tick, Bound!Before
  <2>5. Bound!Before(spent', now + 1) = spent[now]
    BY <2>3, <1>2 DEF Bound!Before
  <2>6. ASSUME NEW a \in 0..now'
        PROVE  spent'[now'] - Bound!Before(spent', a) + Level' <= Full + (now' - a)
    <3>1. CASE a = now + 1
      BY <3>1, <2>1, <2>3, <2>5, <1>2, Constants
    <3>2. CASE a \in 0..now
      <4>1. /\ Bound!Before(spent, a) \in Nat
            /\ spent[now] - Bound!Before(spent, a) + Level <= Full + (now - a)
        BY <3>2, <1>3
      <4>2. spent'[now'] = spent[now] /\ Bound!Before(spent', a) = Bound!Before(spent, a)
        BY <3>2, <2>1, <2>3, <2>4
      <4>3. spent[now] \in Int /\ Full \in Int /\ a \in Int
        BY <3>2, <1>2, Constants
      <4> QED
        BY ONLY <4>1, <4>2, <4>3, <2>1, <2>2, <1>2
    <3> QED
      BY <3>1, <3>2, <2>1, <1>2
  <2>7. Covered'
    BY <2>6 DEF Covered
  <2>8. LivesLongEnough'
    BY <2>1 DEF LivesLongEnough, Inv
  <2> QED
    BY <1>1, <2>7, <2>8 DEF Inv
<1>8. CASE SetBack
  <2>1. /\ UNCHANGED <<now, exists, tokens, lastRefill, expiresAt, spent>>
        /\ back' = back + 1
    BY <1>8 DEF SetBack, keyVars
  <2>2. Level' <= Level
    BY <2>1, <1>1, LevelOverTime
  <2>3. Covered'
    <3>1. ASSUME NEW a \in 0..now
          PROVE  spent[now] - Bound!Before(spent, a) + Level' <= Full + (now - a)
      <4>1. spent[now] \in Nat /\ Bound!Before(spent, a) \in Nat /\ Full \in Nat
        BY <1>2, <1>3, Constants
      <4>2. spent[now] - Bound!Before(spent, a) + Level <= Full + (now - a)
        BY <1>3
      <4> QED
        BY ONLY <4>1, <4>2, <1>2, <2>2
    <3> QED
      BY <3>1, <2>1 DEF Covered
  <2>4. LivesLongEnough'
    BY <2>1 DEF LivesLongEnough, Inv
  <2> QED
    BY <1>1, <2>3, <2>4 DEF Inv
<1>9. CASE UNCHANGED vars
  BY <1>9, <1>1 DEF vars, keyVars, Inv, LivesLongEnough, Covered, Level, Alive, Clock
<1> QED
  BY <1>4, <1>5, <1>6, <1>7, <1>8, <1>9 DEF Next

\* The key's fields stay in their ranges, whatever the clock does.
THEOREM BucketTypes == Spec => []TypeOK
<1>1. Inv => TypeOK
  BY DEF Inv
<1> QED
  BY <1>1, InitInv, StepInv, PTL DEF Spec

\* For every capacity, rate and correction of the clock, no stretch of time
\* admits more than a full bucket and what is refilled in that stretch.
THEOREM BucketImplementsBound == Spec => ImplementsBound
<1>1. Init => Bound!Init
  BY DEF Init, Bound!Init
<1>2. Inv /\ Inv' /\ [Next]_vars => [Bound!Next]_(Bound!vars)
  <2> SUFFICES ASSUME Inv, Inv', [Next]_vars
               PROVE  [Bound!Next]_(Bound!vars)
    OBVIOUS
  <2>1. CASE Admit
    <3>1. now \in 0..MaxTime /\ now' = now /\ spent' \in [0..MaxTime -> Nat]
      BY <2>1 DEF Admit, Inv, TypeOK
    <3>2. Level' \in 0..Full
      <4>1. (TypeOK => Level \in 0..Full)'
        BY LevelRange, PTL
      <4> QED
        BY <4>1 DEF Inv
    <3>3. ASSUME NEW a \in 0..now
          PROVE  spent'[now] - Bound!Before(spent', a) <= BurstAndRefill[now - a]
      <4>1. spent'[now] - Bound!Before(spent', a) + Level' <= Full + (now - a)
        BY <3>1 DEF Inv, Covered
      <4>2. spent'[now] \in Nat /\ Bound!Before(spent', a) \in Nat
        BY <3>1, Constants DEF Bound!Before
      <4>3. BurstAndRefill[now - a] = Full + (now - a)
        BY <3>1, Constants DEF BurstAndRefill
      <4> QED
        BY <3>1, <3>2, <4>1, <4>2, <4>3, Constants
    <3>4. Bound!Within(spent', now)
      BY <3>3 DEF Bound!Within
    <3> QED
      BY <2>1, <3>4 DEF Admit, Bound!Next, Bound!Admit
  <2>2. CASE Tick
    BY <2>2 DEF Tick, Bound!Next, Bound!Tick
  <2>3. CASE Refuse \/ Expire \/ SetBack \/ UNCHANGED vars
    BY <2>3 DEF Refuse, Expire, SetBack, vars, Bound!vars
  <2> QED
    BY <2>1, <2>2, <2>3 DEF Next
<1> QED
  BY <1>1, <1>2, InitInv, StepInv, PTL DEF Spec, ImplementsBound, Bound!Spec

\* Until a promised time the bucket has, or refills, what a token lacks; the
\* clock has not been set back since the promise was made.
Promise ==
    retryAt # Never => /\ Level >= Cost \/ Level + (retryAt - now) >= Cost
                       /\ Clock >= lastRefill

\* The invariant that makes Retry-After suffice.
LEMMA PromiseStep == Inv /\ Inv' /\ Promise /\ [Next]_vars => Promise'
<1> SUFFICES ASSUME Inv, Inv', Promise, [Next]_vars PROVE Promise'
  OBVIOUS
<1>1. /\ TypeOK /\ TypeOK' /\ Level \in 0..Full /\ Clock \in Int
      /\ now \in Int /\ retryAt \in Int /\ lastRefill \in Int
      /\ back \in Int /\ tokens \in 0..Full /\ expiresAt \in Int
  <2>1. TypeOK /\ TypeOK'
    BY DEF Inv
  <2>2. Level \in 0..Full /\ Clock \in Int
    BY <2>1, LevelRange
  <2>3. /\ now \in Int /\ retryAt \in Int /\ lastRefill \in Int
        /\ back \in Int /\ tokens \in 0..Full /\ expiresAt \in Int
    BY ONLY <2>1 DEF TypeOK
  <2> QED
    BY <2>1, <2>2, <2>3
<1>2. CASE Admit \/ SetBack
  BY <1>2 DEF Admit, SetBack, Promise
<1>3. CASE Refuse
  <2>1. Store(Level) /\ UNCHANGED <<now, back, spent>>
    BY <1>3 DEF Refuse
  <2>2. Level' = Level
    BY <2>1, <1>1, LevelAfterStore
  <2>3. Clock' = Clock /\ lastRefill' = Clock
    BY <2>1 DEF Clock, Store
  <2>4. retryAt' = Least(retryAt, now + (Cost - Level)) /\ Level < Cost
    BY <1>3 DEF Refuse, RetryAfter
  <2>5. Level + (retryAt' - now) >= Cost
    <3>1. CASE retryAt = Never
      BY <3>1, <2>4, <1>1, Constants DEF Least, TypeOK
    <3>2. CASE retryAt # Never
      BY <3>2, <2>4, <1>1, Constants DEF Least, Promise
    <3> QED
      BY <3>1, <3>2
  <2> QED
    BY <2>1, <2>2, <2>3, <2>5, <1>1 DEF Promise
<1>4. CASE Expire
  <2>1. Level' = Full
    BY <1>4 DEF Expire, Level, Alive
  <2>2. Clock' = Clock /\ UNCHANGED <<lastRefill, retryAt>>
    BY <1>4 DEF Expire, Clock
  <2> QED
    BY <2>1, <2>2, Constants DEF Promise
<1>5. CASE Tick
  <2>1. Clock' = Clock + 1 /\ now' = now + 1 /\ UNCHANGED <<exists, tokens, lastRefill, expiresAt, retryAt>>
    BY <1>5, <1>1, Constants DEF Tick, keyVars, Clock
  <2>2. CASE retryAt = Never
    BY <2>1, <2>2 DEF Promise
  <2>3. CASE retryAt # Never
    <3>1. CASE Alive'
      <4>1. Alive
        BY <3>1, <2>1, <1>1 DEF Alive
      <4>2. Level' = Full \/ Level' = Level + 1
        BY <3>1, <4>1, <2>1, <2>3, <1>1, Constants DEF Promise, Level, Least
      <4> QED
        BY <4>2, <2>1, <2>3, <1>1, Constants DEF Promise
    <3>2. CASE ~Alive'
      <4>1. Level' = Full
        BY <3>2 DEF Level
      <4> QED
        BY <4>1, <2>1, <2>3, <1>1, Constants DEF Promise
    <3> QED
      BY <3>1, <3>2
  <2> QED
    BY <2>2, <2>3
<1>6. CASE UNCHANGED vars
  BY <1>6 DEF vars, keyVars, Promise, Level, Alive, Clock
<1> QED
  BY <1>2, <1>3, <1>4, <1>5, <1>6 DEF Next

\* For every rate the answer to a refused client is long enough.
THEOREM RetryAfterTellsTheTruth == Spec => []RetryAfterSuffices
<1>1. Init => Promise
  BY DEF Init, Promise
<1>2. Inv /\ Promise => RetryAfterSuffices
  <2> SUFFICES ASSUME Inv, Promise, now >= retryAt PROVE Level >= Cost
    BY DEF RetryAfterSuffices
  <2>1. Level \in 0..Full /\ now \in 0..MaxTime /\ retryAt \in Nat
    BY LevelRange, Constants DEF Inv, TypeOK
  <2>2. retryAt # Never
    BY <2>1, Constants
  <2> QED
    BY <2>1, <2>2, Constants DEF Promise
<1> QED
  BY <1>1, <1>2, InitInv, StepInv, PromiseStep, PTL DEF Spec

\* The modules brought in by INSTANCE count as this one does.
LEMMA SameCount ==
    ASSUME NEW S
    PROVE  /\ Sliding!Cardinality(S) = Cardinality(S)
           /\ Guard!Cardinality(S) = Cardinality(S)
           /\ Guard!IsFiniteSet(S) <=> IsFiniteSet(S)
<1>1. Sliding!Cardinality(S) = Cardinality(S)
  BY DEF Sliding!Cardinality, Cardinality
<1>2. Guard!Cardinality(S) = Cardinality(S)
  BY DEF Guard!Cardinality, Cardinality
<1>3. Guard!IsFiniteSet(S) <=> IsFiniteSet(S)
  BY DEF Guard!IsFiniteSet, IsFiniteSet
<1> QED
  BY <1>1, <1>2, <1>3

\* Every set of numbers has a least one: of the intervals from zero to its
\* members, take one that contains no other.
LEMMA LeastNumber ==
    ASSUME NEW S \in SUBSET Nat, S # {}
    PROVE  \E m \in S : \A n \in S : m <= n
<1> DEFINE intervals == {0..m : m \in S}
<1>1. intervals \subseteq FiniteSubsetsOf(Nat) /\ intervals # {}
  <2>1. ASSUME NEW m \in S PROVE 0..m \in FiniteSubsetsOf(Nat)
    BY FS_Interval DEF FiniteSubsetsOf
  <2> QED
    BY <2>1
<1>2. \E I \in intervals : \A J \in intervals : <<J, I>> \notin StrictSubsetOrdering(Nat)
  <2> HIDE DEF intervals
  <2> QED
    BY <1>1, FS_StrictSubsetOrderingWellFounded, WFMin
<1>3. PICK m \in S : \A J \in intervals : <<J, 0..m>> \notin StrictSubsetOrdering(Nat)
  BY <1>2
<1>4. ASSUME NEW n \in S, n < m PROVE FALSE
  <2>1. <<0..n, 0..m>> \notin StrictSubsetOrdering(Nat)
    BY <1>3
  <2>2. 0..n \in SUBSET Nat /\ 0..m \in SUBSET Nat /\ 0..n \subseteq 0..m
    BY <1>4
  <2>3. m \in 0..m /\ m \notin 0..n
    BY <1>4
  <2> QED
    BY <2>1, <2>2, <2>3 DEF StrictSubsetOrdering
<1> QED
  BY <1>4

\* AdmissionBound's Before, for each of the limiters.
Before(s, a) == IF a = 0 THEN 0 ELSE s[a - 1]

\* What was taken only grows, up to tick n.
Monotone(s, n) == \A a, b \in 0..n :
    a <= b => Before(s, a) <= Before(s, b) /\ Before(s, b) <= s[n]

\* An admission changes nothing before the present tick ...
LEMMA AdmitKeepsPast ==
    ASSUME NEW max \in Nat, NEW n \in 0..max, NEW s \in [0..max -> Nat], Monotone(s, n),
           NEW t, t = [s EXCEPT ![n] = @ + 1]
    PROVE  /\ t \in [0..max -> Nat] /\ t[n] = s[n] + 1 /\ s[n] \in Nat
           /\ \A a \in 0..n : Before(t, a) = Before(s, a) /\ Before(s, a) \in Nat
           /\ Monotone(t, n)
<1>1. t \in [0..max -> Nat] /\ t[n] = s[n] + 1 /\ s[n] \in Nat
  OBVIOUS
<1>2. \A a \in 0..n : Before(t, a) = Before(s, a) /\ Before(s, a) \in Nat
  BY DEF Before
<1>3. ASSUME NEW a \in 0..n, NEW b \in 0..n, a <= b
      PROVE  Before(t, a) <= Before(t, b) /\ Before(t, b) <= t[n]
  <2>1. Before(s, a) <= Before(s, b) /\ Before(s, b) <= s[n]
    BY <1>3 DEF Monotone
  <2>2. /\ Before(t, a) = Before(s, a) /\ Before(t, b) = Before(s, b)
        /\ Before(s, b) \in Nat /\ t[n] = s[n] + 1 /\ s[n] \in Nat
    BY <1>1, <1>2
  <2> QED
    BY ONLY <2>1, <2>2
<1> QED
  BY <1>1, <1>2, <1>3 DEF Monotone

\* ... and a tick begins with what the one before it has taken.
LEMMA TickKeepsPast ==
    ASSUME NEW max \in Nat, NEW n \in 0..max, n + 1 \in 0..max,
           NEW s \in [0..max -> Nat], Monotone(s, n),
           NEW t, t = [s EXCEPT ![n + 1] = s[n]]
    PROVE  /\ t \in [0..max -> Nat] /\ t[n + 1] = s[n] /\ s[n] \in Nat
           /\ \A a \in 0..n : Before(t, a) = Before(s, a) /\ Before(s, a) \in Nat
           /\ Before(t, n + 1) = s[n]
           /\ Monotone(t, n + 1)
<1>1. t \in [0..max -> Nat] /\ t[n + 1] = s[n] /\ s[n] \in Nat
  OBVIOUS
<1>2. \A a \in 0..n : Before(t, a) = Before(s, a) /\ Before(s, a) \in Nat
  BY DEF Before
<1>3. Before(t, n + 1) = s[n]
  BY DEF Before
<1>4. ASSUME NEW a \in 0..(n + 1), NEW b \in 0..(n + 1), a <= b
      PROVE  Before(t, a) <= Before(t, b) /\ Before(t, b) <= t[n + 1]
  <2>1. CASE a \in 0..n /\ b \in 0..n
    <3>1. Before(s, a) <= Before(s, b) /\ Before(s, b) <= s[n]
      BY <2>1, <1>4 DEF Monotone
    <3> QED
      BY <3>1, <2>1, <1>1, <1>2
  <2>2. CASE a \in 0..n /\ b = n + 1
    <3>1. Before(s, a) <= s[n]
      BY <2>2 DEF Monotone
    <3>2. /\ Before(t, a) = Before(s, a) /\ Before(t, b) = s[n]
          /\ t[n + 1] = s[n] /\ s[n] \in Nat
      BY <2>2, <1>1, <1>2, <1>3
    <3> QED
      BY ONLY <3>1, <3>2
  <2>3. CASE a = n + 1 /\ b = n + 1
    BY <2>3, <1>1, <1>3
  <2> QED
    BY <2>1, <2>2, <2>3, <1>4
<1> QED
  BY <1>1, <1>2, <1>3, <1>4 DEF Monotone

(***************************************************************************)
(* What fits into the windows of a given size that cover d + 1 ticks.      *)
(***************************************************************************)
Covering(d, size, limit) == ((d \div size) + 1) * limit

\* It is a number, and at least one limit.
LEMMA CoveringRange ==
    ASSUME NEW size \in Nat \ {0}, NEW limit \in Nat, NEW d \in Nat
    PROVE  Covering(d, size, limit) \in Nat /\ limit <= Covering(d, size, limit)
<1>1. \A k \in Nat : (k + 1) * limit \in Nat /\ limit <= (k + 1) * limit
  <2>1. \A k \in Nat : (k + 1) * limit = k * limit + limit /\ k * limit \in Nat
    OBVIOUS
  <2> QED
    BY <2>1
<1>2. d \div size \in Nat
  BY SMT
<1> QED
  BY <1>1, <1>2, Zenon DEF Covering

\* One more window holds one more limit.
LEMMA CoveringNextWindow ==
    ASSUME NEW size \in Nat \ {0}, NEW limit \in Nat, NEW d \in Nat
    PROVE  Covering(d + size, size, limit) = Covering(d, size, limit) + limit
<1>1. d \div size \in Nat /\ (d + size) \div size = (d \div size) + 1
  BY SMT
<1>2. \A k \in Nat : ((k + 1) + 1) * limit = (k + 1) * limit + limit
  OBVIOUS
<1> QED
  BY <1>1, <1>2, Zenon DEF Covering

\* A longer stretch holds no less.
LEMMA CoveringGrows ==
    ASSUME NEW size \in Nat \ {0}, NEW limit \in Nat, NEW d \in Nat, NEW e \in Nat, d <= e
    PROVE  Covering(d, size, limit) <= Covering(e, size, limit)
<1>1. d \div size \in Nat /\ e \div size \in Nat /\ (d \div size) + 1 <= (e \div size) + 1
  BY SMT
<1>2. \A k, m \in Nat : k + 1 <= m + 1 => (k + 1) * limit <= (m + 1) * limit
  BY SMT
<1> QED
  BY <1>1, <1>2, Zenon DEF Covering

(***************************************************************************)
(* The fixed window.  What the current window has admitted is at most its  *)
(* counter; what was admitted in the ticks before it began fits into the   *)
(* windows that cover them.                                                *)
(***************************************************************************)
FTypes ==
    /\ fNow \in 0..FMaxTime
    /\ count \in 0..(FLimit + 1)
    /\ fExpiresAt \in Nat
    /\ fSpent \in [0..FMaxTime -> Nat]
    /\ fRetryAt \in Nat

\* Where the current window began; where the next one would, without one.
FStart == IF count = 0 THEN fNow ELSE fExpiresAt - FWindow

\* A counter that is there has a window that is not over.
FWindowOpen == count > 0 => FStart \in 0..fNow /\ fNow <= fExpiresAt

\* What was admitted in the window that is open is in its counter and within the limit.
FCurrent == fSpent[fNow] - Before(fSpent, FStart) <= count
         /\ fSpent[fNow] - Before(fSpent, FStart) <= FLimit

\* A stretch that ends before the window took the limit for each window it met at most.
FEarlier == \A a \in 0..fNow :
    a < FStart => Before(fSpent, FStart) - Before(fSpent, a) <= Covering(FStart - 1 - a, FWindow + 1, FLimit)

\* The invariant of the fixed window.
FInv == FTypes /\ FWindowOpen /\ Monotone(fSpent, fNow) /\ FCurrent /\ FEarlier

\* The constants of the fixed window are positive numbers.
LEMMA FConstants ==
    /\ FLimit \in Nat /\ FLimit > 0 /\ FWindow \in Nat /\ FWindow > 0 /\ FMaxTime \in Nat
    /\ FWindow + 1 \in Nat \ {0} /\ FWindow + 1 > FWindow
BY LimitAssumption DEF Fixed!WindowAssumption

\* What a stretch may take is the limit for each window it meets.
LEMMA FPerWindow ==
    ASSUME NEW d \in 0..FMaxTime
    PROVE  Fixed!PerWindow[d] = Covering(d, FWindow + 1, FLimit) + FLimit
<1>1. d \in Nat /\ d \div (FWindow + 1) \in Nat
  BY FConstants, SMT
<1>2. Fixed!PerWindow[d] = ((d \div (FWindow + 1)) + 2) * FLimit
  BY DEF Fixed!PerWindow
<1>3. \A k \in Nat : (k + 2) * FLimit = (k + 1) * FLimit + FLimit
  BY FConstants
<1> QED
  BY <1>1, <1>2, <1>3 DEF Covering

\* A fixed window without a counter satisfies the invariant.
LEMMA FInit == Fixed!Init => FInv
<1> SUFFICES ASSUME Fixed!Init PROVE FInv
  OBVIOUS
<1> USE DEF Fixed!Init
<1>1. fNow = 0 /\ count = 0 /\ fExpiresAt = 0 /\ fSpent[0] = 0
  BY FConstants
<1>2. FTypes
  BY FConstants DEF FTypes, Fixed!Never
<1>3. Before(fSpent, 0) = 0
  BY DEF Before
<1> QED
  BY <1>1, <1>2, <1>3, FConstants DEF FInv, FWindowOpen, Monotone, FCurrent, FEarlier, FStart

\* An admission changes nothing before the present tick.
LEMMA FAdmitStep == FInv /\ Fixed!Admit => FInv' /\ Fixed!Bound!Within(fSpent', fNow)
<1> SUFFICES ASSUME FInv, Fixed!Admit PROVE FInv' /\ Fixed!Bound!Within(fSpent', fNow)
  OBVIOUS
<1> USE FConstants
<1>1. /\ fNow \in 0..FMaxTime /\ fNow' = fNow
      /\ count \in 0..FLimit /\ count' = count + 1 /\ count < FLimit
      /\ fExpiresAt' = IF count = 0 THEN fNow + FWindow ELSE fExpiresAt
      /\ fSpent' = [fSpent EXCEPT ![fNow] = @ + 1]
      /\ fSpent \in [0..FMaxTime -> Nat] /\ fExpiresAt \in Nat
  BY DEF FInv, FTypes, Fixed!Admit, Fixed!Count, Fixed!Counted, Fixed!OverLimit, Fixed!Expiry
<1>2. fSpent' \in [0..FMaxTime -> Nat] /\ fSpent'[fNow] = fSpent[fNow] + 1
  BY <1>1
<1>3. FTypes'
  BY <1>1, <1>2 DEF FTypes, Fixed!Admit, Fixed!Never
<1>4. FStart' = FStart
  BY <1>1 DEF FStart
<1>5. \A a \in 0..fNow : Before(fSpent', a) = Before(fSpent, a) /\ Before(fSpent, a) \in Nat
  BY <1>1, <1>2 DEF Before
<1>6. FStart \in 0..fNow
  BY <1>1 DEF FStart, FInv, FWindowOpen
<1>7. /\ Before(fSpent', FStart) = Before(fSpent, FStart) /\ Before(fSpent, FStart) \in Nat /\ fSpent[fNow] \in Nat
  BY <1>1, <1>5, <1>6
<1>8. FWindowOpen'
  BY <1>1, <1>4, <1>6 DEF FWindowOpen, FInv
<1>9. Monotone(fSpent', fNow')
  BY <1>1, AdmitKeepsPast DEF FInv
<1>10. FCurrent'
  BY <1>1, <1>2, <1>4, <1>6, <1>7 DEF FCurrent, FInv
<1>11. FEarlier'
  BY <1>1, <1>4, <1>5, <1>6, <1>7 DEF FEarlier, FInv
<1>12. ASSUME NEW a \in 0..fNow
       PROVE  fSpent'[fNow] - Before(fSpent', a) <= Fixed!PerWindow[fNow - a]
  <2>1. Fixed!PerWindow[fNow - a] = Covering(fNow - a, FWindow + 1, FLimit) + FLimit
    <3>1. fNow - a \in 0..FMaxTime
      BY <1>1
    <3> QED
      BY <3>1, FPerWindow
  <2>2. Covering(fNow - a, FWindow + 1, FLimit) \in Nat
    <3>1. fNow - a \in Nat
      BY <1>1
    <3> QED
      BY <3>1, CoveringRange
  <2>3. Before(fSpent', a) \in Nat /\ Before(fSpent, a) = Before(fSpent', a) /\ fSpent'[fNow] \in Nat
    BY <1>1, <1>2, <1>5
  <2>4. fSpent'[fNow] - Before(fSpent, FStart) <= FLimit
    BY <1>1, <1>4, <1>7, <1>10 DEF FCurrent
  <2>5. CASE a >= FStart
    <3>1. Before(fSpent, FStart) <= Before(fSpent, a)
      BY <2>5, <1>1, <1>6 DEF FInv, Monotone
    <3> QED
      BY <3>1, <2>1, <2>2, <2>3, <2>4, <1>7
  <2>6. CASE a < FStart
    <3>1. Before(fSpent, FStart) - Before(fSpent, a) <= Covering(FStart - 1 - a, FWindow + 1, FLimit)
      BY <2>6, <1>1 DEF FInv, FEarlier
    <3>2. FStart - 1 - a \in Nat /\ fNow - a \in Nat /\ FStart - 1 - a <= fNow - a
      BY <2>6, <1>1, <1>6
    <3>3. /\ Covering(FStart - 1 - a, FWindow + 1, FLimit) <= Covering(fNow - a, FWindow + 1, FLimit)
          /\ Covering(FStart - 1 - a, FWindow + 1, FLimit) \in Nat
      BY <3>2, CoveringGrows, CoveringRange
    <3> QED
      BY <3>1, <3>3, <2>1, <2>2, <2>3, <2>4, <1>7
  <2> QED
    BY <2>5, <2>6, <1>1, <1>6
<1>13. Fixed!Bound!Within(fSpent', fNow)
  BY <1>12, <1>1 DEF Fixed!Bound!Within, Fixed!Bound!Before, Before
<1> QED
  BY <1>3, <1>8, <1>9, <1>10, <1>11, <1>13 DEF FInv

\* A tick closes the window, or lets it go on.
LEMMA FTickStep == FInv /\ Fixed!Tick => FInv'
<1> SUFFICES ASSUME FInv, Fixed!Tick PROVE FInv'
  OBVIOUS
<1> USE FConstants
<1>1. /\ fNow \in 0..FMaxTime /\ fNow + 1 \in 0..FMaxTime /\ fNow' = fNow + 1
      /\ count \in 0..(FLimit + 1) /\ count' = IF fNow + 1 > fExpiresAt THEN 0 ELSE count
      /\ fExpiresAt' = fExpiresAt /\ fExpiresAt \in Nat
      /\ fSpent' = [fSpent EXCEPT ![fNow + 1] = fSpent[fNow]]
      /\ fSpent \in [0..FMaxTime -> Nat] /\ fRetryAt' = fRetryAt
  BY DEF FInv, FTypes, Fixed!Tick
<1>2. /\ fSpent' \in [0..FMaxTime -> Nat] /\ fSpent'[fNow + 1] = fSpent[fNow]
      /\ fSpent[fNow] \in Nat
  BY <1>1
<1>3. FTypes'
  BY <1>1, <1>2 DEF FTypes, FInv
<1>4. \A a \in 0..fNow : Before(fSpent', a) = Before(fSpent, a) /\ Before(fSpent, a) \in Nat
  BY <1>1, <1>2 DEF Before
<1>5. Before(fSpent', fNow + 1) = fSpent[fNow]
  BY <1>1, <1>2 DEF Before
<1>6. Monotone(fSpent', fNow')
  BY <1>1, TickKeepsPast DEF FInv
<1>7. FStart \in 0..fNow
  BY <1>1 DEF FStart, FInv, FWindowOpen
<1>8. Before(fSpent', FStart) = Before(fSpent, FStart) /\ Before(fSpent, FStart) \in Nat
  BY <1>1, <1>4, <1>7
<1>9. CASE count' # 0
  <2>1. count' = count /\ FStart' = FStart /\ fNow + 1 <= fExpiresAt
    BY <1>9, <1>1 DEF FStart
  <2>2. FWindowOpen'
    BY <2>1, <1>1, <1>7 DEF FWindowOpen
  <2>3. FCurrent'
    BY <2>1, <1>1, <1>2, <1>8 DEF FCurrent, FInv
  <2>4. FEarlier'
    <3>1. ASSUME NEW a \in 0..fNow, a < FStart
          PROVE  Before(fSpent', FStart') - Before(fSpent', a) <= Covering(FStart' - 1 - a, FWindow + 1, FLimit)
      BY <3>1, <2>1, <1>1, <1>4, <1>8 DEF FEarlier, FInv
    <3>2. FStart \in 0..fNow /\ FStart' = FStart /\ fNow' = fNow + 1
      BY <2>1, <1>1, <1>7
    <3>3. ASSUME NEW a \in 0..fNow', a < FStart' PROVE a \in 0..fNow /\ a < FStart
      BY <3>2, <3>3, <1>1
    <3> QED
      BY <3>1, <3>3 DEF FEarlier
  <2> QED
    BY <2>2, <2>3, <2>4, <1>3, <1>6 DEF FInv
<1>10. CASE count' = 0
  <2>1. FStart' = fNow + 1
    BY <1>10, <1>1 DEF FStart
  <2>2. FWindowOpen' /\ FCurrent'
    BY <2>1, <1>10, <1>1, <1>2, <1>5 DEF FWindowOpen, FCurrent
  <2>3. ASSUME NEW a \in 0..fNow
        PROVE  fSpent[fNow] - Before(fSpent, a) <= Covering(fNow - a, FWindow + 1, FLimit)
    <3>1. fNow - a \in Nat /\ FLimit <= Covering(fNow - a, FWindow + 1, FLimit)
          /\ Covering(fNow - a, FWindow + 1, FLimit) \in Nat
      <4>1. fNow - a \in Nat
        BY <1>1
      <4> QED
        BY <4>1, CoveringRange
    <3>2. Before(fSpent, a) \in Nat
      BY <1>4
    <3>3. CASE a >= FStart
      <4>1. Before(fSpent, FStart) <= Before(fSpent, a)
        BY <3>3, <1>1, <1>7 DEF FInv, Monotone
      <4> QED
        BY <4>1, <3>1, <3>2, <1>2, <1>8 DEF FInv, FCurrent
    <3>4. CASE a < FStart
      <4>1. Before(fSpent, FStart) - Before(fSpent, a) <= Covering(FStart - 1 - a, FWindow + 1, FLimit)
        BY <3>4 DEF FInv, FEarlier
      <4>2. FStart - 1 - a \in Nat
        BY <3>4, <1>7, <1>1
      <4>3. CASE count = 0
        <5>1. fSpent[fNow] - Before(fSpent, FStart) <= 0
          BY <4>3, <1>1 DEF FInv, FCurrent
        <5>2. /\ Covering(FStart - 1 - a, FWindow + 1, FLimit) <= Covering(fNow - a, FWindow + 1, FLimit)
              /\ Covering(FStart - 1 - a, FWindow + 1, FLimit) \in Nat
          <6>1. FStart - 1 - a <= fNow - a
            BY <1>7, <1>1
          <6> QED
            BY <6>1, <4>2, <3>1, CoveringGrows, CoveringRange
        <5> QED
          <6>1. fSpent[fNow] \in Nat /\ Before(fSpent, FStart) \in Nat
            BY <1>2, <1>8
          <6> QED
            BY ONLY <5>1, <5>2, <4>1, <3>1, <3>2, <6>1
      <4>4. CASE count # 0
        <5>1. fNow = FStart + FWindow
          BY <4>4, <1>10, <1>1 DEF FInv, FWindowOpen, FStart
        <5>2. fNow - a = (FStart - 1 - a) + (FWindow + 1)
          BY <5>1, <1>7, <1>1
        <5>3. /\ Covering(fNow - a, FWindow + 1, FLimit) =
                   Covering(FStart - 1 - a, FWindow + 1, FLimit) + FLimit
              /\ Covering(FStart - 1 - a, FWindow + 1, FLimit) \in Nat
          <6>1. FWindow + 1 \in Nat \ {0} /\ FLimit \in Nat
            OBVIOUS
          <6>2. Covering((FStart - 1 - a) + (FWindow + 1), FWindow + 1, FLimit) =
                  Covering(FStart - 1 - a, FWindow + 1, FLimit) + FLimit
            BY ONLY <6>1, <4>2, CoveringNextWindow, Zenon
          <6>3. Covering(FStart - 1 - a, FWindow + 1, FLimit) \in Nat
            BY ONLY <6>1, <4>2, CoveringRange, Zenon
          <6> QED
            BY ONLY <5>2, <6>2, <6>3, Zenon
        <5>4. fSpent[fNow] - Before(fSpent, FStart) <= FLimit
          BY DEF FInv, FCurrent
        <5> QED
          <6>1. fSpent[fNow] \in Nat /\ Before(fSpent, FStart) \in Nat /\ FLimit \in Nat
            BY <1>2, <1>8
          <6> QED
            BY ONLY <5>3, <5>4, <4>1, <3>2, <6>1
      <4> QED
        BY <4>3, <4>4
    <3> QED
      BY <3>3, <3>4, <1>1, <1>7
  <2>4. FEarlier'
    <3>1. ASSUME NEW a \in 0..fNow
          PROVE  Before(fSpent', FStart') - Before(fSpent', a) <= Covering(FStart' - 1 - a, FWindow + 1, FLimit)
      <4>1. Before(fSpent', FStart') = fSpent[fNow] /\ Before(fSpent', a) = Before(fSpent, a)
        BY <2>1, <1>1, <1>4, <1>5
      <4>2. FStart' - 1 - a = fNow - a
        BY <2>1, <1>1
      <4> QED
        BY <4>1, <4>2, <2>3
    <3>2. ASSUME NEW a \in 0..fNow', a < FStart' PROVE a \in 0..fNow
      BY <3>2, <2>1, <1>1
    <3> QED
      BY <3>1, <3>2 DEF FEarlier
  <2> QED
    BY <2>2, <2>4, <1>3, <1>6 DEF FInv
<1> QED
  BY <1>9, <1>10

\* Every step of the fixed window keeps it.
LEMMA FStep == FInv /\ [Fixed!Next]_(Fixed!vars) => FInv'
<1> SUFFICES ASSUME FInv, [Fixed!Next]_(Fixed!vars) PROVE FInv'
  OBVIOUS
<1>1. CASE Fixed!Refuse
  <2>1. /\ count \in FLimit..(FLimit + 1) /\ count' \in FLimit..(FLimit + 1) /\ count <= count'
        /\ UNCHANGED <<fNow, fSpent, fExpiresAt>> /\ fRetryAt' \in Nat
    BY <1>1, FConstants
       DEF FInv, FTypes, Fixed!Refuse, Fixed!Count, Fixed!Counted, Fixed!OverLimit, Fixed!Expiry, Fixed!Least
  <2>2. FStart' = FStart /\ FTypes'
    BY <2>1, FConstants DEF FStart, FInv, FTypes
  <2>3. \A a : Before(fSpent', a) = Before(fSpent, a)
    BY <2>1 DEF Before
  <2>4. FStart \in 0..fNow
    BY <2>1, FConstants DEF FInv, FWindowOpen
  <2>5. Before(fSpent', FStart) = Before(fSpent, FStart) /\ Before(fSpent, FStart) \in Nat /\ fSpent[fNow] \in Nat
    BY <2>1, <2>2, <2>4, FConstants DEF FInv, FTypes, Before
  <2>6. FWindowOpen' /\ FCurrent'
    BY <2>1, <2>2, <2>5, FConstants DEF FInv, FWindowOpen, FCurrent
  <2>7. Monotone(fSpent', fNow') /\ FEarlier'
    BY <2>1, <2>2, <2>3, <2>5 DEF FInv, Monotone, FEarlier
  <2> QED
    BY <2>2, <2>6, <2>7 DEF FInv
<1>2. CASE Fixed!Clear
  <2>1. /\ fNow' = fNow /\ count' = 0 /\ fExpiresAt' = fExpiresAt
        /\ fSpent' = [t \in 0..FMaxTime |-> 0] /\ fRetryAt' \in Nat /\ FTypes
    BY <1>2, FConstants DEF FInv, Fixed!Clear, Fixed!Never
  <2>2. \A a \in 0..fNow' : Before(fSpent', a) = 0 /\ fSpent'[fNow'] = 0
    BY <2>1, FConstants DEF FTypes, Before
  <2>3. FStart' = fNow
    BY <2>1 DEF FStart
  <2>4. FTypes'
    BY <2>1, FConstants DEF FTypes
  <2>5. Before(fSpent', FStart') = 0
    <3>1. FStart' \in 0..fNow'
      BY <2>1, <2>3 DEF FTypes
    <3> QED
      BY <3>1, <2>2
  <2>6. FWindowOpen' /\ FCurrent'
    BY <2>1, <2>2, <2>5, FConstants DEF FWindowOpen, FCurrent, FTypes
  <2>9. Monotone(fSpent', fNow')
    <3>1. \A a \in 0..fNow' : Before(fSpent', a) <= 0 /\ 0 <= Before(fSpent', a) /\ Before(fSpent', a) <= fSpent'[fNow']
      BY <2>2
    <3> QED
      BY <3>1, <2>2 DEF Monotone
  <2>7. ASSUME NEW a \in 0..fNow', a < FStart'
        PROVE  0 <= Covering(FStart' - 1 - a, FWindow + 1, FLimit)
    BY <2>1, <2>3, <2>7, FConstants, CoveringRange DEF FTypes
  <2>8. FEarlier'
    BY <2>2, <2>5, <2>7 DEF FEarlier
  <2> QED
    BY <2>4, <2>6, <2>8, <2>9 DEF FInv
<1>3. CASE UNCHANGED Fixed!vars
  <2>1. \A a : Before(fSpent', a) = Before(fSpent, a)
    BY <1>3 DEF Fixed!vars, Before
  <2>2. FStart' = FStart
    BY <1>3 DEF Fixed!vars, FStart
  <2> QED
    BY <1>3, <2>1, <2>2
       DEF Fixed!vars, FInv, FTypes, FWindowOpen, Monotone, FCurrent, FEarlier
<1> QED
  BY <1>1, <1>2, <1>3, FAdmitStep, FTickStep DEF Fixed!Next

\* The script's admissions are AdmissionBound's, with twice the limit per window.
LEMMA FixedImplementsBound == Fixed!Spec => Fixed!ImplementsBound
<1>1. Fixed!Init => Fixed!Bound!Init
  BY DEF Fixed!Init, Fixed!Bound!Init
<1>2. FInv /\ [Fixed!Next]_(Fixed!vars) => [Fixed!Bound!Next]_(Fixed!Bound!vars)
  <2> SUFFICES ASSUME FInv, [Fixed!Next]_(Fixed!vars)
               PROVE  [Fixed!Bound!Next]_(Fixed!Bound!vars)
    OBVIOUS
  <2>1. CASE Fixed!Admit
    BY <2>1, FAdmitStep DEF Fixed!Admit, Fixed!Bound!Next, Fixed!Bound!Admit
  <2>2. CASE Fixed!Clear
    BY <2>2 DEF Fixed!Clear, Fixed!Bound!Next, Fixed!Bound!Forgive
  <2>3. CASE Fixed!Tick
    BY <2>3 DEF Fixed!Tick, Fixed!Bound!Next, Fixed!Bound!Tick
  <2>4. CASE Fixed!Refuse \/ UNCHANGED Fixed!vars
    BY <2>4 DEF Fixed!Refuse, Fixed!vars, Fixed!Bound!vars
  <2> QED
    BY <2>1, <2>2, <2>3, <2>4 DEF Fixed!Next
<1> QED
  BY <1>1, <1>2, FInit, FStep, PTL
     DEF Fixed!Spec, Fixed!ImplementsBound, Fixed!Bound!Spec

\* A refused client was told the end of the window, which is still the current one.
FPromise == /\ count \in 1..FLimit => fRetryAt = Fixed!Never
            /\ count > FLimit => fRetryAt = fExpiresAt

\* A Retry-After that was given stays true: the counter it waits for is not renewed by
\* refused requests (the script sets PEXPIRE on the first only).
LEMMA FPromiseStep == FInv /\ FPromise /\ [Fixed!Next]_(Fixed!vars) => FPromise'
<1> SUFFICES ASSUME FInv, FPromise, [Fixed!Next]_(Fixed!vars) PROVE FPromise'
  OBVIOUS
<1>1. FTypes /\ (count > 0 => fNow <= fExpiresAt /\ fExpiresAt <= fNow + FWindow)
  BY FConstants DEF FInv, FWindowOpen, FStart, FTypes
<1>2. CASE Fixed!Admit \/ Fixed!Clear
  BY <1>2, <1>1, FConstants
     DEF FTypes, Fixed!Admit, Fixed!Clear, Fixed!Count, Fixed!Counted, Fixed!OverLimit, FPromise, Fixed!Never
<1>3. CASE Fixed!Refuse
  BY <1>3, <1>1, FConstants
     DEF FTypes, FPromise, Fixed!Refuse, Fixed!Count, Fixed!Counted, Fixed!OverLimit,
         Fixed!Expiry, Fixed!Least, Fixed!Never
<1>4. CASE Fixed!Tick
  BY <1>4, <1>1, FConstants DEF FTypes, FPromise, Fixed!Tick, Fixed!Never
<1>5. CASE UNCHANGED Fixed!vars
  BY <1>5 DEF Fixed!vars, FPromise, Fixed!Never
<1> QED
  BY <1>2, <1>3, <1>4, <1>5 DEF Fixed!Next

\* Who waits for the Retry-After of the fixed window is admitted, unless others were quicker.
LEMMA FixedRetryAfter == Fixed!Spec => []Fixed!RetryAfterSuffices
<1>1. Fixed!Init => FPromise
  BY FConstants DEF Fixed!Init, FPromise
<1>2. FInv /\ FPromise => Fixed!RetryAfterSuffices
  BY FConstants DEF FInv, FTypes, FPromise, FWindowOpen, Fixed!RetryAfterSuffices
<1> QED
  BY <1>1, <1>2, FInit, FStep, FPromiseStep, PTL DEF Fixed!Spec

(***************************************************************************)
(* The sliding window.  The members of the sorted set are numbered by the  *)
(* admissions, so that those since a tick of the window are an interval of *)
(* numbers: as many as were taken since.  A longer stretch is split at the *)
(* beginning of the window; its earlier part was within its bound when it  *)
(* ended.                                                                  *)
(***************************************************************************)
STypes ==
    /\ sNow \in 0..SMaxTime
    /\ sSpent \in [0..SMaxTime -> Nat]
    /\ DOMAIN members \subseteq 1..sSpent[sNow]
    /\ members = [i \in DOMAIN members |-> members[i]]
    /\ \A i \in DOMAIN members : members[i] \in 0..sNow
    /\ sExpiresAt \in Nat
    /\ sRetryAt \in Int

\* The key outlives its members' time in the window.
SFresh == \A i \in DOMAIN members : members[i] + 2 * SWindow <= sExpiresAt

\* The window has its admissions as members, and no others.
SKept == \A a \in 0..sNow : a > sNow - SWindow =>
    \A i \in 1..sSpent[sNow] : i > Before(sSpent, a) <=> i \in DOMAIN members /\ members[i] >= a

\* The script adds a member only where there is room.
SFew == Cardinality(DOMAIN members) <= SLimit

\* A stretch that ends at t took the limit for each length of a window at most.
SWithin(s, t) == \A a \in 0..t : s[t] - Before(s, a) <= Covering(t - a, SWindow, SLimit)

SPast == \A t \in 0..sNow : SWithin(sSpent, t)

\* The invariant of the sliding window.
SInv == STypes /\ Monotone(sSpent, sNow) /\ SFresh /\ SKept /\ SFew /\ SPast

\* The constants of the sliding window are positive numbers.
LEMMA SConstants ==
    /\ SLimit \in Nat /\ SLimit > 0 /\ SWindow \in Nat /\ SWindow > 0 /\ SMaxTime \in Nat
    /\ SMilli \in Nat \ {0} /\ SSecond \in Nat \ {0} /\ SWindow \in Nat \ {0}
BY LimitAssumption DEF Sliding!WindowAssumption

\* Redis drops no key whose members still count.
LEMMA SRemaining ==
    ASSUME STypes, SFresh
    PROVE  /\ Sliding!Remaining = {i \in DOMAIN members : members[i] > sNow - SWindow}
           /\ Sliding!Remaining \subseteq DOMAIN members
           /\ IsFiniteSet(DOMAIN members) /\ IsFiniteSet(Sliding!Remaining)
           /\ Cardinality(DOMAIN members) \in Nat /\ Cardinality(Sliding!Remaining) \in Nat
           /\ Cardinality(Sliding!Remaining) <= Cardinality(DOMAIN members)
<1>1. ASSUME NEW i \in DOMAIN members
      PROVE  (sNow <= sExpiresAt /\ ~Sliding!Outdated(members[i])) <=> members[i] > sNow - SWindow
  BY SConstants DEF STypes, SFresh, Sliding!Outdated
<1>2. Sliding!Remaining = {i \in DOMAIN members : members[i] > sNow - SWindow}
  BY <1>1 DEF Sliding!Remaining
<1>3. IsFiniteSet(1..sSpent[sNow])
  BY FS_Interval DEF STypes
<1>4. IsFiniteSet(DOMAIN members)
  BY <1>3, FS_Subset DEF STypes
<1>5. Sliding!Remaining \in SUBSET (DOMAIN members)
  BY <1>2
<1>6. IsFiniteSet(Sliding!Remaining) /\ Cardinality(Sliding!Remaining) <= Cardinality(DOMAIN members)
  BY <1>4, <1>5, FS_Subset
<1>7. Cardinality(DOMAIN members) \in Nat /\ Cardinality(Sliding!Remaining) \in Nat
  BY <1>4, <1>6, FS_CardinalityType
<1> QED
  BY <1>2, <1>4, <1>5, <1>6, <1>7

\* A stretch inside the window has taken as many as are left of it.
LEMMA SCount ==
    ASSUME SInv, NEW a \in 0..sNow, a > sNow - SWindow
    PROVE  sSpent[sNow] - Before(sSpent, a) <= Cardinality(Sliding!Remaining)
<1> DEFINE since == (Before(sSpent, a) + 1)..sSpent[sNow]
<1>1. STypes /\ SFresh /\ SKept
  BY DEF SInv
<1>2. Before(sSpent, a) \in Nat /\ sSpent[sNow] \in Nat /\ sNow \in Nat
  BY <1>1, SConstants DEF STypes, Before
<1>3. ASSUME NEW i \in since PROVE i \in Sliding!Remaining
  <2>1. i \in 1..sSpent[sNow] /\ i > Before(sSpent, a)
    BY <1>2
  <2>2. i \in DOMAIN members /\ members[i] >= a
    BY <2>1, <1>1 DEF SKept
  <2>3. members[i] \in Int
    BY <2>2, <1>1 DEF STypes
  <2> QED
    BY <2>2, <2>3, <1>1, <1>2, SRemaining, SConstants
<1>4. since \in SUBSET Sliding!Remaining
  BY <1>3
<1>5. Cardinality(since) <= Cardinality(Sliding!Remaining)
  BY <1>4, <1>1, SRemaining, FS_Subset
<1>6. Cardinality(since) = IF Before(sSpent, a) + 1 > sSpent[sNow] THEN 0
                           ELSE sSpent[sNow] - (Before(sSpent, a) + 1) + 1
  <2>1. Before(sSpent, a) + 1 \in Int /\ sSpent[sNow] \in Int
    BY <1>2
  <2> HIDE DEF since
  <2> QED
    BY <2>1, FS_Interval DEF since
<1>7. Cardinality(Sliding!Remaining) \in Nat
  BY <1>1, SRemaining
<1> QED
  BY <1>2, <1>5, <1>6, <1>7

\* Whole milliseconds, and then whole seconds that are rounded up, lose less
\* than a millisecond.
LEMMA RoundingLoss ==
    ASSUME NEW x \in Nat, NEW milli \in Nat \ {0}, NEW second \in Nat \ {0},
           NEW ms, ms = x \div milli,
           NEW header, header = (ms + second - 1) \div second
    PROVE  header * second * milli \in Nat /\ x < header * second * milli + milli
<1>1. ms \in Nat /\ x < milli * ms + milli
  BY SMT
<1>2. header \in Nat /\ ms + second - 1 < second * header + second
  <2>1. ms + second - 1 \in Nat
    BY <1>1
  <2> QED
    BY <2>1, SMT
<1>3. second * header \in Nat /\ second * header = header * second
  BY <1>2
<1>4. ms <= header * second /\ header * second \in Nat
  BY <1>1, <1>2, <1>3
<1>5. ms * milli <= (header * second) * milli /\ (header * second) * milli \in Nat
  <2>1. \A k, m \in Nat : k <= m => k * milli <= m * milli
    BY SMT
  <2>2. \A m \in Nat : m * milli \in Nat
    OBVIOUS
  <2> QED
    BY <2>1, <2>2, <1>1, <1>4
<1>6. milli * ms = ms * milli /\ ms * milli \in Nat
  BY <1>1
<1> QED
  BY <1>1, <1>5, <1>6

\* What a client is told reaches to the time the oldest member leaves the
\* window, but for the rest of a millisecond.
LEMMA SRefusal ==
    ASSUME STypes, SFresh, ~Sliding!Room
    PROVE  /\ sNow + Sliding!Header * SSecond * SMilli \in Int
           /\ Sliding!Least(sRetryAt, sNow + Sliding!Header * SSecond * SMilli) \in Int
           /\ \E o \in Sliding!Remaining :
                 members[o] < sNow + Sliding!Header * SSecond * SMilli + SMilli - SWindow + 1
<1> DEFINE left == Sliding!Remaining
           scores == {members[i] : i \in left}
           o == Sliding!Oldest
           x == members[o] + SWindow - sNow
<1>1. /\ left = {i \in DOMAIN members : members[i] > sNow - SWindow}
      /\ Cardinality(left) \in Nat /\ Cardinality(left) >= SLimit /\ sNow \in Nat
      /\ \A i \in left : members[i] \in Nat
  BY SRemaining, SameCount, SConstants DEF Sliding!Room, STypes
<1>2. left # {}
  <2> SUFFICES ASSUME left = {} PROVE FALSE
    OBVIOUS
  <2>1. Cardinality(left) = 0
    BY FS_EmptySet
  <2> QED
    BY <2>1, <1>1, SConstants
<1>3. scores \subseteq Nat /\ scores # {}
  BY <1>1, <1>2
<1>5. PICK m \in scores : \A n \in scores : m <= n
  <2> HIDE DEF scores
  <2> QED
    BY <1>3, LeastNumber
<1>6. \E i \in left : \A j \in left : members[i] <= members[j]
  <2>1. PICK i \in left : members[i] = m
    BY <1>5
  <2> QED
    BY <2>1, <1>5
<1>7. o \in left
  BY <1>6 DEF Sliding!Oldest
<1>8. x \in Nat
  BY <1>1, <1>7, SConstants
<1>9. /\ Sliding!RetryAfterMs = x \div SMilli
      /\ Sliding!Header = (Sliding!RetryAfterMs + SSecond - 1) \div SSecond
  BY DEF Sliding!RetryAfterMs, Sliding!Header
<1>10. /\ Sliding!Header * SSecond * SMilli \in Nat
       /\ x < Sliding!Header * SSecond * SMilli + SMilli
  <2> HIDE DEF x
  <2> QED
    BY <1>8, <1>9, SConstants, RoundingLoss
<1>11. sNow + Sliding!Header * SSecond * SMilli \in Int
  BY <1>1, <1>10
<1>12. Sliding!Least(sRetryAt, sNow + Sliding!Header * SSecond * SMilli) \in Int
  BY <1>11 DEF STypes, Sliding!Least
<1>13. members[o] < sNow + Sliding!Header * SSecond * SMilli + SMilli - SWindow + 1
  BY <1>1, <1>7, <1>10, SConstants
<1> HIDE DEF o
<1> QED
  BY <1>7, <1>11, <1>12, <1>13

\* An empty sorted set satisfies the invariant.
LEMMA SInit == Sliding!Init => SInv
<1> SUFFICES ASSUME Sliding!Init PROVE SInv
  OBVIOUS
<1> USE DEF Sliding!Init
<1>1. /\ sNow = 0 /\ sExpiresAt = 0 /\ sSpent[0] = 0 /\ DOMAIN members = {}
      /\ sRetryAt \in Int
  BY SConstants DEF Sliding!Never
<1>2. STypes
  BY <1>1, SConstants DEF STypes
<1>3. Before(sSpent, 0) = 0
  BY DEF Before
<1>4. Cardinality(DOMAIN members) = 0
  BY <1>1, FS_EmptySet
<1>5. 0 <= Covering(0, SWindow, SLimit)
  BY SConstants, CoveringRange
<1>6. SPast
  BY <1>1, <1>3, <1>5 DEF SPast, SWithin
<1>7. Monotone(sSpent, sNow) /\ SFresh /\ SKept /\ SFew
  BY <1>1, <1>3, <1>4, SConstants DEF Monotone, SFresh, SKept, SFew
<1> QED
  BY <1>2, <1>6, <1>7 DEF SInv

\* An admission, in the window and in every longer stretch.
LEMMA SAdmitStep == SInv /\ Sliding!Admit => SInv' /\ SWithin(sSpent', sNow)
<1> SUFFICES ASSUME SInv, Sliding!Admit PROVE SInv' /\ SWithin(sSpent', sNow)
  OBVIOUS
<1> USE SConstants
<1> DEFINE n == sSpent[sNow] + 1
           left == Sliding!Remaining
<1>1. /\ STypes /\ SFresh /\ SKept /\ SFew /\ SPast
      /\ Cardinality(left) < SLimit /\ sNow' = sNow
      /\ members' = [i \in left \cup {n} |-> IF i = n THEN sNow ELSE members[i]]
      /\ sExpiresAt' = sNow + 2 * SWindow
      /\ sSpent' = [sSpent EXCEPT ![sNow] = @ + 1]
      /\ sRetryAt' = Sliding!Never
  BY SameCount DEF SInv, Sliding!Admit, Sliding!Room, Sliding!Member, Sliding!Expiry
<1>2. /\ sNow \in 0..SMaxTime /\ sSpent \in [0..SMaxTime -> Nat]
  BY <1>1 DEF STypes
<1>3. /\ sSpent' \in [0..SMaxTime -> Nat] /\ sSpent'[sNow] = n /\ sSpent[sNow] \in Nat
      /\ \A a \in 0..sNow : Before(sSpent', a) = Before(sSpent, a) /\ Before(sSpent, a) \in Nat
      /\ Monotone(sSpent', sNow)
  <2>1. Monotone(sSpent, sNow)
    BY DEF SInv
  <2>2. Monotone(sSpent', sNow)
    BY <2>1, <1>1, <1>2, AdmitKeepsPast
  <2>3. \A a \in 0..sNow : Before(sSpent', a) = Before(sSpent, a) /\ Before(sSpent, a) \in Nat
    BY <1>1, <1>2 DEF Before
  <2>4. sSpent' \in [0..SMaxTime -> Nat] /\ sSpent'[sNow] = n /\ sSpent[sNow] \in Nat
    BY <1>1, <1>2
  <2> QED
    BY <2>2, <2>3, <2>4
<1>4. left = {i \in DOMAIN members : members[i] > sNow - SWindow} /\ IsFiniteSet(left)
  BY <1>1, SRemaining
<1>5. /\ DOMAIN members' = left \cup {n} /\ members'[n] = sNow
      /\ \A i \in left : i # n /\ members'[i] = members[i] /\ members[i] \in 0..sNow /\ i \in 1..n
  BY <1>1, <1>2, <1>4 DEF STypes
<1>6. STypes'
  <2>1. DOMAIN members' \subseteq 1..sSpent'[sNow']
    BY <1>1, <1>3, <1>5
  <2>2. members' = [i \in DOMAIN members' |-> members'[i]]
    BY <1>1, <1>5
  <2>3. \A i \in DOMAIN members' : members'[i] \in 0..sNow'
    BY <1>1, <1>2, <1>5
  <2> QED
    <3>1. sRetryAt' \in Int /\ sExpiresAt' \in Nat /\ sNow' \in 0..SMaxTime
      BY <1>1, <1>2 DEF Sliding!Never
    <3> QED
      BY <3>1, <2>1, <2>2, <2>3, <1>3 DEF STypes
<1>7. SFresh'
  <2>1. ASSUME NEW i \in DOMAIN members' PROVE members'[i] + 2 * SWindow <= sExpiresAt'
    BY <1>1, <1>2, <1>5
  <2> QED
    BY <2>1 DEF SFresh
<1>8. SKept'
  <2>1. ASSUME NEW a \in 0..sNow, a > sNow - SWindow, NEW i \in 1..n
        PROVE  i > Before(sSpent', a) <=> i \in DOMAIN members' /\ members'[i] >= a
    <3>1. Before(sSpent', a) = Before(sSpent, a) /\ Before(sSpent, a) \in Nat
      BY <1>3
    <3>2. CASE i = n
      <4>1. Before(sSpent, a) <= sSpent[sNow]
        BY <1>2 DEF SInv, Monotone
      <4> QED
        BY <3>1, <3>2, <4>1, <1>2, <1>3, <1>5
    <3>3. CASE i # n
      <4>1. i \in 1..sSpent[sNow]
        BY <3>3, <1>3
      <4>2. i > Before(sSpent, a) <=> i \in DOMAIN members /\ members[i] >= a
        BY <4>1, <2>1, <1>1 DEF SKept
      <4>3. i \in DOMAIN members /\ members[i] >= a <=> i \in left /\ members[i] >= a
        <5>1. \A j \in DOMAIN members : members[j] \in Int
          BY <1>1 DEF STypes
        <5>2. sNow - SWindow \in Int /\ a \in Int /\ a > sNow - SWindow
          BY <2>1, <1>2
        <5> HIDE DEF left
        <5> QED
          BY ONLY <5>1, <5>2, <1>4
      <4>4. i \in DOMAIN members' <=> i \in left
        BY <3>3, <1>5
      <4> QED
        BY <4>2, <4>3, <4>4, <3>1, <1>5
    <3> QED
      BY <3>2, <3>3
  <2> QED
    BY <2>1, <1>1, <1>3 DEF SKept
<1>9. SFew'
  <2>1. Cardinality(left \cup {n}) <= Cardinality(left) + 1 /\ Cardinality(left) \in Nat
    <3>1. Cardinality(left) \in Nat
      BY <1>1, SRemaining
    <3>2. Cardinality(left \cup {n}) = IF n \in left THEN Cardinality(left) ELSE Cardinality(left) + 1
      <4> HIDE DEF n, left
      <4> QED
        BY <1>4, FS_AddElement
    <3> QED
      BY <3>1, <3>2
  <2>2. Cardinality(left \cup {n}) \in Nat
    BY <1>4, FS_AddElement, FS_CardinalityType
  <2> QED
    BY <2>1, <2>2, <1>1, <1>5 DEF SFew
<1>10. ASSUME NEW a \in 0..sNow, a > sNow - SWindow
       PROVE  n - Before(sSpent, a) <= SLimit
  <2>1. sSpent[sNow] - Before(sSpent, a) <= Cardinality(left) /\ Cardinality(left) \in Nat
    BY <1>1, <1>10, SCount, SRemaining
  <2> QED
    BY <2>1, <1>1, <1>3
<1>11. ASSUME NEW a \in 0..sNow
       PROVE  n - Before(sSpent, a) <= Covering(sNow - a, SWindow, SLimit)
  <2>1. sNow - a \in Nat
    BY <1>2
  <2>2. CASE a > sNow - SWindow
    <3>1. n - Before(sSpent, a) <= SLimit /\ n - Before(sSpent, a) \in Int
      BY <2>2, <1>3, <1>10
    <3>2. SLimit <= Covering(sNow - a, SWindow, SLimit) /\ Covering(sNow - a, SWindow, SLimit) \in Nat
      BY <2>1, CoveringRange
    <3> QED
      BY <3>1, <3>2
  <2>3. CASE a <= sNow - SWindow
    <3> DEFINE t == sNow - SWindow
    <3>1. t \in 0..sNow /\ a \in 0..t /\ t + 1 \in 0..sNow /\ t + 1 > sNow - SWindow /\ t - a \in Nat
      BY <2>3, <1>2
    <3>2. sSpent[t] - Before(sSpent, a) <= Covering(t - a, SWindow, SLimit)
      BY <3>1, <1>1 DEF SPast, SWithin
    <3>3. Before(sSpent, t + 1) = sSpent[t]
      BY <3>1 DEF Before
    <3>4. n - Before(sSpent, t + 1) <= SLimit
      BY <3>1, <1>10
    <3>5. Covering((t - a) + SWindow, SWindow, SLimit) = Covering(t - a, SWindow, SLimit) + SLimit
          /\ Covering(t - a, SWindow, SLimit) \in Nat
      BY <3>1, CoveringNextWindow, CoveringRange
    <3>6. (t - a) + SWindow = sNow - a
      BY <1>2
    <3>7. sSpent[t] \in Nat /\ n \in Nat
      BY <3>1, <1>2, <1>3
    <3> HIDE DEF t, n
    <3> QED
      BY <3>2, <3>3, <3>4, <3>5, <3>6, <3>7, <1>3
  <2> QED
    BY <2>2, <2>3, <1>2
<1>12. SWithin(sSpent', sNow)
  BY <1>3, <1>11 DEF SWithin
<1>13. SPast'
  <2>1. ASSUME NEW t \in 0..sNow PROVE SWithin(sSpent', t)
    <3>1. CASE t = sNow
      BY <3>1, <1>12
    <3>2. CASE t # sNow
      <4>1. sSpent'[t] = sSpent[t]
        BY <3>2, <1>1, <1>2
      <4>2. \A a \in 0..t : Before(sSpent', a) = Before(sSpent, a)
        BY <1>2, <1>3
      <4>3. SWithin(sSpent, t)
        BY <1>1 DEF SPast
      <4> QED
        BY <4>1, <4>2, <4>3 DEF SWithin
    <3> QED
      BY <3>1, <3>2
  <2> QED
    BY <2>1, <1>1 DEF SPast
<1> QED
  BY <1>1, <1>3, <1>6, <1>7, <1>8, <1>9, <1>12, <1>13 DEF SInv

\* Time only lets members go out of the window.
LEMMA STickStep == SInv /\ Sliding!Tick => SInv'
<1> SUFFICES ASSUME SInv, Sliding!Tick PROVE SInv'
  OBVIOUS
<1> USE SConstants
<1>1. /\ STypes /\ SFresh /\ SKept /\ SFew /\ SPast
      /\ sNow' = sNow + 1 /\ sNow \in 0..SMaxTime /\ sNow + 1 \in 0..SMaxTime
      /\ sSpent' = [sSpent EXCEPT ![sNow + 1] = sSpent[sNow]] /\ sSpent \in [0..SMaxTime -> Nat]
      /\ members' = members /\ sExpiresAt' = sExpiresAt /\ sRetryAt' = sRetryAt
  BY DEF SInv, STypes, Sliding!Tick
<1>2. /\ sSpent' \in [0..SMaxTime -> Nat] /\ sSpent'[sNow + 1] = sSpent[sNow] /\ sSpent[sNow] \in Nat
      /\ \A a \in 0..sNow : Before(sSpent', a) = Before(sSpent, a) /\ Before(sSpent, a) \in Nat
      /\ Before(sSpent', sNow + 1) = sSpent[sNow]
      /\ Monotone(sSpent', sNow + 1)
  <2>1. Monotone(sSpent, sNow)
    BY DEF SInv
  <2>2. Monotone(sSpent', sNow + 1)
    BY <2>1, <1>1, TickKeepsPast
  <2>3. \A a \in 0..sNow : Before(sSpent', a) = Before(sSpent, a) /\ Before(sSpent, a) \in Nat
    BY <1>1 DEF Before
  <2>4. sSpent' \in [0..SMaxTime -> Nat] /\ sSpent'[sNow + 1] = sSpent[sNow] /\ sSpent[sNow] \in Nat
    BY <1>1
  <2>5. Before(sSpent', sNow + 1) = sSpent[sNow]
    BY <1>1, <2>4 DEF Before
  <2> QED
    BY <2>2, <2>3, <2>4, <2>5
<1>3. STypes'
  BY <1>1, <1>2 DEF STypes
<1>4. SFresh' /\ SFew'
  BY <1>1 DEF SFresh, SFew
<1>5. SKept'
  <2>1. ASSUME NEW a \in 0..(sNow + 1), a > sNow + 1 - SWindow, NEW i \in 1..sSpent[sNow]
        PROVE  i > Before(sSpent', a) <=> i \in DOMAIN members /\ members[i] >= a
    <3>1. CASE a = sNow + 1
      <4>1. i \in DOMAIN members => members[i] \in 0..sNow
        BY <1>1 DEF STypes
      <4> QED
        BY <3>1, <4>1, <1>1, <1>2
    <3>2. CASE a \in 0..sNow
      <4>1. a > sNow - SWindow
        BY <3>2, <2>1, <1>1
      <4> QED
        BY <3>2, <4>1, <1>1, <1>2 DEF SKept
    <3> QED
      BY <3>1, <3>2, <1>1
  <2>2. sNow' = sNow + 1 /\ members' = members /\ sSpent'[sNow'] = sSpent[sNow]
    BY <1>1, <1>2
  <2>3. ASSUME NEW a \in 0..sNow', a > sNow' - SWindow, NEW i \in 1..sSpent'[sNow']
        PROVE  i > Before(sSpent', a) <=> i \in DOMAIN members' /\ members'[i] >= a
    <3>1. a \in 0..(sNow + 1) /\ a > sNow + 1 - SWindow /\ i \in 1..sSpent[sNow]
      BY <2>2, <2>3, <1>1
    <3>2. i > Before(sSpent', a) <=> i \in DOMAIN members /\ members[i] >= a
      BY <3>1, <2>1
    <3> QED
      BY <3>2, <2>2
  <2> QED
    BY <2>3 DEF SKept
<1>6. SPast'
  <2>1. ASSUME NEW t \in 0..(sNow + 1), NEW a \in 0..t
        PROVE  sSpent'[t] - Before(sSpent', a) <= Covering(t - a, SWindow, SLimit)
    <3>1. CASE t \in 0..sNow
      <4>1. sSpent'[t] = sSpent[t] /\ Before(sSpent', a) = Before(sSpent, a)
        <5>1. t \in 0..SMaxTime /\ t # sNow + 1 /\ a \in 0..sNow
          BY <3>1, <1>1
        <5> QED
          BY <5>1, <1>1, <1>2
      <4> QED
        BY <3>1, <4>1, <1>1 DEF SPast, SWithin
    <3>2. CASE t = sNow + 1 /\ a = sNow + 1
      <4>1. 0 <= Covering(0, SWindow, SLimit) /\ t - a = 0
        BY <3>2, <1>1, CoveringRange
      <4>2. sSpent'[t] = sSpent[sNow] /\ Before(sSpent', a) = sSpent[sNow]
        BY <3>2, <1>2
      <4> QED
        BY <4>1, <4>2, <1>2
    <3>3. CASE t = sNow + 1 /\ a \in 0..sNow
      <4>1. sSpent[sNow] - Before(sSpent, a) <= Covering(sNow - a, SWindow, SLimit)
        BY <3>3, <1>1 DEF SPast, SWithin
      <4>2. sNow - a \in Nat /\ t - a \in Nat /\ sNow - a <= t - a
        BY <3>3, <1>1
      <4>3. /\ Covering(sNow - a, SWindow, SLimit) <= Covering(t - a, SWindow, SLimit)
            /\ Covering(sNow - a, SWindow, SLimit) \in Nat /\ Covering(t - a, SWindow, SLimit) \in Nat
        BY <4>2, CoveringGrows, CoveringRange
      <4>4. sSpent'[t] = sSpent[sNow] /\ Before(sSpent', a) = Before(sSpent, a) /\ Before(sSpent, a) \in Nat
        BY <3>3, <1>2
      <4> QED
        BY <4>1, <4>3, <4>4, <1>2
    <3> QED
      BY <3>1, <3>2, <3>3, <1>1
  <2> QED
    BY <2>1, <1>1 DEF SPast, SWithin
<1> QED
  BY <1>1, <1>2, <1>3, <1>4, <1>5, <1>6 DEF SInv

\* Every step of the sliding window keeps the invariant.
LEMMA SStep == SInv /\ [Sliding!Next]_(Sliding!vars) => SInv'
<1> SUFFICES ASSUME SInv, [Sliding!Next]_(Sliding!vars) PROVE SInv'
  OBVIOUS
<1>1. CASE Sliding!Refuse
  <2>1. /\ STypes /\ SFresh /\ SKept /\ SFew /\ UNCHANGED <<sNow, sExpiresAt, sSpent>>
        /\ members' = [i \in Sliding!Remaining |-> members[i]]
    BY <1>1 DEF SInv, Sliding!Refuse
  <2>2. sRetryAt' \in Int
    BY <1>1, <2>1, SRefusal DEF Sliding!Refuse, SInv
  <2>3. /\ DOMAIN members' = Sliding!Remaining
        /\ \A i \in Sliding!Remaining : members'[i] = members[i]
    BY <2>1
  <2>4. /\ Sliding!Remaining = {i \in DOMAIN members : members[i] > sNow - SWindow}
        /\ Cardinality(DOMAIN members) \in Nat /\ Cardinality(Sliding!Remaining) \in Nat
        /\ Cardinality(Sliding!Remaining) <= Cardinality(DOMAIN members)
    BY <2>1, SRemaining
  <2>5. STypes'
    BY <2>1, <2>2, <2>3, <2>4 DEF STypes
  <2>6. SFresh' /\ SFew'
    BY <2>1, <2>3, <2>4, SConstants DEF SFresh, SFew
  <2>7. SKept'
    <3>1. ASSUME NEW a \in 0..sNow, a > sNow - SWindow, NEW i \in 1..sSpent[sNow]
          PROVE  i > Before(sSpent, a) <=> i \in Sliding!Remaining /\ members'[i] >= a
      <4>1. i > Before(sSpent, a) <=> i \in DOMAIN members /\ members[i] >= a
        BY <3>1, <2>1 DEF SKept
      <4>2. i \in DOMAIN members => members[i] \in Int /\ sNow \in Int
        BY <2>1, SConstants DEF STypes
      <4> QED
        BY <4>1, <4>2, <3>1, <2>3, <2>4, SConstants
    <3> QED
      BY <3>1, <2>1, <2>3 DEF SKept
  <2>8. SPast' /\ Monotone(sSpent', sNow')
    BY <2>1 DEF SInv, SPast
  <2> QED
    BY <2>5, <2>6, <2>7, <2>8 DEF SInv
<1>2. CASE UNCHANGED Sliding!vars
  BY <1>2 DEF Sliding!vars, SInv, STypes, SFresh, SKept, SFew, SPast
<1> QED
  BY <1>1, <1>2, SAdmitStep, STickStep DEF Sliding!Next

\* The script's admissions are AdmissionBound's, with the limit per window.
LEMMA SlidingImplementsBound == Sliding!Spec => Sliding!ImplementsBound
<1>1. Sliding!Init => Sliding!Bound!Init
  BY DEF Sliding!Init, Sliding!Bound!Init
<1>2. SInv /\ [Sliding!Next]_(Sliding!vars) => [Sliding!Bound!Next]_(Sliding!Bound!vars)
  <2> SUFFICES ASSUME SInv, [Sliding!Next]_(Sliding!vars)
               PROVE  [Sliding!Bound!Next]_(Sliding!Bound!vars)
    OBVIOUS
  <2>1. CASE Sliding!Admit
    <3>1. SWithin(sSpent', sNow) /\ sNow \in 0..SMaxTime
      BY <2>1, SAdmitStep DEF SInv, STypes
    <3>2. ASSUME NEW a \in 0..sNow
          PROVE  sSpent'[sNow] - Sliding!Bound!Before(sSpent', a) <= Sliding!PerWindow[sNow - a]
      <4>1. sNow - a \in 0..SMaxTime
        BY <3>1, SConstants
      <4>2. Sliding!PerWindow[sNow - a] = Covering(sNow - a, SWindow, SLimit)
        BY <4>1 DEF Sliding!PerWindow, Covering
      <4> QED
        BY <4>2, <3>1 DEF SWithin, Before, Sliding!Bound!Before
    <3>3. Sliding!Bound!Within(sSpent', sNow)
      BY <3>2 DEF Sliding!Bound!Within
    <3> QED
      BY <2>1, <3>3 DEF Sliding!Admit, Sliding!Bound!Next, Sliding!Bound!Admit
  <2>2. CASE Sliding!Tick
    BY <2>2 DEF Sliding!Tick, Sliding!Bound!Next, Sliding!Bound!Tick
  <2>3. CASE Sliding!Refuse \/ UNCHANGED Sliding!vars
    BY <2>3 DEF Sliding!Refuse, Sliding!vars, Sliding!Bound!vars
  <2> QED
    BY <2>1, <2>2, <2>3 DEF Sliding!Next
<1> QED
  BY <1>1, <1>2, SInit, SStep, PTL
     DEF Sliding!Spec, Sliding!ImplementsBound, Sliding!Bound!Spec

\* A millisecond after the time a client was told, the window has room: of the
\* members only those count that will not have left it by then.
SPromise ==
    sRetryAt # Sliding!Never =>
        Cardinality({i \in DOMAIN members : members[i] > sRetryAt + SMilli - SWindow}) < SLimit

\* A Retry-After that was given stays true: refused requests add no member.
LEMMA SPromiseStep == SInv /\ SPromise /\ [Sliding!Next]_(Sliding!vars) => SPromise'
<1> SUFFICES ASSUME SInv, SPromise, [Sliding!Next]_(Sliding!vars) PROVE SPromise'
  OBVIOUS
<1>1. CASE Sliding!Admit
  BY <1>1 DEF Sliding!Admit, SPromise, Sliding!Never
<1>2. CASE Sliding!Refuse
  <2> DEFINE left == Sliding!Remaining
             told == sNow + Sliding!Header * SSecond * SMilli
             Staying(t) == {i \in left : members[i] > t + SMilli - SWindow}
  <2>1. /\ STypes /\ SFresh /\ SFew /\ ~Sliding!Room
        /\ members' = [i \in left |-> members[i]]
        /\ sRetryAt' = Sliding!Least(sRetryAt, told)
    BY <1>2 DEF SInv, Sliding!Refuse
  <2>2. {i \in DOMAIN members' : members'[i] > sRetryAt' + SMilli - SWindow} = Staying(sRetryAt')
    BY <2>1
  <2>3. /\ IsFiniteSet(left) /\ left \subseteq DOMAIN members /\ IsFiniteSet(DOMAIN members)
        /\ Cardinality(left) \in Nat /\ Cardinality(left) <= SLimit
    BY <2>1, SRemaining, SConstants DEF SFew
  <2>4. Cardinality(Staying(told)) < SLimit
    <3>1. PICK o \in left : members[o] < told + SMilli - SWindow + 1
      BY <2>1, SRefusal
    <3>2. Staying(told) \in SUBSET (left \ {o})
      <4>1. members[o] \in Int /\ told \in Int
        BY <2>1, <2>3, SRefusal DEF STypes
      <4> QED
        BY <3>1, <4>1, SConstants
    <3>3. /\ IsFiniteSet(left \ {o}) /\ Cardinality(left \ {o}) = Cardinality(left) - 1
      BY <2>3, FS_RemoveElement
    <3>4. Cardinality(Staying(told)) <= Cardinality(left \ {o}) /\ Cardinality(Staying(told)) \in Nat
      BY <3>2, <3>3, FS_Subset, FS_CardinalityType
    <3> QED
      BY <3>3, <3>4, <2>3, SConstants
  <2>5. CASE sRetryAt' = told
    BY <2>2, <2>4, <2>5, SConstants DEF SPromise
  <2>6. CASE sRetryAt' = sRetryAt
    <3>1. SUFFICES ASSUME sRetryAt # Sliding!Never PROVE Cardinality(Staying(sRetryAt)) < SLimit
      BY <2>2, <2>6 DEF SPromise, Sliding!Never
    <3> DEFINE all == {i \in DOMAIN members : members[i] > sRetryAt + SMilli - SWindow}
    <3>2. Cardinality(all) < SLimit
      BY <3>1 DEF SPromise
    <3>3. all \in SUBSET (DOMAIN members) /\ Staying(sRetryAt) \in SUBSET all
      BY <2>3
    <3>4. IsFiniteSet(all)
      BY <2>3, <3>3, FS_Subset
    <3>5. IsFiniteSet(Staying(sRetryAt)) /\ Cardinality(Staying(sRetryAt)) <= Cardinality(all)
      BY <3>3, <3>4, FS_Subset
    <3>6. Cardinality(all) \in Nat /\ Cardinality(Staying(sRetryAt)) \in Nat
      BY <3>4, <3>5, FS_CardinalityType
    <3> QED
      BY <3>2, <3>5, <3>6, SConstants
  <2> QED
    BY <2>1, <2>5, <2>6 DEF Sliding!Least
<1>3. CASE Sliding!Tick
  BY <1>3 DEF Sliding!Tick, SPromise, Sliding!Never
<1>4. CASE UNCHANGED Sliding!vars
  BY <1>4 DEF Sliding!vars, SPromise, Sliding!Never
<1> QED
  BY <1>1, <1>2, <1>3, <1>4 DEF Sliding!Next

\* Who waits for the Retry-After of the sliding window is admitted, unless others were
\* quicker.
LEMMA SlidingRetryAfter == Sliding!Spec => []Sliding!RetryAfterSuffices
<1>1. Sliding!Init => SPromise
  BY DEF Sliding!Init, SPromise
<1>2. SInv /\ SPromise => Sliding!RetryAfterSuffices
  <2> SUFFICES ASSUME SInv, SPromise, sNow >= sRetryAt + SMilli
               PROVE  Cardinality(Sliding!Remaining) < SLimit
    BY SameCount DEF Sliding!RetryAfterSuffices, Sliding!Room
  <2> DEFINE all == {i \in DOMAIN members : members[i] > sRetryAt + SMilli - SWindow}
  <2>1. STypes /\ SFresh /\ sNow \in 0..SMaxTime /\ sRetryAt \in Int
    BY DEF SInv, STypes
  <2>2. SMilli * SSecond \in Nat
    BY SConstants
  <2>3. sRetryAt # Sliding!Never
    BY <2>1, <2>2, SConstants DEF Sliding!Never
  <2>4. Cardinality(all) < SLimit
    BY <2>3 DEF SPromise
  <2>5. IsFiniteSet(DOMAIN members) /\ Sliding!Remaining \in SUBSET all
    <3>1. \A i \in DOMAIN members : members[i] \in Int
      BY <2>1 DEF STypes
    <3> QED
      BY <3>1, <2>1, SRemaining, SConstants
  <2>6. all \in SUBSET (DOMAIN members)
    OBVIOUS
  <2>7. IsFiniteSet(all)
    BY <2>5, <2>6, FS_Subset
  <2>8. IsFiniteSet(Sliding!Remaining) /\ Cardinality(Sliding!Remaining) <= Cardinality(all)
    BY <2>5, <2>7, FS_Subset
  <2>9. Cardinality(all) \in Nat /\ Cardinality(Sliding!Remaining) \in Nat
    BY <2>7, <2>8, FS_CardinalityType
  <2> QED
    BY <2>4, <2>8, <2>9, SConstants
<1> QED
  BY <1>1, <1>2, SInit, SStep, SPromiseStep, PTL DEF Sliding!Spec

(***************************************************************************)
(* The guard.  The requests that were admitted or let pass are no more     *)
(* than the limiter has counted and, at an endpoint that fails open, the   *)
(* failing calls.                                                          *)
(***************************************************************************)
GTypes ==
    /\ failureMode \in {"open", "closed"}
    /\ gNow \in 0..GMaxTime
    /\ gSpent \in [0..GMaxTime -> Nat]
    /\ pc \in [Request -> {"asking", "admitted", "refused", "passed", "limited", "unavailable"}]
    /\ faults \in Nat

\* The requests that got through the guard.
Through == {r \in Request : pc[r] \in {"admitted", "passed"}}

\* What an endpoint that fails open lets through beyond its limiter.
GExcess == IF failureMode = "open" THEN faults ELSE 0

\* The invariant of the guard.
GInv ==
    /\ GTypes
    /\ gSpent[gNow] <= Allowed[gNow]
    /\ Cardinality(Through) <= gSpent[gNow] + GExcess
    /\ failureMode = "open" => \A r \in Request : pc[r] # "unavailable"

\* What the guard is told of its limiter: a bound that grows with the length of the stretch.
LEMMA GConstants ==
    /\ IsFiniteSet(Request) /\ GMaxTime \in Nat /\ MaxFaults \in Nat
    /\ Allowed \in [0..GMaxTime -> Nat]
    /\ \A d, e \in 0..GMaxTime : d <= e => Allowed[d] <= Allowed[e]
BY LimitAssumption, SameCount DEF Guard!GuardAssumption

\* One request moves: at most it is added to those that get through.
LEMMA GMove ==
    ASSUME GTypes, NEW r \in Request, NEW from, NEW to \in {"admitted", "refused", "passed", "limited", "unavailable"},
           Guard!Goes(r, from, to)
    PROVE  /\ pc' \in [Request -> {"asking", "admitted", "refused", "passed", "limited", "unavailable"}]
           /\ \A s \in Request : pc'[s] = pc[s] \/ (s = r /\ pc'[s] = to)
           /\ Cardinality(Through) \in Nat /\ Cardinality(Through') \in Nat
           /\ Cardinality(Through') <= Cardinality(Through) + 1
           /\ (from \in {"admitted", "passed"} \/ to \notin {"admitted", "passed"})
                 => Cardinality(Through') <= Cardinality(Through)
<1>1. /\ pc[r] = from /\ pc' = [pc EXCEPT ![r] = to]
      /\ pc \in [Request -> {"asking", "admitted", "refused", "passed", "limited", "unavailable"}]
  BY DEF Guard!Goes, GTypes
<1>2. pc' \in [Request -> {"asking", "admitted", "refused", "passed", "limited", "unavailable"}]
  BY <1>1
<1>3. \A s \in Request : pc'[s] = pc[s] \/ (s = r /\ pc'[s] = to)
  BY <1>1
<1>4. Through \in SUBSET Request /\ IsFiniteSet(Through) /\ Cardinality(Through) \in Nat
  <2>1. Through \in SUBSET Request
    BY DEF Through
  <2> QED
    BY <2>1, GConstants, FS_Subset, FS_CardinalityType
<1>5. Through' \in SUBSET (Through \cup {r})
  BY <1>3 DEF Through
<1>6. /\ IsFiniteSet(Through \cup {r})
      /\ Cardinality(Through \cup {r}) = IF r \in Through THEN Cardinality(Through) ELSE Cardinality(Through) + 1
  BY <1>4, FS_AddElement
<1>7. IsFiniteSet(Through') /\ Cardinality(Through') <= Cardinality(Through \cup {r})
  BY <1>5, <1>6, FS_Subset
<1>8. Cardinality(Through') \in Nat
  BY <1>7, FS_CardinalityType
<1>9. CASE from \in {"admitted", "passed"}
  <2>1. r \in Through
    BY <1>1, <1>9 DEF Through
  <2> QED
    BY <2>1, <1>2, <1>3, <1>4, <1>6, <1>7, <1>8
<1>10. CASE to \notin {"admitted", "passed"}
  <2>1. Through' \in SUBSET Through
    BY <1>3, <1>10 DEF Through
  <2>2. Cardinality(Through') <= Cardinality(Through)
    BY <2>1, <1>4, FS_Subset
  <2> QED
    BY <2>2, <1>2, <1>3, <1>4, <1>8
<1>11. Cardinality(Through') <= Cardinality(Through) + 1
  BY <1>4, <1>6, <1>7, <1>8
<1> QED
  BY <1>2, <1>3, <1>4, <1>8, <1>9, <1>10, <1>11

\* Before the first request nobody is through.
LEMMA GInit == Guard!Init => GInv
<1> SUFFICES ASSUME Guard!Init PROVE GInv
  OBVIOUS
<1>1. /\ failureMode \in {"open", "closed"} /\ gNow = 0
      /\ gSpent = [t \in 0..GMaxTime |-> 0] /\ pc = [r \in Request |-> "asking"] /\ faults = 0
  BY DEF Guard!Init, Guard!Limiter!Init
<1>2. GTypes /\ gSpent[gNow] = 0 /\ Allowed[gNow] \in Nat
  BY <1>1, GConstants DEF GTypes
<1>3. Through = {}
  BY <1>1 DEF Through
<1>4. Cardinality(Through) = 0
  BY <1>3, FS_EmptySet
<1> QED
  BY <1>1, <1>2, <1>4 DEF GInv, GExcess

\* Every step of the guard keeps its invariant.
LEMMA GStep == GInv /\ [Guard!Next]_(Guard!vars) => GInv'
<1> SUFFICES ASSUME GInv, [Guard!Next]_(Guard!vars) PROVE GInv'
  OBVIOUS
<1>1. /\ GTypes /\ gSpent[gNow] \in Nat /\ Allowed[gNow] \in Nat /\ faults \in Nat
      /\ GExcess \in Nat
  BY GConstants DEF GInv, GTypes, GExcess
<1>2. ASSUME NEW r \in Request, Guard!Admitted(r) PROVE GInv'
  <2>1. /\ Guard!Goes(r, "asking", "admitted") /\ UNCHANGED <<failureMode, faults, gNow>>
        /\ gSpent' = [gSpent EXCEPT ![gNow] = @ + 1] /\ Guard!Limiter!Within(gSpent', gNow)
    BY <1>2 DEF Guard!Admitted, Guard!Limiter!Admit
  <2>2. /\ pc' \in [Request -> {"asking", "admitted", "refused", "passed", "limited", "unavailable"}]
        /\ \A s \in Request : pc'[s] = pc[s] \/ (s = r /\ pc'[s] = "admitted")
        /\ Cardinality(Through) \in Nat /\ Cardinality(Through') \in Nat
        /\ Cardinality(Through') <= Cardinality(Through) + 1
    BY <2>1, <1>1, GMove
  <2>3. gSpent' \in [0..GMaxTime -> Nat] /\ gSpent'[gNow] = gSpent[gNow] + 1 /\ gNow \in 0..GMaxTime
    BY <2>1, <1>1 DEF GTypes
  <2>4. GTypes'
    BY <2>1, <2>2, <2>3, <1>1 DEF GTypes
  <2>5. gSpent'[gNow] <= Allowed[gNow]
    <3>1. gSpent'[gNow] - Guard!Limiter!Before(gSpent', 0) <= Allowed[gNow - 0]
      <4>1. 0 \in 0..gNow
        BY <2>3, GConstants
      <4> QED
        BY <4>1, <2>1 DEF Guard!Limiter!Within
    <3>2. Guard!Limiter!Before(gSpent', 0) = 0 /\ gNow - 0 = gNow
      BY <2>3 DEF Guard!Limiter!Before
    <3> QED
      BY <3>1, <3>2, <2>3, <1>1
  <2>6. Cardinality(Through') <= gSpent'[gNow'] + GExcess'
    BY <2>1, <2>2, <2>3, <1>1 DEF GInv, GExcess
  <2> QED
    BY <2>1, <2>2, <2>4, <2>5, <2>6 DEF GInv
<1>3. ASSUME NEW r \in Request, NEW from, NEW to,
             Guard!Goes(r, from, to), to \in {"refused", "passed", "limited"},
             to = "passed" => from = "admitted",
             UNCHANGED <<failureMode, gNow, gSpent, faults>>
      PROVE  GInv'
  <2>1. /\ pc' \in [Request -> {"asking", "admitted", "refused", "passed", "limited", "unavailable"}]
        /\ \A s \in Request : pc'[s] = pc[s] \/ (s = r /\ pc'[s] = to)
        /\ Cardinality(Through) \in Nat /\ Cardinality(Through') \in Nat
        /\ Cardinality(Through') <= Cardinality(Through)
    BY <1>3, <1>1, GMove
  <2>2. GTypes'
    BY <1>3, <2>1, <1>1 DEF GTypes
  <2>3. Cardinality(Through') <= gSpent'[gNow'] + GExcess'
    BY <1>3, <2>1, <1>1 DEF GInv, GExcess
  <2> QED
    BY <1>3, <2>1, <2>2, <2>3 DEF GInv
<1>4. ASSUME NEW r \in Request, Guard!RedisFails(r) PROVE GInv'
  <2>1. PICK from \in {"asking", "admitted", "refused"} : Guard!Goes(r, from, Guard!OnFailure)
    BY <1>4 DEF Guard!RedisFails
  <2>2. faults' = faults + 1 /\ UNCHANGED <<failureMode, gNow, gSpent>>
    BY <1>4 DEF Guard!RedisFails, Guard!limiterVars
  <2> DEFINE to == Guard!OnFailure
  <2>3. to = (IF failureMode = "closed" THEN "unavailable" ELSE "passed") /\ failureMode \in {"open", "closed"}
    BY <1>1 DEF Guard!OnFailure, GTypes
  <2>4. to \in {"admitted", "refused", "passed", "limited", "unavailable"}
    BY <2>3
  <2> HIDE DEF to
  <2>5. /\ pc' \in [Request -> {"asking", "admitted", "refused", "passed", "limited", "unavailable"}]
        /\ \A s \in Request : pc'[s] = pc[s] \/ (s = r /\ pc'[s] = to)
        /\ Cardinality(Through) \in Nat /\ Cardinality(Through') \in Nat
        /\ Cardinality(Through') <= Cardinality(Through) + 1
        /\ to \notin {"admitted", "passed"} => Cardinality(Through') <= Cardinality(Through)
    BY <2>1, <2>4, <1>1, GMove DEF to
  <2>6. GTypes'
    BY <2>2, <2>5, <1>1 DEF GTypes
  <2>7. Cardinality(Through') <= gSpent'[gNow'] + GExcess'
    BY <2>2, <2>3, <2>5, <1>1 DEF GInv, GExcess
  <2>8. failureMode' = "open" => \A s \in Request : pc'[s] # "unavailable"
    BY <2>2, <2>3, <2>5 DEF GInv
  <2> QED
    BY <2>2, <2>6, <2>7, <2>8 DEF GInv
<1>5. CASE Guard!Tick
  <2>1. /\ gNow' = gNow + 1 /\ gNow \in 0..GMaxTime /\ gNow + 1 \in 0..GMaxTime
        /\ gSpent' = [gSpent EXCEPT ![gNow + 1] = gSpent[gNow]] /\ gSpent \in [0..GMaxTime -> Nat]
        /\ UNCHANGED <<failureMode, pc, faults>>
    BY <1>5, <1>1, GConstants DEF Guard!Tick, Guard!Limiter!Tick, GTypes
  <2>2. gSpent' \in [0..GMaxTime -> Nat] /\ gSpent'[gNow'] = gSpent[gNow]
    BY <2>1
  <2>3. GTypes'
    BY <2>1, <2>2, <1>1 DEF GTypes
  <2>4. Allowed[gNow] <= Allowed[gNow + 1] /\ Allowed[gNow + 1] \in Nat
    BY <2>1, GConstants
  <2>5. gSpent'[gNow'] <= Allowed[gNow']
    BY <2>1, <2>2, <2>4, <1>1 DEF GInv
  <2>6. Through' = Through /\ GExcess' = GExcess
    BY <2>1 DEF Through, GExcess
  <2> QED
    BY <2>1, <2>2, <2>3, <2>5, <2>6 DEF GInv
<1>6. CASE UNCHANGED Guard!vars
  BY <1>6 DEF Guard!vars, Guard!limiterVars, GInv, GTypes, Through, GExcess
<1>7. ASSUME NEW r \in Request, Guard!Refused(r) PROVE GInv'
  BY <1>3, <1>7 DEF Guard!Refused, Guard!limiterVars
<1>8. ASSUME NEW r \in Request, Guard!Answer(r) PROVE GInv'
  BY <1>3, <1>8 DEF Guard!Answer, Guard!limiterVars
<1> QED
  BY <1>2, <1>4, <1>5, <1>6, <1>7, <1>8 DEF Guard!Next

\* A closed guard keeps the limiter's bound and an open one exceeds it by its faults at most.
LEMMA GuardKeepsItsPromises ==
    Guard!Spec => [](Guard!ClosedStaysBounded /\ Guard!OpenPaysPerFault)
<1>1. GInv => Guard!ClosedStaysBounded /\ Guard!OpenPaysPerFault
  <2> SUFFICES ASSUME GInv PROVE Guard!ClosedStaysBounded /\ Guard!OpenPaysPerFault
    OBVIOUS
  <2> DEFINE passed == Guard!Are("passed")
  <2>1. /\ GTypes /\ gSpent[gNow] \in Nat /\ Allowed[gNow] \in Nat /\ faults \in Nat
    BY GConstants DEF GInv, GTypes
  <2>2. passed \in SUBSET Through /\ Through \in SUBSET Request
    BY DEF Guard!Are, Through
  <2>3. IsFiniteSet(Through) /\ Cardinality(Through) \in Nat
    BY <2>2, GConstants, FS_Subset, FS_CardinalityType
  <2>4. Cardinality(passed) <= Cardinality(Through) /\ Cardinality(passed) \in Nat
    BY <2>2, <2>3, FS_Subset, FS_CardinalityType
  <2>5. Guard!Cardinality(passed) = Cardinality(passed)
    BY SameCount
  <2>6. failureMode = "open" => Guard!Are("unavailable") = {}
    BY DEF GInv, Guard!Are
  <2> HIDE DEF passed
  <2>7. failureMode = "closed" => Cardinality(passed) <= Allowed[gNow]
    BY <2>1, <2>3, <2>4 DEF GInv, GExcess
  <2>8. failureMode = "open" => Cardinality(passed) <= Allowed[gNow] + faults
    BY <2>1, <2>3, <2>4 DEF GInv, GExcess
  <2> QED
    BY <2>5, <2>6, <2>7, <2>8 DEF passed, Guard!ClosedStaysBounded, Guard!OpenPaysPerFault
<1> QED
  BY <1>1, GInit, GStep, PTL DEF Guard!Spec

(***************************************************************************)
(* The limiters and the guard together: each behaves as it does alone.     *)
(***************************************************************************)
LEMMA EachAlone == AllSpec => Spec /\ Fixed!Spec /\ Sliding!Spec /\ Guard!Spec
<1>1. AllInit => Init /\ Fixed!Init /\ Sliding!Init /\ Guard!Init
  BY DEF AllInit
<1>2. [AllNext]_allVars => [Next]_vars
  BY DEF AllNext, allVars
<1>3. [AllNext]_allVars => [Fixed!Next]_(Fixed!vars)
  BY DEF AllNext, allVars, fixedVars, Fixed!vars
<1>4. [AllNext]_allVars => [Sliding!Next]_(Sliding!vars)
  BY DEF AllNext, allVars, slidingVars, Sliding!vars
<1>5. [AllNext]_allVars => [Guard!Next]_(Guard!vars)
  BY DEF AllNext, allVars, guardVars, Guard!vars, Guard!limiterVars
<1> QED
  BY <1>1, <1>2, <1>3, <1>4, <1>5, PTL DEF AllSpec, Spec, Fixed!Spec, Sliding!Spec, Guard!Spec

\* For every limit and window: no stretch of time takes more than fits into the
\* fixed windows that touch it, nor more than the limit for each sliding window
\* that covers it.
THEOREM WindowsKeepTheirBounds == AllSpec => WindowsImplementBound
BY EachAlone, FixedImplementsBound, SlidingImplementsBound, PTL DEF WindowsImplementBound

\* A client that waits as a window told it is admitted unless another one was
\* quicker, for every resolution of the clock and of the header.
THEOREM WindowsRetryAfterTellsTheTruth == AllSpec => []WindowsRetryAfterSuffices
<1>1. Fixed!RetryAfterSuffices /\ Sliding!RetryAfterSuffices => WindowsRetryAfterSuffices
  BY DEF WindowsRetryAfterSuffices
<1> QED
  BY <1>1, EachAlone, FixedRetryAfter, SlidingRetryAfter, PTL

\* At an endpoint that fails closed no more requests pass than the limiter
\* admits, for any number of requests and of failing calls.
THEOREM ClosedGuardIsBounded == AllSpec => []ClosedStaysBounded
<1>1. Guard!ClosedStaysBounded => ClosedStaysBounded
  BY DEF ClosedStaysBounded
<1> QED
  BY <1>1, EachAlone, GuardKeepsItsPromises, PTL

\* At an endpoint that fails open one more request may pass for each failing
\* call, and none is turned away because of Redis.
THEOREM OpenGuardPaysPerFault == AllSpec => []OpenPaysPerFault
<1>1. Guard!OpenPaysPerFault => OpenPaysPerFault
  BY DEF OpenPaysPerFault
<1> QED
  BY <1>1, EachAlone, GuardKeepsItsPromises, PTL

\* What the guard assumes of a limiter's bound is true of the three limiters.
THEOREM LimitersSuitTheGuard ==
    /\ \A d, e \in 0..MaxTime : d <= e => BurstAndRefill[d] <= BurstAndRefill[e]
    /\ \A d, e \in 0..FMaxTime : d <= e => Fixed!PerWindow[d] <= Fixed!PerWindow[e]
    /\ \A d, e \in 0..SMaxTime : d <= e => Sliding!PerWindow[d] <= Sliding!PerWindow[e]
<1>1. ASSUME NEW d \in 0..MaxTime, NEW e \in 0..MaxTime, d <= e
      PROVE  BurstAndRefill[d] <= BurstAndRefill[e]
  BY <1>1, Constants DEF BurstAndRefill
<1>2. ASSUME NEW d \in 0..FMaxTime, NEW e \in 0..FMaxTime, d <= e
      PROVE  Fixed!PerWindow[d] <= Fixed!PerWindow[e]
  <2>1. d \in Nat /\ e \in Nat
    BY FConstants
  <2>2. /\ Covering(d, FWindow + 1, FLimit) <= Covering(e, FWindow + 1, FLimit)
        /\ Covering(d, FWindow + 1, FLimit) \in Nat /\ Covering(e, FWindow + 1, FLimit) \in Nat
    BY <2>1, <1>2, FConstants, CoveringGrows, CoveringRange
  <2>3. /\ Fixed!PerWindow[d] = Covering(d, FWindow + 1, FLimit) + FLimit
        /\ Fixed!PerWindow[e] = Covering(e, FWindow + 1, FLimit) + FLimit
    BY FPerWindow
  <2> QED
    BY <2>2, <2>3, FConstants
<1>3. ASSUME NEW d \in 0..SMaxTime, NEW e \in 0..SMaxTime, d <= e
      PROVE  Sliding!PerWindow[d] <= Sliding!PerWindow[e]
  <2>1. d \in Nat /\ e \in Nat
    BY SConstants
  <2>2. Covering(d, SWindow, SLimit) <= Covering(e, SWindow, SLimit)
    BY <2>1, <1>3, SConstants, CoveringGrows
  <2> QED
    BY <2>2 DEF Sliding!PerWindow, Covering
<1> QED
  BY <1>1, <1>2, <1>3
=============================================================================
