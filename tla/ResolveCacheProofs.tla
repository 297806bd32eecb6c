-------------------------- MODULE ResolveCacheProofs --------------------------
(***************************************************************************)
(* What holds of ResolveCache for all processes, readers, writers and      *)
(* edits.  The lock's argument has two parts: a reader that rebuilds the   *)
(* entry holds the lock unless it expired under it (LockInv), and as long  *)
(* as that never happened the entry stays missing from the double check of *)
(* its rebuilder to its fill (GapInv).                                     *)
(***************************************************************************)
EXTENDS ResolveCache, TLAPS

\* A reader's value is there when it is going to be cached.
THEOREM CacheTypes == Spec => []TypeOK
  <1> USE CacheAssumption
  <1>1. Init => TypeOK
    <2> SUFFICES ASSUME Init
                 PROVE  TypeOK
      OBVIOUS
    <2>1. row \in Value /\ written \in Nat /\ 0 \in 0..MaxFaults
      BY DEF Init, Value
    <2>2. QED
      BY <2>1 DEF Init, TypeOK, ReaderAt, WriterAt, NextPhase
  <1>2. TypeOK /\ [Next]_vars => TypeOK'
    <2> SUFFICES ASSUME TypeOK, [Next]_vars
                 PROVE  TypeOK'
      OBVIOUS
    <2> USE DEF TypeOK, ReaderAt, storeVars, cacheVars, readerVars
    <2>1. ASSUME NEW r \in Reader, ReaderStep(r)
          PROVE  TypeOK'
      <3> USE DEF At, GoTo, Return, SetLocal
      <3>1. CASE MissLocal(r) \/ DoubleCheck(r)
        BY <3>1 DEF MissLocal, DoubleCheck
      <3>2. CASE GetShared(r)
        BY <3>2 DEF GetShared
      <3>3. CASE KeepLocal(r)
        BY <3>3 DEF KeepLocal
      <3>4. CASE AcquireLock(r)
        BY <3>4 DEF AcquireLock
      <3>5. CASE Load(r)
        BY <3>5 DEF Load, Value
      <3>6. CASE Fill(r)
        BY <3>6 DEF Fill
      <3>7. CASE KeepFilled(r)
        BY <3>7 DEF KeepFilled
      <3>8. CASE Release(r)
        BY <3>8 DEF Release, Released, Fault
      <3>9. CASE PollHit(r)
        BY <3>9 DEF PollHit, Polled
      <3>10. CASE PollGivesUp(r)
        BY <3>10 DEF PollGivesUp
      <3>11. QED
        BY <2>1, <3>1, <3>2, <3>3, <3>4, <3>5, <3>6, <3>7, <3>8, <3>9, <3>10
           DEF ReaderStep
    <2>2. ASSUME NEW r \in Reader, CallFails(r)
          PROVE  TypeOK'
      BY <2>2 DEF CallFails, Fault, At, GoTo, Return
    <2>3. ASSUME NEW w \in Writer,
                 \/ Create(w) \/ Update(w) \/ BeginAccess(w) \/ BeginRemove(w)
                 \/ WriterStep(w)
          PROVE  TypeOK'
      <3> USE DEF WriterAt, NextPhase, WriterGoes, Value
      <3>1. CASE Create(w) \/ Update(w) \/ SetAccess(w)
        BY <3>1 DEF Create, Update, SetAccess, CommitVersion
      <3>2. CASE BeginAccess(w) \/ BeginRemove(w)
        BY <3>2 DEF BeginAccess, BeginRemove
      <3>3. CASE EndRemove(w)
        BY <3>3 DEF EndRemove, Fault
      <3>4. CASE InvalidateLocal(w)
        BY <3>4 DEF InvalidateLocal
      <3>5. CASE InvalidateShared(w)
        BY <3>5 DEF InvalidateShared, Fault
      <3>6. QED
        BY <2>3, <3>1, <3>2, <3>3, <3>4, <3>5 DEF WriterStep
    <2>4. ASSUME NEW p \in Process, ExpireLocal(p)
          PROVE  TypeOK'
      BY <2>4 DEF ExpireLocal
    <2>5. ASSUME NEW p \in Process, Restart(p)
          PROVE  TypeOK'
      BY <2>5 DEF Restart, Fault, WriterAt
    <2>6. CASE ExpireShared \/ ExpireLock
      BY <2>6 DEF ExpireShared, ExpireLock
    <2>7. CASE UNCHANGED vars
      BY <2>7 DEF vars
    <2>8. QED
      BY <2>1, <2>2, <2>3, <2>4, <2>5, <2>6, <2>7 DEF Next
  <1>3. QED
    BY <1>1, <1>2, PTL DEF Spec
(***************************************************************************)
(* The lock                                                                *)
(***************************************************************************)
\* A rebuilding reader holds the lock unless it is known to have lost it to
\* time, and that it was lost is remembered.
LockInv ==
    /\ \A r \in Reader : Rebuilding(r) => r \in overran \/ lock = r
    /\ overran # {} => everOverran

\* As long as no rebuild outlived its lock, the entry is missing between the
\* double check and the fill.
GapInv ==
    ~everOverran => \A r \in Reader : pc[r] \in {"load", "fill"} => l2 = Empty

\* What a step does to lock, overran and everOverran when it is not one of
\* the reader that rebuilds: it leaves them alone.
LEMMA WritersLeaveTheLock ==
    ASSUME NEW w \in Writer,
           \/ Create(w) \/ Update(w) \/ BeginAccess(w) \/ BeginRemove(w) \/ WriterStep(w)
    PROVE  UNCHANGED readerVars /\ l2' \in {l2, Empty}
  BY DEF Create, Update, BeginAccess, BeginRemove, WriterStep, SetAccess, EndRemove,
         InvalidateLocal, InvalidateShared, cacheVars

\* Every reader's steps by where they begin and end.
LEMMA ReaderSteps ==
    ASSUME TypeOK, NEW r \in Reader, ReaderStep(r) \/ CallFails(r)
    PROVE  /\ everOverran' = everOverran
           /\ \E label \in ReaderAt : pc' = [pc EXCEPT ![r] = label]
           /\ \/ /\ ~Rebuilding(r) /\ pc'[r] = "check"
                 /\ lock = NoHolder /\ lock' = r /\ overran' = overran
              \/ /\ Rebuilding(r) /\ pc'[r] \in {"check", "load", "fill", "filled", "release"}
                 /\ lock' = lock /\ overran' = overran
              \/ /\ Rebuilding(r) /\ pc'[r] = "idle"
                 /\ overran' = overran \ {r}
                 /\ lock' = lock \/ (lock = r /\ lock' = NoHolder)
              \/ /\ ~Rebuilding(r)
                 /\ pc'[r] \in {"idle", "get", "keep", "lock", "wait"}
                 /\ overran' = overran
                 /\ lock' = lock \/ lock = NoHolder
           /\ \/ l2' = l2
              \/ pc[r] = "fill" /\ pc'[r] \notin {"load", "fill"}
           /\ pc'[r] = "load" => pc[r] = "check" /\ l2 = Empty
           /\ pc'[r] = "fill" => pc[r] = "load"
  <1> USE DEF At, GoTo, Return, SetLocal, TypeOK, ReaderAt, Rebuilding, cacheVars
  <1>1. CASE MissLocal(r) \/ PollGivesUp(r)
    BY <1>1 DEF MissLocal, PollGivesUp
  <1>2. CASE GetShared(r) \/ PollHit(r)
    BY <1>2 DEF GetShared, PollHit
  <1>3. CASE KeepLocal(r) \/ KeepFilled(r)
    BY <1>3 DEF KeepLocal, KeepFilled
  <1>4. CASE AcquireLock(r)
    BY <1>4 DEF AcquireLock, LockFree
  <1>5. CASE DoubleCheck(r)
    BY <1>5 DEF DoubleCheck, Rebuilt
  <1>6. CASE Load(r) \/ Fill(r)
    BY <1>6 DEF Load, Fill
  <1>7. CASE Release(r)
    BY <1>7 DEF Release, Released
  <1>8. CASE CallFails(r)
    BY <1>8 DEF CallFails, LockFree
  <1>9. QED
    BY <1>1, <1>2, <1>3, <1>4, <1>5, <1>6, <1>7, <1>8 DEF ReaderStep

\* A reader that rebuilds holds the lock, or its lock expired and it is in overran.
LEMMA LockStep ==
    ASSUME CacheAssumption, TypeOK, LockInv, [Next]_vars
    PROVE  LockInv'
  <1> USE DEF LockInv
  <1>1. ASSUME NEW r \in Reader, ReaderStep(r) \/ CallFails(r)
        PROVE  LockInv'
    <2>1. overran' # {} => everOverran'
      BY <1>1, ReaderSteps
    <2>2. ASSUME NEW s \in Reader, Rebuilding(s)'
          PROVE  s \in overran' \/ lock' = s
      <3>1. CASE s = r
        BY <1>1, <2>2, <3>1, ReaderSteps, CacheAssumption DEF Rebuilding, TypeOK, ReaderAt
      <3>2. CASE s # r
        <4>1. Rebuilding(s)
          BY <1>1, <2>2, <3>2, ReaderSteps DEF Rebuilding, TypeOK
        <4>2. QED
          BY <1>1, <3>2, <4>1, ReaderSteps, CacheAssumption
      <3>3. QED
        BY <3>1, <3>2
    <2>3. QED
      BY <2>1, <2>2
  <1>2. ASSUME NEW w \in Writer,
               \/ Create(w) \/ Update(w) \/ BeginAccess(w) \/ BeginRemove(w)
               \/ WriterStep(w)
        PROVE  LockInv'
    BY <1>2, WritersLeaveTheLock DEF readerVars, Rebuilding
  <1>3. ASSUME NEW p \in Process, Restart(p)
        PROVE  LockInv'
    BY <1>3 DEF Restart, Rebuilding, TypeOK
  <1>4. CASE ExpireLock
    BY <1>4 DEF ExpireLock, Rebuilding, TypeOK
  <1>5. ASSUME \/ \E p \in Process : ExpireLocal(p)
               \/ ExpireShared
               \/ UNCHANGED vars
        PROVE  LockInv'
    BY <1>5 DEF ExpireLocal, ExpireShared, vars, readerVars, Rebuilding
  <1>6. QED
    BY <1>1, <1>2, <1>3, <1>4, <1>5 DEF Next

\* It does so in every reachable state.
LEMMA LockHolds == Spec => []LockInv
  <1>1. Init => LockInv
    BY DEF Init, LockInv, Rebuilding
  <1>2. QED
    BY <1>1, LockStep, CacheTypes, CacheAssumption, PTL DEF Spec

\* One reader at a time rebuilds the entry, apart from those whose lock has
\* expired under them.
THEOREM OneRebuilder == Spec => []SingleRebuilder
  <1>1. LockInv => SingleRebuilder
    BY DEF LockInv, SingleRebuilder
  <1>2. QED
    BY <1>1, LockHolds, PTL

\* Only the holder of the lock fills Redis in.
LEMMA GapStep ==
    ASSUME CacheAssumption, TypeOK, LockInv, GapInv, [Next]_vars
    PROVE  GapInv'
  <1> USE DEF GapInv
  <1>1. ASSUME NEW r \in Reader, ReaderStep(r) \/ CallFails(r), ~everOverran',
               NEW s \in Reader, pc'[s] \in {"load", "fill"}
        PROVE  l2' = Empty
    <2>1. ~everOverran
      BY <1>1, ReaderSteps
    <2>2. l2' = l2 \/ (pc[r] = "fill" /\ pc'[r] \notin {"load", "fill"})
      BY <1>1, ReaderSteps
    <2>3. CASE s = r
      BY <1>1, <2>1, <2>2, <2>3, ReaderSteps
    <2>4. CASE s # r
      <3>1. pc[s] \in {"load", "fill"}
        BY <1>1, <2>4, ReaderSteps DEF TypeOK
      \* Both would hold the lock.
      <3>2. pc[r] # "fill"
        BY <2>1, <2>4, <3>1 DEF LockInv, Rebuilding
      <3>3. QED
        BY <2>1, <2>2, <3>1, <3>2
    <2>5. QED
      BY <2>3, <2>4
  <1>2. ASSUME NEW w \in Writer,
               \/ Create(w) \/ Update(w) \/ BeginAccess(w) \/ BeginRemove(w)
               \/ WriterStep(w)
        PROVE  GapInv'
    BY <1>2, WritersLeaveTheLock DEF readerVars
  <1>3. ASSUME NEW p \in Process, Restart(p)
        PROVE  GapInv'
    BY <1>3 DEF Restart, TypeOK
  <1>4. CASE ExpireLock
    BY <1>4 DEF ExpireLock, cacheVars, TypeOK
  <1>5. ASSUME \/ \E p \in Process : ExpireLocal(p)
               \/ ExpireShared
               \/ UNCHANGED vars
        PROVE  GapInv'
    BY <1>5 DEF ExpireLocal, ExpireShared, vars, readerVars, cacheVars
  <1>6. QED
    BY <1>1, <1>2, <1>3, <1>4, <1>5 DEF Next

\* The gap stays closed in every reachable state.
LEMMA GapHolds == Spec => []GapInv
  <1>1. Init => GapInv
    BY DEF Init, GapInv
  <1>2. QED
    BY <1>1, GapStep, CacheTypes, LockHolds, CacheAssumption, PTL DEF Spec

\* Unless a rebuild has outlived its lock, an entry in Redis is only ever
\* removed, never replaced.
THEOREM NothingOverwritten == Spec => FillsOnlyEmpty
  <1>1. TypeOK /\ GapInv /\ [Next]_vars
         => [~everOverran /\ l2 # Empty => l2' \in {l2, Empty}]_vars
    <2> SUFFICES ASSUME TypeOK, GapInv, [Next]_vars, ~everOverran, l2 # Empty
                 PROVE  l2' \in {l2, Empty}
      OBVIOUS
    <2>1. ASSUME NEW r \in Reader, ReaderStep(r) \/ CallFails(r)
          PROVE  l2' = l2
      BY <2>1, ReaderSteps DEF GapInv
    <2>2. ASSUME NEW w \in Writer,
                 \/ Create(w) \/ Update(w) \/ BeginAccess(w) \/ BeginRemove(w)
                 \/ WriterStep(w)
          PROVE  l2' \in {l2, Empty}
      BY <2>2, WritersLeaveTheLock
    <2>3. ASSUME NEW p \in Process, ExpireLocal(p) \/ Restart(p)
          PROVE  l2' = l2
      BY <2>3 DEF ExpireLocal, Restart
    <2>4. CASE ExpireShared \/ ExpireLock \/ UNCHANGED vars
      BY <2>4 DEF ExpireShared, ExpireLock, vars, cacheVars
    <2>5. QED
      BY <2>1, <2>2, <2>3, <2>4 DEF Next
  <1>2. QED
    BY <1>1, CacheTypes, GapHolds, PTL DEF Spec, FillsOnlyEmpty
(***************************************************************************)
(* Where values come from                                                  *)
(***************************************************************************)
\* A layer holds v, or a call of resolve carries it.
Held(v) ==
    \/ l2 = v
    \/ \E p \in Process : l1[p] = v
    \/ \E r \in Reader : got[r] = v

\* A reader's step copies what some layer holds, or reads the row (loader).
LEMMA ReadersCopy ==
    ASSUME CacheAssumption, TypeOK, NEW v \in Value, Held(v)',
           NEW r \in Reader, ReaderStep(r) \/ CallFails(r)
    PROVE  v = row \/ Held(v)
  <1> USE DEF At, GoTo, Return, SetLocal, TypeOK, Held, cacheVars
  <1>1. ProcessOf[r] \in Process /\ v # Empty
    BY DEF CacheAssumption, Value
  <1>2. CASE MissLocal(r) \/ AcquireLock(r) \/ DoubleCheck(r)
    BY <1>2 DEF MissLocal, AcquireLock, DoubleCheck
  <1>3. CASE GetShared(r) \/ PollHit(r)
    BY <1>3 DEF GetShared, PollHit
  <1>4. CASE KeepLocal(r)
    BY <1>4, <1>1 DEF KeepLocal
  <1>5. CASE KeepFilled(r)
    BY <1>5, <1>1 DEF KeepFilled
  <1>6. CASE Load(r)
    BY <1>6 DEF Load
  <1>7. CASE Fill(r)
    BY <1>7 DEF Fill
  <1>8. CASE Release(r) \/ PollGivesUp(r)
    BY <1>8, <1>1 DEF Release, PollGivesUp
  <1>9. CASE CallFails(r)
    BY <1>9, <1>1 DEF CallFails
  <1>10. QED
    BY <1>2, <1>3, <1>4, <1>5, <1>6, <1>7, <1>8, <1>9 DEF ReaderStep

\* An edit, an expiry or a restart only takes values away.
LEMMA OthersOnlyForget ==
    ASSUME CacheAssumption, TypeOK, NEW v \in Value, Held(v)', [Next]_vars,
           ~ \E r \in Reader : ReaderStep(r) \/ CallFails(r)
    PROVE  Held(v)
  <1> USE DEF Held, TypeOK
  <1>1. v # Empty
    BY DEF CacheAssumption, Value
  <1>2. ASSUME NEW w \in Writer,
               \/ Create(w) \/ Update(w) \/ BeginAccess(w) \/ BeginRemove(w)
               \/ WriterStep(w)
        PROVE  Held(v)
    <2>1. UNCHANGED readerVars /\ l2' \in {l2, Empty}
      BY <1>2, WritersLeaveTheLock
    <2>2. \A p \in Process : l1'[p] \in {l1[p], Empty}
      BY <1>2 DEF Create, Update, BeginAccess, BeginRemove, WriterStep, SetAccess,
                  EndRemove, InvalidateLocal, InvalidateShared, cacheVars
    <2>3. QED
      BY <1>1, <2>1, <2>2 DEF readerVars
  <1>3. ASSUME NEW p \in Process, ExpireLocal(p) \/ Restart(p)
        PROVE  Held(v)
    BY <1>1, <1>3 DEF ExpireLocal, Restart, readerVars
  <1>4. CASE ExpireShared \/ ExpireLock \/ UNCHANGED vars
    BY <1>1, <1>4 DEF ExpireShared, ExpireLock, vars, readerVars, cacheVars
  <1>5. QED
    BY <1>2, <1>3, <1>4 DEF Next

\* The row stays, is deleted, or gets a version no edit wrote before it.
LEMMA VersionsAreNew ==
    ASSUME TypeOK, [Next]_vars
    PROVE  row' = row \/ row' = Null \/ row' = written + 1
  <1>1. ASSUME NEW r \in Reader, ReaderStep(r) \/ CallFails(r)
        PROVE  row' = row
    BY <1>1 DEF ReaderStep, CallFails, MissLocal, GetShared, KeepLocal, AcquireLock,
                DoubleCheck, Load, Fill, KeepFilled, Release, PollHit, PollGivesUp, storeVars
  <1>2. ASSUME NEW w \in Writer,
               \/ Create(w) \/ Update(w) \/ BeginAccess(w) \/ BeginRemove(w)
               \/ WriterStep(w)
        PROVE  row' = row \/ row' = Null \/ row' = written + 1
    BY <1>2 DEF Create, Update, CommitVersion, BeginAccess, BeginRemove, WriterStep,
                SetAccess, EndRemove, InvalidateLocal, InvalidateShared, storeVars
  <1>3. ASSUME NEW p \in Process, ExpireLocal(p) \/ Restart(p)
        PROVE  row' = row
    BY <1>3 DEF ExpireLocal, Restart, storeVars
  <1>4. CASE ExpireShared \/ ExpireLock \/ UNCHANGED vars
    BY <1>4 DEF ExpireShared, ExpireLock, vars, storeVars
  <1>5. QED
    BY <1>1, <1>2, <1>3, <1>4 DEF Next

\* An old version that is in no layer and in no call's hands never comes back,
\* whatever crashed, failed or lost its lock; and until the row is edited no
\* stale value appears that was not there already, so that the stale values
\* after an edit can only expire.  (The step EventuallyFresh rests on.)
THEOREM OldVersionsStayGone ==
    Spec => [][/\ \A v \in 1..written :
                     v # row /\ ~Held(v) => v # row' /\ ~Held(v)'
               /\ row' = row =>
                     \A v \in Value : v # row /\ ~Held(v) => ~Held(v)']_vars
  <1>1. ASSUME TypeOK, [Next]_vars, NEW v \in Value, v # row, ~Held(v)
        PROVE  ~Held(v)'
    BY <1>1, CacheAssumption, ReadersCopy, OthersOnlyForget
  <1>2. ASSUME TypeOK, [Next]_vars, NEW v \in 1..written, v # row
        PROVE  v \in Value /\ v # row'
    <2>1. written \in Nat /\ v \in Nat
      BY <1>2 DEF TypeOK
    <2>2. v # Null /\ v # written + 1
      BY <2>1, CacheAssumption DEF CacheAssumption
    <2>3. QED
      BY <1>2, <2>1, <2>2, VersionsAreNew DEF Value
  <1>3. TypeOK /\ [Next]_vars
         => [/\ \A v \in 1..written :
                   v # row /\ ~Held(v) => v # row' /\ ~Held(v)'
             /\ row' = row =>
                   \A v \in Value : v # row /\ ~Held(v) => ~Held(v)']_vars
    BY <1>1, <1>2
  <1>4. QED
    BY <1>3, CacheTypes, PTL DEF Spec
=============================================================================
