------------------------- MODULE OutboxRelayProofs -------------------------
(***************************************************************************)
(* Proofs about the outbox relay, for every number of processes, events,   *)
(* attempts and faults and every batch size.                               *)
(***************************************************************************)
EXTENDS OutboxRelay, TLAPS

\* What a lease, and what a settlement, leaves of a row.
LEMMA LeasedRow ==
    ASSUME NEW r \in Row, NEW w \in Worker
    PROVE  /\ Leased(r, w) \in Row
           /\ Leased(r, w).status = "PROCESSING"
           /\ Leased(r, w).lockedBy = w
           /\ Leased(r, w).attempts = r.attempts + 1
           /\ Leased(r, w).leaseOver = FALSE
           /\ Leased(r, w).due = r.due
  BY DEF Row, Leased

\* Giving up a row's lock sets its status and keeps its attempts.
LEMMA UnlockedRow ==
    ASSUME NEW r \in Row, NEW s \in {"PENDING", "PUBLISHED", "DEAD"}
    PROVE  /\ Unlocked(r, s) \in Row
           /\ Unlocked(r, s).status = s
           /\ Unlocked(r, s).lockedBy = NoWorker
           /\ Unlocked(r, s).attempts = r.attempts
           /\ Unlocked(r, s).leaseOver = FALSE
           /\ Unlocked(r, s).due = r.due
  BY DEF Row, Unlocked

\* A failed attempt ends in DEAD past the limit and in PENDING before it (markFailed).
LEMMA FailedRow ==
    ASSUME TypeOK, NEW c \in Claim
    PROVE  /\ Failed(c) \in Row
           /\ Failed(c).status = IF c.attempts > MaxAttempts THEN "DEAD" ELSE "PENDING"
           /\ Failed(c).lockedBy = NoWorker
           /\ Failed(c).attempts = row[c.id].attempts
  <1> DEFINE s == IF c.attempts > MaxAttempts THEN "DEAD" ELSE "PENDING"
             r == Unlocked(row[c.id], s)
  <1>1. row[c.id] \in Row
    BY DEF TypeOK, Claim
  <1>2. s \in {"PENDING", "PUBLISHED", "DEAD"}
    OBVIOUS
  <1>3. /\ r \in Row
        /\ r.status = s
        /\ r.lockedBy = NoWorker
        /\ r.attempts = row[c.id].attempts
    BY <1>1, <1>2, UnlockedRow
  <1>4. Failed(c) = [r EXCEPT !.due = FALSE]
    BY DEF Failed
  <1> HIDE DEF r
  <1>5. QED
    BY <1>3, <1>4 DEF Row

\* A published row is unlocked and keeps its attempts (markPublished).
LEMMA PublishedRow ==
    ASSUME TypeOK, NEW c \in Claim
    PROVE  /\ Published(c) \in Row
           /\ Published(c).status = "PUBLISHED"
           /\ Published(c).lockedBy = NoWorker
           /\ Published(c).attempts = row[c.id].attempts
  BY UnlockedRow DEF TypeOK, Claim, Published

\* One column is updated: the row keeps its type and its other columns.
LEMMA RowFieldTypes ==
    ASSUME NEW r \in Row, NEW s \in {"PENDING"}
    PROVE  /\ [r EXCEPT !.status = s] \in Row
           /\ [r EXCEPT !.due = TRUE] \in Row
           /\ [r EXCEPT !.leaseOver = TRUE] \in Row
  BY DEF Row

\* publishOne only ever settles a claim of the process's own batch.
LEMMA CurIsClaim ==
    ASSUME TypeOK, NEW w \in Worker, stage[w] \in {"sent", "mark", "fail"}
    PROVE  cur[w] \in Claim /\ cur[w] \in batch[w]
  BY DEF TypeOK

\* A picked set is a set of rows that may be claimed.
LEMMA PickedRows ==
    ASSUME NEW w \in Worker, NEW picked \in Picked(w)
    PROVE  /\ picked \in SUBSET Event
           /\ \A e \in picked : Claimable(row[e])
  BY DEF Picked, Oldest

\* The claim's UPDATE leaves a table of rows.
LEMMA LeasedRows ==
    ASSUME TypeOK, NEW w \in Worker, NEW picked \in Picked(w), LeaseRows(w, picked)
    PROVE  row' \in [Event -> Row]
  BY PickedRows, LeasedRow DEF TypeOK, LeaseRows

\* So does the UPDATE that settles one row.
LEMMA SettledRows ==
    ASSUME TypeOK, NEW w \in Worker, NEW c \in Claim, NEW r \in Row, Settle(w, c, r)
    PROVE  row' \in [Event -> Row]
  BY DEF TypeOK, Settle, Claim

\* The types hold when nothing has been recorded.
LEMMA InitType == OutboxAssumption /\ Init => TypeOK
  BY DEF OutboxAssumption, Init, TypeOK, Row, Claim, NoClaim

\* Every step keeps the types, and publishOne inside the batch.
LEMMA NextType == OutboxAssumption /\ TypeOK /\ [Next]_vars => TypeOK'
  <1> SUFFICES ASSUME OutboxAssumption, TypeOK, [Next]_vars
               PROVE  TypeOK'
    OBVIOUS
  <1> USE DEF OutboxAssumption
  <1>1. ASSUME NEW e \in Event, Record(e) \/ BackoffElapses(e)
        PROVE  TypeOK'
    <2>1. row' \in [Event -> Row]
      <3>1. CASE Record(e)
        <4>1. row' = [row EXCEPT ![e] = [row[e] EXCEPT !.status = "PENDING"]]
          BY <3>1 DEF Record
        <4>2. QED
          BY <4>1, RowFieldTypes DEF TypeOK
      <3>2. CASE BackoffElapses(e)
        <4>1. row' = [row EXCEPT ![e] = [row[e] EXCEPT !.due = TRUE]]
          BY <3>2 DEF BackoffElapses
        <4>2. QED
          BY <4>1, RowFieldTypes DEF TypeOK
      <3>3. QED
        BY <1>1, <3>1, <3>2
    <2>2. QED
      BY <1>1, <2>1 DEF TypeOK, Record, BackoffElapses
  <1>2. ASSUME NEW e \in Event, OrphanLeaseExpires(e) \/ HolderTooSlow(e)
        PROVE  TypeOK'
    <2>1. row' \in [Event -> Row]
      <3>1. row' = [row EXCEPT ![e] = [row[e] EXCEPT !.leaseOver = TRUE]]
        BY <1>2 DEF OrphanLeaseExpires, HolderTooSlow, ExpireLease
      <3>2. QED
        BY <3>1, RowFieldTypes DEF TypeOK
    <2>2. QED
      BY <1>2, <2>1 DEF TypeOK, OrphanLeaseExpires, HolderTooSlow, ExpireLease, Fault
  <1>3. ASSUME NEW w \in Worker, Start(w) \/ Stop(w) \/ Exit(w) \/ Crash(w)
        PROVE  TypeOK'
    BY <1>3 DEF TypeOK, Start, Stop, Exit, Crash, Fault
  <1>4. ASSUME NEW w \in Worker, ClaimBatch(w)
        PROVE  TypeOK'
    <2>1. PICK picked \in Picked(w) :
             /\ LeaseRows(w, picked)
             /\ batch' = [batch EXCEPT ![w] = Returned(picked)]
      BY <1>4 DEF ClaimBatch
    <2>2. row' \in [Event -> Row]
      BY <2>1, LeasedRows
    <2>3. Returned(picked) \in SUBSET Claim
      BY PickedRows DEF Returned, Claim, TypeOK, Row
    <2>4. QED
      BY <1>4, <2>1, <2>2, <2>3 DEF TypeOK, ClaimBatch
  <1>5. ASSUME NEW w \in Worker, ClaimReplyLost(w)
        PROVE  TypeOK'
    BY <1>5, LeasedRows DEF TypeOK, ClaimReplyLost, Fault
  <1>6. ASSUME NEW w \in Worker, Send(w) \/ SendFails(w)
        PROVE  TypeOK'
    BY <1>6 DEF TypeOK, Send, SendFails, Begin
  <1>7. ASSUME NEW w \in Worker, Confirmed(w) \/ PublishTimesOut(w)
        PROVE  TypeOK'
    BY <1>7 DEF TypeOK, Confirmed, PublishTimesOut
  <1>8. ASSUME NEW w \in Worker, MarkPublished(w)
        PROVE  TypeOK'
    <2>1. cur[w] \in Claim
      BY <1>8, CurIsClaim DEF MarkPublished
    <2>2. row' \in [Event -> Row]
      BY <1>8, <2>1, PublishedRow, SettledRows DEF MarkPublished
    <2>3. QED
      BY <1>8, <2>2 DEF TypeOK, MarkPublished, NextInBatch
  <1>9. ASSUME NEW w \in Worker, MarkThrows(w)
        PROVE  TypeOK'
    <2>1. cur[w] \in Claim
      BY <1>9, CurIsClaim DEF MarkThrows
    <2>2. row' \in [Event -> Row]
      BY <1>9, <2>1, PublishedRow, SettledRows DEF MarkThrows, TypeOK
    <2>3. QED
      BY <1>9, <2>2 DEF TypeOK, MarkThrows, Fault
  <1>10. ASSUME NEW w \in Worker, HandleFailure(w)
         PROVE  TypeOK'
    <2>1. cur[w] \in Claim
      BY <1>10, CurIsClaim DEF HandleFailure
    <2>2. row' \in [Event -> Row]
      BY <1>10, <2>1, FailedRow, SettledRows DEF HandleFailure
    <2>3. QED
      BY <1>10, <2>2 DEF TypeOK, HandleFailure, NextInBatch
  <1>11. ASSUME NEW w \in Worker, HandleFailureThrows(w)
         PROVE  TypeOK'
    <2>1. cur[w] \in Claim
      BY <1>11, CurIsClaim DEF HandleFailureThrows
    <2>2. row' \in [Event -> Row]
      BY <1>11, <2>1, FailedRow, SettledRows DEF HandleFailureThrows, TypeOK
    <2>3. QED
      BY <1>11, <2>2 DEF TypeOK, HandleFailureThrows, Fault
  <1>12. ASSUME NEW c \in inflight, BrokerAccepts(c) \/ MessageLost(c)
         PROVE  TypeOK'
    BY <1>12 DEF TypeOK, BrokerAccepts, MessageLost
  <1>13. CASE UNCHANGED vars
    BY <1>13 DEF TypeOK, vars
  <1>14. QED
    BY <1>1, <1>2, <1>3, <1>4, <1>5, <1>6, <1>7, <1>8, <1>9, <1>10, <1>11,
       <1>12, <1>13 DEF Next, WorkerStep, WorkerFault

\* The type invariant holds for every value of the constants.
THEOREM TypeCorrect == Spec => []TypeOK
  BY OutboxAssumption, InitType, NextType, PTL DEF Spec
(***************************************************************************)
(* What a step does to one row and to one batch.  Every later proof is by  *)
(* cases on these two lemmas instead of on the actions.                    *)
(***************************************************************************)
Untouched(e) == row'[e] = row[e]

Inserted(e) == /\ row[e].status = "NONE"
               /\ row'[e] = [row[e] EXCEPT !.status = "PENDING"]

CameDue(e) == /\ row[e].status = "PENDING"
              /\ row'[e] = [row[e] EXCEPT !.due = TRUE]

LeaseRanOut(e) == /\ row[e].status = "PROCESSING"
                  /\ ~row[e].leaseOver
                  /\ row'[e] = [row[e] EXCEPT !.leaseOver = TRUE]
                  /\ UNCHANGED batch
                  /\ Held(e) => faults' = faults + 1

LeasedBy(e, w) == /\ Claimable(row[e])
                  /\ batch[w] = {}
                  /\ row'[e] = Leased(row[e], w)

PublishedBy(e, w) == /\ stage[w] = "mark"
                     /\ cur[w].id = e
                     /\ HoldsRow(w, cur[w])
                     /\ row'[e] = Published(cur[w])

FailedBy(e, w) == /\ stage[w] = "fail"
                  /\ cur[w].id = e
                  /\ HoldsRow(w, cur[w])
                  /\ row'[e] = Failed(cur[w])

RowStep(e) ==
    \/ Untouched(e) \/ Inserted(e) \/ CameDue(e) \/ LeaseRanOut(e)
    \/ \E w \in Worker : LeasedBy(e, w) \/ PublishedBy(e, w) \/ FailedBy(e, w)

\* A settlement touches at most the row of the claim it settles.
LEMMA SettleRow ==
    ASSUME TypeOK, NEW w \in Worker, NEW c \in Claim, NEW r, NEW e \in Event,
           Settle(w, c, r)
    PROVE  \/ Untouched(e)
           \/ c.id = e /\ HoldsRow(w, c) /\ row'[e] = r
  BY DEF TypeOK, Settle, Untouched, Claim

\* Every step changes a row in one of seven ways.
LEMMA RowSteps ==
    ASSUME TypeOK, [Next]_vars, NEW e \in Event
    PROVE  RowStep(e)
  <1>1. ASSUME NEW f \in Event, Record(f) \/ BackoffElapses(f)
        PROVE  RowStep(e)
    <2>1. CASE Record(f)
      <3>1. row' = [row EXCEPT ![f] = [row[f] EXCEPT !.status = "PENDING"]]
        BY <2>1 DEF Record
      <3>2. QED
        BY <2>1, <3>1 DEF TypeOK, Record, RowStep, Untouched, Inserted
    <2>2. CASE BackoffElapses(f)
      <3>1. row' = [row EXCEPT ![f] = [row[f] EXCEPT !.due = TRUE]]
        BY <2>2 DEF BackoffElapses
      <3>2. QED
        BY <2>2, <3>1 DEF TypeOK, BackoffElapses, RowStep, Untouched, CameDue
    <2>3. QED
      BY <1>1, <2>1, <2>2
  <1>2. ASSUME NEW f \in Event, OrphanLeaseExpires(f) \/ HolderTooSlow(f)
        PROVE  RowStep(e)
    <2>1. /\ row' = [row EXCEPT ![f] = [row[f] EXCEPT !.leaseOver = TRUE]]
          /\ row[f].status = "PROCESSING"
          /\ ~row[f].leaseOver
          /\ UNCHANGED batch
      BY <1>2 DEF OrphanLeaseExpires, HolderTooSlow, ExpireLease
    <2>2. Held(f) => faults' = faults + 1
      BY <1>2 DEF OrphanLeaseExpires, HolderTooSlow, Fault
    <2>3. CASE e = f
      BY <2>1, <2>2, <2>3 DEF TypeOK, RowStep, LeaseRanOut
    <2>4. CASE e # f
      BY <2>1, <2>4 DEF TypeOK, RowStep, Untouched
    <2>5. QED
      BY <2>3, <2>4
  <1>3. ASSUME NEW w \in Worker, ClaimBatch(w) \/ ClaimReplyLost(w)
        PROVE  RowStep(e)
    <2>1. PICK picked \in Picked(w) : LeaseRows(w, picked)
      BY <1>3 DEF ClaimBatch, ClaimReplyLost
    <2>2. batch[w] = {}
      BY <1>3 DEF ClaimBatch, ClaimReplyLost
    <2>3. CASE e \in picked
      BY <2>1, <2>2, <2>3, PickedRows DEF LeaseRows, RowStep, LeasedBy
    <2>4. CASE e \notin picked
      BY <2>1, <2>4 DEF LeaseRows, RowStep, Untouched
    <2>5. QED
      BY <2>3, <2>4
  <1>4. ASSUME NEW w \in Worker, MarkPublished(w) \/ MarkThrows(w)
        PROVE  RowStep(e)
    <2>1. stage[w] = "mark" /\ cur[w] \in Claim
      BY <1>4, CurIsClaim DEF MarkPublished, MarkThrows
    <2>2. Settle(w, cur[w], Published(cur[w])) \/ row' = row
      BY <1>4 DEF MarkPublished, MarkThrows
    <2>3. QED
      BY <2>1, <2>2, SettleRow DEF RowStep, Untouched, PublishedBy
  <1>5. ASSUME NEW w \in Worker, HandleFailure(w) \/ HandleFailureThrows(w)
        PROVE  RowStep(e)
    <2>1. stage[w] = "fail" /\ cur[w] \in Claim
      BY <1>5, CurIsClaim DEF HandleFailure, HandleFailureThrows
    <2>2. Settle(w, cur[w], Failed(cur[w])) \/ row' = row
      BY <1>5 DEF HandleFailure, HandleFailureThrows
    <2>3. QED
      BY <2>1, <2>2, SettleRow DEF RowStep, Untouched, FailedBy
  <1>6. CASE UNCHANGED row
    BY <1>6 DEF RowStep, Untouched
  <1>7. ASSUME NEW w \in Worker,
               \/ Start(w) \/ Stop(w) \/ Exit(w) \/ Crash(w) \/ Send(w)
               \/ SendFails(w) \/ Confirmed(w) \/ PublishTimesOut(w)
        PROVE  UNCHANGED row
    BY <1>7 DEF Start, Stop, Exit, Crash, Send, SendFails, Confirmed, PublishTimesOut
  <1>8. ASSUME NEW c \in inflight, BrokerAccepts(c) \/ MessageLost(c)
        PROVE  UNCHANGED row
    BY <1>8 DEF BrokerAccepts, MessageLost
  <1>9. QED
    BY <1>1, <1>2, <1>3, <1>4, <1>5, <1>6, <1>7, <1>8
       DEF Next, WorkerStep, WorkerFault, vars

\* A claim in a batch was there before, or is the lease the row got just now.
LEMMA BatchSteps ==
    ASSUME TypeOK, [Next]_vars, NEW w \in Worker, NEW c \in batch'[w]
    PROVE  \/ c \in batch[w]
           \/ /\ c.id \in Event
              /\ row'[c.id] = Leased(row[c.id], w)
              /\ c.attempts = row[c.id].attempts + 1
  <1> DEFINE Goal == \/ c \in batch[w]
                     \/ /\ c.id \in Event
                        /\ row'[c.id] = Leased(row[c.id], w)
                        /\ c.attempts = row[c.id].attempts + 1
  <1>1. ASSUME NEW v \in Worker, ClaimBatch(v)
        PROVE  Goal
    <2>1. PICK picked \in Picked(v) :
             /\ LeaseRows(v, picked)
             /\ batch' = [batch EXCEPT ![v] = Returned(picked)]
      BY <1>1 DEF ClaimBatch
    <2>2. CASE v = w /\ c \notin batch[w]
      <3>1. PICK e \in picked : c = [id |-> e, attempts |-> row[e].attempts + 1]
        BY <2>1, <2>2 DEF Returned, TypeOK
      <3>2. QED
        BY <2>1, <2>2, <3>1, PickedRows DEF LeaseRows
    <2>3. CASE v # w
      BY <2>1, <2>3 DEF TypeOK
    <2>4. QED
      BY <2>2, <2>3
  <1>2. ASSUME NEW v \in Worker,
               Crash(v) \/ MarkPublished(v) \/ HandleFailure(v) \/ HandleFailureThrows(v)
        PROVE  Goal
    BY <1>2 DEF Crash, MarkPublished, HandleFailure, HandleFailureThrows, NextInBatch, TypeOK
  <1>3. CASE UNCHANGED batch
    BY <1>3
  <1>4. ASSUME NEW e \in Event, \/ Record(e) \/ BackoffElapses(e)
                                \/ OrphanLeaseExpires(e) \/ HolderTooSlow(e)
        PROVE  UNCHANGED batch
    BY <1>4 DEF Record, BackoffElapses, OrphanLeaseExpires, HolderTooSlow, ExpireLease
  <1>5. ASSUME NEW v \in Worker,
               \/ Start(v) \/ Stop(v) \/ Exit(v) \/ ClaimReplyLost(v) \/ Send(v)
               \/ SendFails(v) \/ Confirmed(v) \/ PublishTimesOut(v) \/ MarkThrows(v)
        PROVE  UNCHANGED batch
    BY <1>5 DEF Start, Stop, Exit, ClaimReplyLost, Send, SendFails, Confirmed,
                PublishTimesOut, MarkThrows
  <1>6. ASSUME NEW m \in inflight, BrokerAccepts(m) \/ MessageLost(m)
        PROVE  UNCHANGED batch
    BY <1>6 DEF BrokerAccepts, MessageLost
  <1>7. QED
    BY <1>1, <1>2, <1>3, <1>4, <1>5, <1>6 DEF Next, WorkerStep, WorkerFault, vars
(***************************************************************************)
(* Locks, fencing and publication                                          *)
(***************************************************************************)
LEMMA LocksStep ==
    ASSUME OutboxAssumption, TypeOK, LockMatchesStatus, [Next]_vars
    PROVE  LockMatchesStatus'
  <1> SUFFICES ASSUME NEW e \in Event
               PROVE  /\ (row'[e].status = "PROCESSING") <=> (row'[e].lockedBy \in Worker)
                      /\ row'[e].status = "PROCESSING" => row'[e].due
    BY DEF LockMatchesStatus
  <1> DEFINE Goal == /\ (row'[e].status = "PROCESSING") <=> (row'[e].lockedBy \in Worker)
                     /\ row'[e].status = "PROCESSING" => row'[e].due
  <1>1. /\ row[e] \in Row
        /\ (row[e].status = "PROCESSING") <=> (row[e].lockedBy \in Worker)
        /\ row[e].status = "PROCESSING" => row[e].due
    BY DEF TypeOK, LockMatchesStatus
  <1>2. CASE Untouched(e) \/ Inserted(e) \/ CameDue(e) \/ LeaseRanOut(e)
    BY <1>1, <1>2 DEF Untouched, Inserted, CameDue, LeaseRanOut, Row
  <1>3. ASSUME NEW w \in Worker, LeasedBy(e, w)
        PROVE  Goal
    <2>1. /\ row'[e].status = "PROCESSING"
          /\ row'[e].lockedBy = w
      BY <1>3 DEF LeasedBy, Leased
    <2>2. row'[e].due
      BY <1>3 DEF LeasedBy, Claimable, Leased
    <2>3. QED
      BY <2>1, <2>2
  <1>4. ASSUME NEW w \in Worker, PublishedBy(e, w)
        PROVE  Goal
    BY <1>4, CurIsClaim, PublishedRow DEF PublishedBy, OutboxAssumption
  <1>5. ASSUME NEW w \in Worker, FailedBy(e, w)
        PROVE  Goal
    BY <1>5, CurIsClaim, FailedRow DEF FailedBy, OutboxAssumption
  <1>6. QED
    BY <1>2, <1>3, <1>4, <1>5, RowSteps DEF RowStep

\* The lock columns agree with the status in every reachable state.
THEOREM LocksMatch == Spec => []LockMatchesStatus
  <1>1. Init => LockMatchesStatus
    BY OutboxAssumption DEF Init, LockMatchesStatus, OutboxAssumption
  <1>2. TypeOK /\ LockMatchesStatus /\ [Next]_vars => LockMatchesStatus'
    BY OutboxAssumption, LocksStep
  <1>3. QED
    BY <1>1, <1>2, TypeCorrect, PTL DEF Spec

\* A lease that is taken over names another process or counts one attempt more, so that a
\* claim of an earlier lease is never named by its row again.
LEMMA FencingStep ==
    ASSUME OutboxAssumption, TypeOK, TypeOK', FencedClaims, [Next]_vars
    PROVE  FencedClaims'
  <1> SUFFICES ASSUME NEW w \in Worker, NEW c \in batch'[w]
               PROVE  /\ c.attempts \in 1..row'[c.id].attempts
                      /\ row'[c.id].lockedBy = w => c.attempts = row'[c.id].attempts
    BY DEF FencedClaims
  <1> DEFINE Goal == /\ c.attempts \in 1..row'[c.id].attempts
                     /\ row'[c.id].lockedBy = w => c.attempts = row'[c.id].attempts
  <1>1. c \in Claim /\ c.id \in Event /\ c.attempts \in Nat
    BY DEF TypeOK, Claim
  <1>2. row[c.id] \in Row /\ row[c.id].attempts \in Nat
    BY <1>1 DEF TypeOK, Row
  <1>3. CASE /\ row'[c.id] = Leased(row[c.id], w)
             /\ c.attempts = row[c.id].attempts + 1
    <2>1. Leased(row[c.id], w).attempts = row[c.id].attempts + 1
      BY <1>2, LeasedRow
    <2>2. c.attempts \in 1..row'[c.id].attempts /\ c.attempts = row'[c.id].attempts
      BY <1>2, <1>3, <2>1
    <2>3. QED
      BY <2>2
  <1>4. CASE c \in batch[w]
    <2>1. /\ c.attempts \in 1..row[c.id].attempts
          /\ row[c.id].lockedBy = w => c.attempts = row[c.id].attempts
      BY <1>4 DEF FencedClaims
    <2>2. CASE \/ Untouched(c.id) \/ Inserted(c.id) \/ CameDue(c.id) \/ LeaseRanOut(c.id)
      <3>1. row'[c.id].attempts = row[c.id].attempts
            /\ row'[c.id].lockedBy = row[c.id].lockedBy
        BY <1>2, <2>2 DEF Untouched, Inserted, CameDue, LeaseRanOut, Row
      <3>2. QED
        BY <2>1, <3>1
    <2>3. ASSUME NEW v \in Worker, LeasedBy(c.id, v)
          PROVE  Goal
      <3>1. /\ Leased(row[c.id], v).attempts = row[c.id].attempts + 1
            /\ Leased(row[c.id], v).lockedBy = v
            /\ row'[c.id] = Leased(row[c.id], v)
        BY <1>2, <2>3, LeasedRow DEF LeasedBy
      <3>2. v # w
        BY <1>4, <2>3 DEF LeasedBy
      <3>3. QED
        BY <1>2, <2>1, <3>1, <3>2
    <2>4. ASSUME NEW v \in Worker, PublishedBy(c.id, v)
          PROVE  Goal
      BY <2>1, <2>4, CurIsClaim, PublishedRow DEF PublishedBy, OutboxAssumption
    <2>5. ASSUME NEW v \in Worker, FailedBy(c.id, v)
          PROVE  Goal
      BY <2>1, <2>5, CurIsClaim, FailedRow DEF FailedBy, OutboxAssumption
    <2>6. QED
      BY <1>1, <2>2, <2>3, <2>4, <2>5, RowSteps DEF RowStep
  <1>5. QED
    BY <1>3, <1>4, BatchSteps

\* lockedBy fences stale leases: a process never mistakes an older lease of
\* its own, or another's, for the row's latest one.
THEOREM Fencing == Spec => []FencedClaims
  <1>1. Init => FencedClaims
    BY DEF Init, FencedClaims
  <1>2. TypeOK /\ TypeOK' /\ FencedClaims /\ [Next]_vars => FencedClaims'
    BY OutboxAssumption, FencingStep
  <1>3. QED
    BY <1>1, <1>2, TypeCorrect, PTL DEF Spec

\* A process that has settled a row, or is about to, works on its latest lease.
LEMMA CurIsLatest ==
    ASSUME TypeOK, FencedClaims, NEW w \in Worker, stage[w] \in {"mark", "fail"},
           HoldsRow(w, cur[w])
    PROVE  /\ cur[w].attempts = row[cur[w].id].attempts
           /\ cur[w] = [id |-> cur[w].id, attempts |-> row[cur[w].id].attempts]
  <1>1. cur[w] \in Claim /\ cur[w] \in batch[w]
    BY CurIsClaim
  <1>2. cur[w].attempts = row[cur[w].id].attempts
    BY <1>1 DEF FencedClaims, HoldsRow
  <1>3. QED
    BY <1>1, <1>2 DEF Claim

\* A process updates a row to PUBLISHED only when the broker confirmed its message.
MarkHasConfirm == \A w \in Worker : stage[w] = "mark" => cur[w] \in queue

PublicationInv == MarkHasConfirm /\ PublishedByLastAttempt

\* The broker forgets no message it has.
LEMMA QueueGrows ==
    ASSUME [Next]_vars
    PROVE  queue \subseteq queue'
  BY DEF Next, WorkerStep, WorkerFault, vars, Record, BackoffElapses,
         OrphanLeaseExpires, HolderTooSlow, ExpireLease, Start, Stop, Exit, Crash,
         ClaimBatch, ClaimReplyLost, Send, SendFails, Confirmed, PublishTimesOut,
         MarkPublished, MarkThrows, HandleFailure, HandleFailureThrows,
         BrokerAccepts, MessageLost

\* A claim comes to be marked by the broker's confirm only, and its message is then queued.
LEMMA ConfirmStep ==
    ASSUME TypeOK, MarkHasConfirm, [Next]_vars
    PROVE  MarkHasConfirm'
  <1> SUFFICES ASSUME NEW w \in Worker, stage'[w] = "mark"
               PROVE  cur'[w] \in queue'
    BY DEF MarkHasConfirm
  <1>1. \/ stage[w] = "mark" /\ cur'[w] = cur[w]
        \/ cur[w] \in queue /\ cur'[w] = cur[w]
    <2>1. ASSUME NEW e \in Event, \/ Record(e) \/ BackoffElapses(e)
                                  \/ OrphanLeaseExpires(e) \/ HolderTooSlow(e)
          PROVE  UNCHANGED <<stage, cur>>
      BY <2>1 DEF Record, BackoffElapses, OrphanLeaseExpires, HolderTooSlow, ExpireLease
    <2>2. ASSUME NEW v \in Worker, \/ Start(v) \/ Stop(v) \/ Exit(v)
                                   \/ ClaimBatch(v) \/ ClaimReplyLost(v)
          PROVE  UNCHANGED <<stage, cur>>
      BY <2>2 DEF Start, Stop, Exit, ClaimBatch, ClaimReplyLost
    <2>3. ASSUME NEW v \in Worker, Crash(v) \/ MarkPublished(v) \/ MarkThrows(v)
                                   \/ HandleFailure(v) \/ HandleFailureThrows(v)
          PROVE  v # w /\ stage'[w] = stage[w] /\ cur'[w] = cur[w]
      BY <2>3 DEF Crash, MarkPublished, MarkThrows, HandleFailure,
                  HandleFailureThrows, NextInBatch, TypeOK
    <2>4. ASSUME NEW v \in Worker, Send(v) \/ SendFails(v) \/ PublishTimesOut(v)
          PROVE  v # w /\ stage'[w] = stage[w] /\ cur'[w] = cur[w]
      BY <2>4 DEF Send, SendFails, PublishTimesOut, Begin, TypeOK
    <2>5. ASSUME NEW v \in Worker, Confirmed(v)
          PROVE  /\ cur' = cur
                 /\ v # w => stage'[w] = stage[w]
                 /\ cur[v] \in queue
      BY <2>5 DEF Confirmed, TypeOK
    <2>6. ASSUME NEW c \in inflight, BrokerAccepts(c) \/ MessageLost(c)
          PROVE  UNCHANGED <<stage, cur>>
      BY <2>6 DEF BrokerAccepts, MessageLost
    <2>7. CASE UNCHANGED vars
      BY <2>7 DEF vars
    <2>8. QED
      BY <2>1, <2>2, <2>3, <2>4, <2>5, <2>6, <2>7 DEF Next, WorkerStep, WorkerFault
  <1>2. QED
    BY <1>1, QueueGrows DEF MarkHasConfirm

\* A row becomes PUBLISHED by its process's markPublished only, whose claim is confirmed.
LEMMA PublishedStep ==
    ASSUME TypeOK, FencedClaims, PublicationInv, [Next]_vars
    PROVE  PublishedByLastAttempt'
  <1> SUFFICES ASSUME NEW e \in Event, row'[e].status = "PUBLISHED"
               PROVE  [id |-> e, attempts |-> row'[e].attempts] \in queue'
    BY DEF PublishedByLastAttempt
  <1>1. row[e] \in Row
    BY DEF TypeOK
  <1>2. CASE \/ Untouched(e) \/ Inserted(e) \/ CameDue(e) \/ LeaseRanOut(e)
    <2>1. row[e].status = "PUBLISHED" /\ row'[e].attempts = row[e].attempts
      BY <1>1, <1>2 DEF Untouched, Inserted, CameDue, LeaseRanOut, Row
    <2>2. QED
      BY <2>1, QueueGrows DEF PublicationInv, PublishedByLastAttempt
  <1>3. ASSUME NEW w \in Worker, LeasedBy(e, w)
        PROVE  FALSE
    BY <1>1, <1>3, LeasedRow DEF LeasedBy
  <1>4. ASSUME NEW w \in Worker, FailedBy(e, w)
        PROVE  FALSE
    BY <1>4, CurIsClaim, FailedRow DEF FailedBy
  <1>5. ASSUME NEW w \in Worker, PublishedBy(e, w)
        PROVE  [id |-> e, attempts |-> row'[e].attempts] \in queue'
    <2>1. row'[e].attempts = row[e].attempts
      BY <1>5, CurIsClaim, PublishedRow DEF PublishedBy
    <2>2. cur[w] = [id |-> e, attempts |-> row[e].attempts]
      BY <1>5, CurIsLatest DEF PublishedBy
    <2>3. cur[w] \in queue'
      BY <1>5, QueueGrows DEF PublishedBy, PublicationInv, MarkHasConfirm
    <2>4. QED
      BY <2>1, <2>2, <2>3
  <1>6. QED
    BY <1>2, <1>3, <1>4, <1>5, RowSteps DEF RowStep

\* Both hold in every reachable state.
LEMMA PublicationHolds == Spec => []PublicationInv
  <1>1. Init => PublicationInv
    BY DEF Init, PublicationInv, MarkHasConfirm, PublishedByLastAttempt
  <1>2. TypeOK /\ FencedClaims /\ PublicationInv /\ [Next]_vars => PublicationInv'
    BY ConfirmStep, PublishedStep DEF PublicationInv
  <1>3. QED
    BY <1>1, <1>2, TypeCorrect, Fencing, PTL DEF Spec

\* A PUBLISHED row's last attempt reached the broker.
THEOREM PublishedIsDelivered == Spec => []PublishedByLastAttempt
  <1>1. PublicationInv => PublishedByLastAttempt
    BY DEF PublicationInv
  <1>2. QED
    BY <1>1, PublicationHolds, PTL
(***************************************************************************)
(* The price of an attempt                                                 *)
(***************************************************************************)
\* AttemptsAccounted made inductive: a leased row may spend one more attempt
\* only while a process works on it within its lease.
Budget(e) ==
    /\ row[e].status = "NONE" => row[e].attempts = 0
    /\ row[e].status = "PENDING" => row[e].attempts <= MaxAttempts
    /\ row[e].status = "PROCESSING" =>
          /\ row[e].attempts <= MaxAttempts + 1 + faults
          /\ row[e].leaseOver \/ ~Held(e) => row[e].attempts <= MaxAttempts + faults
    /\ row[e].status = "PUBLISHED" => row[e].attempts <= MaxAttempts + 1 + faults
    /\ row[e].status = "DEAD" => /\ row[e].attempts > MaxAttempts
                                 /\ row[e].attempts <= MaxAttempts + 1 + faults

BudgetInv == \A e \in Event : Budget(e)

\* Faults are never taken back.
LEMMA FaultsGrow ==
    ASSUME TypeOK, [Next]_vars
    PROVE  faults' = faults \/ faults' = faults + 1
  BY DEF Next, WorkerStep, WorkerFault, vars, Record, BackoffElapses,
         OrphanLeaseExpires, HolderTooSlow, ExpireLease, Start, Stop, Exit, Crash,
         ClaimBatch, ClaimReplyLost, Send, SendFails, Confirmed, PublishTimesOut,
         MarkPublished, MarkThrows, HandleFailure, HandleFailureThrows,
         BrokerAccepts, MessageLost, Fault

\* A row that is leased out, or stays leased out, is worked on after the step
\* unless the step is a fault.
LEMMA HeldSteps ==
    ASSUME TypeOK, TypeOK', LockMatchesStatus, [Next]_vars, NEW e \in Event,
           row'[e].status = "PROCESSING",
           Held(e) \/ row'[e].attempts # row[e].attempts
    PROVE  Held(e)' \/ faults' = faults + 1
  <1>1. CASE Held(e) /\ row'[e].lockedBy = row[e].lockedBy /\ UNCHANGED batch
    BY <1>1 DEF Held
  <1> DEFINE Goal == Held(e)' \/ faults' = faults + 1
  <1>2. ASSUME NEW v \in Worker, ClaimBatch(v)
        PROVE  Goal
    <2>1. PICK picked \in Picked(v) :
             /\ LeaseRows(v, picked)
             /\ batch' = [batch EXCEPT ![v] = Returned(picked)]
      BY <1>2 DEF ClaimBatch
    <2>2. CASE e \in picked
      <3>1. [id |-> e, attempts |-> row[e].attempts + 1] \in batch'[v]
        BY <2>1, <2>2 DEF TypeOK, Returned
      <3>2. row'[e].lockedBy = v
        BY <2>1, <2>2 DEF LeaseRows, Leased
      <3>3. QED
        BY <3>1, <3>2 DEF Held
    <2>3. CASE e \notin picked
      <3>1. row'[e] = row[e]
        BY <2>1, <2>3 DEF LeaseRows
      <3>2. PICK w \in Worker : \E c \in batch[w] : c.id = e /\ row[e].lockedBy = w
        BY <3>1 DEF Held
      <3>3. w # v
        BY <1>2, <3>2 DEF ClaimBatch
      <3>4. batch'[w] = batch[w]
        BY <2>1, <3>3 DEF TypeOK
      <3>5. QED
        BY <3>1, <3>2, <3>4 DEF Held
    <2>4. QED
      BY <2>2, <2>3
  <1>3. ASSUME NEW v \in Worker,
               Settle(v, cur[v], Published(cur[v])) \/ Settle(v, cur[v], Failed(cur[v])),
               stage[v] \in {"mark", "fail"}, NextInBatch(v)
        PROVE  Goal
    <2>1. cur[v] \in Claim /\ cur[v] \in batch[v]
      BY <1>3, CurIsClaim
    <2>2. Published(cur[v]).status # "PROCESSING" /\ Failed(cur[v]).status # "PROCESSING"
      BY <2>1, PublishedRow, FailedRow
    <2>3. row'[e] = row[e]
      BY <1>3, <2>1, <2>2 DEF Settle, TypeOK, Claim
    <2>4. cur[v].id = e => row[e].lockedBy # v
      BY <1>3, <2>1, <2>2, <2>3 DEF Settle, HoldsRow, TypeOK, Claim
    <2>5. PICK w \in Worker : \E c \in batch[w] : c.id = e /\ row[e].lockedBy = w
      BY <2>3 DEF Held
    <2>6. PICK c \in batch[w] : c.id = e /\ row[e].lockedBy = w
      BY <2>5
    <2>7. c \in batch'[w]
      BY <1>3, <2>4, <2>6 DEF NextInBatch, TypeOK
    <2>8. QED
      BY <2>3, <2>6, <2>7 DEF Held
  <1>4. ASSUME NEW v \in Worker, MarkPublished(v)
        PROVE  Goal
    BY <1>3, <1>4 DEF MarkPublished
  <1>5. ASSUME NEW v \in Worker, HandleFailure(v)
        PROVE  Goal
    BY <1>3, <1>5 DEF HandleFailure
  <1>6. ASSUME NEW v \in Worker, WorkerFault(v)
        PROVE  Goal
    BY <1>6 DEF WorkerFault, Stop, Crash, ClaimReplyLost, MarkThrows,
                HandleFailureThrows, Fault
  <1>7. ASSUME NEW f \in Event, Record(f) \/ BackoffElapses(f) \/ OrphanLeaseExpires(f)
        PROVE  Goal
    <2>1. UNCHANGED batch
      BY <1>7 DEF Record, BackoffElapses, OrphanLeaseExpires, ExpireLease
    <2>2. row'[e].lockedBy = row[e].lockedBy /\ row'[e].attempts = row[e].attempts
      <3>1. \/ row' = [row EXCEPT ![f] = [row[f] EXCEPT !.status = "PENDING"]]
            \/ row' = [row EXCEPT ![f] = [row[f] EXCEPT !.due = TRUE]]
            \/ row' = [row EXCEPT ![f] = [row[f] EXCEPT !.leaseOver = TRUE]]
        BY <1>7 DEF Record, BackoffElapses, OrphanLeaseExpires, ExpireLease
      <3>2. QED
        BY <3>1 DEF TypeOK, Row
    <2>3. QED
      BY <1>1, <2>1, <2>2
  <1>8. ASSUME NEW f \in Event, HolderTooSlow(f)
        PROVE  Goal
    BY <1>8 DEF HolderTooSlow, Fault
  <1>9. ASSUME NEW v \in Worker, \/ Start(v) \/ Exit(v) \/ Send(v) \/ SendFails(v)
                                 \/ Confirmed(v) \/ PublishTimesOut(v)
        PROVE  Goal
    <2>1. UNCHANGED <<batch, row>>
      BY <1>9 DEF Start, Exit, Send, SendFails, Confirmed, PublishTimesOut
    <2>2. QED
      BY <1>1, <2>1
  <1>10. ASSUME NEW m \in inflight, BrokerAccepts(m) \/ MessageLost(m)
         PROVE  Goal
    <2>1. UNCHANGED <<batch, row>>
      BY <1>10 DEF BrokerAccepts, MessageLost
    <2>2. QED
      BY <1>1, <2>1
  <1>11. CASE UNCHANGED vars
    BY <1>1, <1>11 DEF vars
  <1>12. QED
    BY <1>2, <1>4, <1>5, <1>6, <1>7, <1>8, <1>9, <1>10, <1>11 DEF Next, WorkerStep

\* An attempt more is begun by a new lease only, and a lease that ends without settling its
\* row was overrun or has cost a fault.
LEMMA BudgetStep ==
    ASSUME OutboxAssumption, TypeOK, TypeOK', LockMatchesStatus, FencedClaims,
           [Next]_vars, NEW e \in Event, Budget(e)
    PROVE  Budget(e)'
  <1> DEFINE old == row[e].attempts
             new == row'[e].attempts
  <1>1. /\ old \in Nat /\ new \in Nat /\ faults \in Nat /\ faults' \in Nat
        /\ MaxAttempts \in Nat
        /\ row[e] \in Row /\ row'[e] \in Row
    BY DEF TypeOK, Row, OutboxAssumption
  <1>2. faults' = faults \/ faults' = faults + 1
    BY FaultsGrow
  <1>3. CASE Untouched(e) \/ CameDue(e)
    <2>1. /\ new = old
          /\ row'[e].status = row[e].status
          /\ row'[e].leaseOver = row[e].leaseOver
      BY <1>1, <1>3 DEF Untouched, CameDue, Row
    <2>2. row'[e].status = "PROCESSING" /\ Held(e) => Held(e)' \/ faults' = faults + 1
      BY HeldSteps
    <2>3. QED
      BY <1>1, <1>2, <2>1, <2>2 DEF Budget
  <1>4. CASE Inserted(e)
    <2>1. new = old /\ row[e].status = "NONE" /\ row'[e].status = "PENDING"
      BY <1>1, <1>4 DEF Inserted, Row
    <2>2. QED
      BY <1>1, <2>1 DEF Budget
  <1>5. CASE LeaseRanOut(e)
    <2>1. /\ new = old
          /\ row[e].status = "PROCESSING"
          /\ row'[e].status = "PROCESSING"
          /\ Held(e) => faults' = faults + 1
      BY <1>1, <1>5 DEF LeaseRanOut, Row
    <2>2. QED
      BY <1>1, <1>2, <2>1 DEF Budget
  <1>6. ASSUME NEW w \in Worker, LeasedBy(e, w)
        PROVE  Budget(e)'
    <2>1. /\ new = old + 1
          /\ row'[e].status = "PROCESSING"
          /\ row'[e].leaseOver = FALSE
      BY <1>6 DEF LeasedBy, Leased
    <2>2. Held(e)' \/ faults' = faults + 1
      BY <1>1, <2>1, HeldSteps
    <2>3. old <= MaxAttempts + faults
      BY <1>1, <1>6 DEF LeasedBy, Claimable, Budget
    <2>4. /\ new <= MaxAttempts + 1 + faults'
          /\ ~Held(e)' => new <= MaxAttempts + faults'
      BY <1>1, <1>2, <2>1, <2>2, <2>3
    <2>5. QED
      BY <2>1, <2>4 DEF Budget
  <1>7. ASSUME NEW w \in Worker, PublishedBy(e, w)
        PROVE  Budget(e)'
    <2>1. /\ new = old
          /\ row[e].status = "PROCESSING"
          /\ row'[e].status = "PUBLISHED"
      BY <1>7, CurIsClaim, PublishedRow DEF PublishedBy, HoldsRow
    <2>2. QED
      BY <1>1, <1>2, <2>1 DEF Budget
  <1>8. ASSUME NEW w \in Worker, FailedBy(e, w)
        PROVE  Budget(e)'
    <2>1. /\ new = old
          /\ row[e].status = "PROCESSING"
          /\ row'[e].status = IF cur[w].attempts > MaxAttempts THEN "DEAD" ELSE "PENDING"
      BY <1>8, CurIsClaim, FailedRow DEF FailedBy, HoldsRow
    <2>2. cur[w].attempts = old
      BY <1>8, CurIsLatest DEF FailedBy
    <2>3. QED
      BY <1>1, <1>2, <2>1, <2>2 DEF Budget
  <1>9. QED
    BY <1>3, <1>4, <1>5, <1>6, <1>7, <1>8, RowSteps DEF RowStep

\* Every event's attempts are accounted for in every reachable state.
LEMMA BudgetHolds == Spec => []BudgetInv
  <1>1. Init => BudgetInv
    BY OutboxAssumption DEF Init, BudgetInv, Budget, OutboxAssumption
  <1>2. /\ TypeOK /\ TypeOK' /\ LockMatchesStatus /\ FencedClaims
        /\ BudgetInv /\ [Next]_vars
        => BudgetInv'
    BY OutboxAssumption, BudgetStep DEF BudgetInv
  <1>3. QED
    BY <1>1, <1>2, TypeCorrect, LocksMatch, Fencing, PTL DEF Spec

\* Attempts beyond the limit are paid for by faults, one each.
THEOREM AttemptsBounded == Spec => []AttemptsAccounted
  <1>1. TypeOK /\ BudgetInv => AttemptsAccounted
    <2> SUFFICES ASSUME TypeOK, BudgetInv, NEW e \in Event
                 PROVE  /\ row[e].attempts <= MaxAttempts + 1 + faults
                        /\ row[e].status = "PENDING" => row[e].attempts <= MaxAttempts
                        /\ row[e].status = "DEAD" => row[e].attempts > MaxAttempts
      BY DEF AttemptsAccounted
    <2>1. /\ row[e].attempts \in Nat /\ faults \in Nat /\ MaxAttempts \in Nat
          /\ row[e].status \in {"NONE", "PENDING", "PROCESSING", "PUBLISHED", "DEAD"}
      BY OutboxAssumption DEF TypeOK, Row, OutboxAssumption
    <2>2. QED
      BY <2>1 DEF BudgetInv, Budget
  <1>2. QED
    BY <1>1, TypeCorrect, BudgetHolds, PTL
(***************************************************************************)
(* What no step may do                                                     *)
(***************************************************************************)
LEMMA FinalStep ==
    ASSUME TypeOK, [Next]_vars, NEW e \in Event,
           row[e].status \in {"PUBLISHED", "DEAD"}
    PROVE  row'[e] = row[e]
  BY RowSteps DEF RowStep, Untouched, Inserted, CameDue, LeaseRanOut, LeasedBy,
                  Claimable, PublishedBy, FailedBy, HoldsRow

\* A settled row never changes again.
THEOREM SettledStays == Spec => SettledIsFinal
  <1>1. TypeOK /\ [Next]_vars =>
            [\A e \in Event : row[e].status \in {"PUBLISHED", "DEAD"}
                                 => row'[e] = row[e]]_vars
    BY FinalStep
  <1>2. QED
    BY <1>1, TypeCorrect, PTL DEF Spec, SettledIsFinal

\* What ends a lease is its end in time or its own process, with the claim of that lease.
LEMMA LeaseStep ==
    ASSUME TypeOK, FencedClaims, [Next]_vars, NEW e \in Event,
           row[e].status = "PROCESSING",
           row'[e].status # "PROCESSING" \/ row'[e].attempts # row[e].attempts
    PROVE  \/ row[e].leaseOver /\ row'[e].status = "PROCESSING"
           \/ \E w \in Worker :
                 /\ row[e].lockedBy = w
                 /\ cur[w] = [id |-> e, attempts |-> row[e].attempts]
  <1>1. row[e] \in Row
    BY DEF TypeOK
  <1>2. ~(Untouched(e) \/ Inserted(e) \/ CameDue(e) \/ LeaseRanOut(e))
    BY <1>1 DEF Untouched, Inserted, CameDue, LeaseRanOut, Row
  <1>3. ASSUME NEW w \in Worker, LeasedBy(e, w)
        PROVE  row[e].leaseOver /\ row'[e].status = "PROCESSING"
    BY <1>3 DEF LeasedBy, Claimable, Leased
  <1>4. ASSUME NEW w \in Worker, PublishedBy(e, w) \/ FailedBy(e, w)
        PROVE  /\ row[e].lockedBy = w
               /\ cur[w] = [id |-> e, attempts |-> row[e].attempts]
    BY <1>4, CurIsLatest DEF PublishedBy, FailedBy, HoldsRow
  <1>5. QED
    BY <1>2, <1>3, <1>4, RowSteps DEF RowStep

\* A row is settled by the process that holds its latest lease, and taken
\* over only after that lease is over.
THEOREM LeaseSafety == Spec => LeaseRespected
  <1>1. TypeOK /\ FencedClaims /\ [Next]_vars =>
          [\A e \in Event :
             row[e].status = "PROCESSING"
                /\ (\/ row'[e].status # "PROCESSING"
                    \/ row'[e].attempts # row[e].attempts)
             => \/ row[e].leaseOver /\ row'[e].status = "PROCESSING"
                \/ \E w \in Worker :
                      /\ row[e].lockedBy = w
                      /\ cur[w] = [id |-> e, attempts |-> row[e].attempts]]_vars
    BY LeaseStep
  <1>2. QED
    BY <1>1, TypeCorrect, Fencing, PTL DEF Spec, LeaseRespected
(***************************************************************************)
(* Progress                                                                *)
(***************************************************************************)
\* Where a row stands within one attempt, the later the smaller.
Position(r) ==
    CASE r.status = "PROCESSING" -> IF r.leaseOver THEN 2 ELSE 3
      [] r.status = "PENDING"    -> IF r.due THEN 0 ELSE 1
      [] OTHER                   -> 2

\* No event is attempted more often: the attempts configured, the last one
\* that gives up, and one for each fault.
MostAttempts == MaxAttempts + 1 + MaxFaults

\* A bound on how often a row will still change.
ChangesLeft(r) ==
    IF r.status \in {"PUBLISHED", "DEAD"} THEN 0
    ELSE 4 * (MostAttempts - r.attempts) + Position(r)

\* Without its attempts a row changes in the order of Position; a lease, which
\* begins at 3, pays with an attempt.
LEMMA ProgressStep ==
    ASSUME OutboxAssumption, TypeOK, AttemptsAccounted, TypeOK', AttemptsAccounted',
           [Next]_vars, NEW e \in Event, row'[e] # row[e]
    PROVE  ChangesLeft(row'[e]) \in Nat /\ ChangesLeft(row'[e]) < ChangesLeft(row[e])
  <1> DEFINE a == row[e].attempts
             b == row'[e].attempts
  <1>1. row[e] \in Row /\ row'[e] \in Row
    BY DEF TypeOK
  <1>2. /\ MostAttempts \in Nat /\ a \in Nat /\ b \in Nat
        /\ MostAttempts - a \in Nat /\ MostAttempts - b \in Nat
    <2>1. /\ a <= MaxAttempts + 1 + faults /\ b <= MaxAttempts + 1 + faults'
          /\ faults \in 0..MaxFaults /\ faults' \in 0..MaxFaults
      BY DEF AttemptsAccounted, TypeOK
    <2>2. MaxAttempts \in Nat /\ MaxFaults \in Nat /\ a \in Nat /\ b \in Nat
      BY <1>1 DEF OutboxAssumption, Row
    <2>3. QED
      BY <2>1, <2>2 DEF MostAttempts
  <1> HIDE DEF a, b
  <1>3. /\ ChangesLeft(row[e]) = IF row[e].status \in {"PUBLISHED", "DEAD"} THEN 0
                                 ELSE 4 * (MostAttempts - a) + Position(row[e])
        /\ ChangesLeft(row'[e]) = IF row'[e].status \in {"PUBLISHED", "DEAD"} THEN 0
                                  ELSE 4 * (MostAttempts - b) + Position(row'[e])
    <2>1. \A r : ChangesLeft(r) = IF r.status \in {"PUBLISHED", "DEAD"} THEN 0
                                  ELSE 4 * (MostAttempts - r.attempts) + Position(r)
      BY ONLY DEF ChangesLeft
    <2>2. a = row[e].attempts /\ b = row'[e].attempts
      BY ONLY DEF a, b
    <2>3. QED
      BY ONLY <2>1, <2>2
  <1>4. Position(row[e]) \in 0..3 /\ Position(row'[e]) \in 0..3
    BY DEF Position
  <1>5. CASE Inserted(e)
    <2>1. b = a /\ row[e].status = "NONE" /\ row'[e].status = "PENDING"
      BY <1>1, <1>5 DEF Inserted, Row, a, b
    <2>2. Position(row[e]) = 2 /\ Position(row'[e]) \in 0..1
      BY <2>1 DEF Position
    <2>3. QED
      BY <1>2, <1>3, <2>1, <2>2
  <1>6. CASE CameDue(e)
    <2>1. b = a /\ row[e].status = "PENDING" /\ row'[e].status = "PENDING"
      BY <1>1, <1>6 DEF CameDue, Row, a, b
    <2>2. row[e].due = FALSE /\ row'[e].due = TRUE
      BY <1>1, <1>6 DEF CameDue, Row
    <2>3. Position(row[e]) = 1 /\ Position(row'[e]) = 0
      BY <2>1, <2>2 DEF Position
    <2>4. QED
      BY <1>2, <1>3, <2>1, <2>3
  <1>7. CASE LeaseRanOut(e)
    <2>1. b = a /\ row[e].status = "PROCESSING" /\ row'[e].status = "PROCESSING"
      BY <1>1, <1>7 DEF LeaseRanOut, Row, a, b
    <2>2. ~row[e].leaseOver /\ row'[e].leaseOver
      BY <1>1, <1>7 DEF LeaseRanOut, Row
    <2>3. Position(row[e]) = 3 /\ Position(row'[e]) = 2
      BY <2>1, <2>2 DEF Position
    <2>4. QED
      BY <1>2, <1>3, <2>1, <2>3
  <1>8. ASSUME NEW w \in Worker, LeasedBy(e, w)
        PROVE  ChangesLeft(row'[e]) \in Nat /\ ChangesLeft(row'[e]) < ChangesLeft(row[e])
    <2>1. b = a + 1 /\ row'[e].status = "PROCESSING" /\ ~row'[e].leaseOver
      <3>1. row'[e] = Leased(row[e], w)
        BY <1>8 DEF LeasedBy
      <3>2. /\ Leased(row[e], w).status = "PROCESSING"
            /\ Leased(row[e], w).attempts = row[e].attempts + 1
            /\ Leased(row[e], w).leaseOver = FALSE
        BY ONLY <1>1, LeasedRow
      <3>3. QED
        BY ONLY <3>1, <3>2 DEF a, b
    <2>2. row[e].status \notin {"PUBLISHED", "DEAD"}
      BY <1>8 DEF LeasedBy, Claimable
    <2>3. Position(row'[e]) = 3
      BY <2>1 DEF Position
    <2>4. 4 * (MostAttempts - a) = 4 * (MostAttempts - b) + 4
      BY <1>2, <2>1
    <2>5. QED
      BY <1>2, <1>3, <1>4, <2>1, <2>2, <2>3, <2>4
  <1>9. ASSUME NEW w \in Worker, PublishedBy(e, w) \/ FailedBy(e, w)
        PROVE  ChangesLeft(row'[e]) \in Nat /\ ChangesLeft(row'[e]) < ChangesLeft(row[e])
    <2>1. cur[w] \in Claim /\ cur[w].id = e
      BY <1>9, CurIsClaim DEF PublishedBy, FailedBy
    <2>2. row[e].status = "PROCESSING"
      BY <1>9 DEF PublishedBy, FailedBy, HoldsRow
    <2>3. b = a /\ row'[e].status \in {"PUBLISHED", "DEAD", "PENDING"}
      BY <1>9, <2>1, PublishedRow, FailedRow DEF PublishedBy, FailedBy, a, b
    <2>4. Position(row[e]) \in 2..3
      BY <2>2 DEF Position
    <2>5. row'[e].status = "PENDING" => Position(row'[e]) \in 0..1
      BY DEF Position
    <2>6. QED
      BY <1>2, <1>3, <2>2, <2>3, <2>4, <2>5
  <1>10. QED
    BY <1>5, <1>6, <1>7, <1>8, <1>9, RowSteps DEF RowStep, Untouched

\* Every change of a row brings its event nearer to its end: whatever processes
\* crash, restart, time out or take over, a row changes at most
\* 4 * (MaxAttempts + 1 + MaxFaults) + 2 times and then is PUBLISHED, DEAD or
\* still waiting for a process.  (The variant EveryEventSettles rests on.)
THEOREM EventsDrawNearTheirEnd ==
    Spec => [][\A e \in Event : row'[e] # row[e] =>
                  /\ ChangesLeft(row'[e]) \in Nat
                  /\ ChangesLeft(row'[e]) < ChangesLeft(row[e])]_vars
  <1>1. TypeOK /\ AttemptsAccounted /\ TypeOK' /\ AttemptsAccounted' /\ [Next]_vars =>
            [\A e \in Event : row'[e] # row[e] =>
                /\ ChangesLeft(row'[e]) \in Nat
                /\ ChangesLeft(row'[e]) < ChangesLeft(row[e])]_vars
    BY OutboxAssumption, ProgressStep
  <1>2. QED
    BY <1>1, TypeCorrect, AttemptsBounded, PTL DEF Spec
(***************************************************************************)
(* The relay implements OutboxDelivery                                     *)
(***************************************************************************)
\* Only recorded events are ever sent.
SentAreRecorded == \A c \in inflight \cup queue : row[c.id].status # "NONE"

\* A recorded event is never forgotten.
LEMMA StaysRecorded ==
    ASSUME TypeOK, [Next]_vars, NEW e \in Event, row[e].status # "NONE"
    PROVE  row'[e].status # "NONE"
  <1>1. row[e] \in Row
    BY DEF TypeOK
  <1>2. CASE Untouched(e) \/ Inserted(e) \/ CameDue(e) \/ LeaseRanOut(e)
    BY <1>1, <1>2 DEF Untouched, Inserted, CameDue, LeaseRanOut, Row
  <1>3. ASSUME NEW w \in Worker, LeasedBy(e, w) \/ PublishedBy(e, w) \/ FailedBy(e, w)
        PROVE  row'[e].status # "NONE"
    BY <1>3, CurIsClaim, PublishedRow, FailedRow
       DEF LeasedBy, Leased, PublishedBy, FailedBy
  <1>4. QED
    BY <1>2, <1>3, RowSteps DEF RowStep

\* Only a claimed event is sent, and a claim is of a recorded event.
LEMMA SentStep ==
    ASSUME TypeOK, FencedClaims, BudgetInv, SentAreRecorded, [Next]_vars
    PROVE  SentAreRecorded'
  <1> SUFFICES ASSUME NEW c \in inflight' \cup queue'
               PROVE  row'[c.id].status # "NONE"
    BY DEF SentAreRecorded
  <1>1. c \in inflight \cup queue \/ \E w \in Worker : Send(w) /\ c \in batch[w]
    <2>1. ASSUME NEW w \in Worker, Send(w)
          PROVE  c \in inflight \cup queue \/ c \in batch[w]
      BY <2>1 DEF Send, Begin
    <2>2. ASSUME NEW m \in inflight, BrokerAccepts(m) \/ MessageLost(m)
          PROVE  c \in inflight \cup queue
      BY <2>2 DEF BrokerAccepts, MessageLost
    <2>3. CASE UNCHANGED <<inflight, queue>>
      BY <2>3
    <2>4. QED
      BY <2>1, <2>2, <2>3
         DEF Next, WorkerStep, WorkerFault, vars, Record, BackoffElapses,
             OrphanLeaseExpires, HolderTooSlow, ExpireLease, Start, Stop, Exit, Crash,
             ClaimBatch, ClaimReplyLost, SendFails, Confirmed, PublishTimesOut,
             MarkPublished, MarkThrows, HandleFailure, HandleFailureThrows
  <1>2. c.id \in Event
    BY <1>1 DEF TypeOK, Claim
  <1>3. CASE c \in inflight \cup queue
    BY <1>2, <1>3, StaysRecorded DEF SentAreRecorded
  <1>4. ASSUME NEW w \in Worker, c \in batch[w]
        PROVE  row[c.id].status # "NONE"
    <2>1. row[c.id].attempts \in Nat /\ c.attempts \in 1..row[c.id].attempts
      BY <1>2, <1>4 DEF TypeOK, Row, FencedClaims
    <2>2. QED
      BY <1>2, <2>1 DEF BudgetInv, Budget
  <1>5. QED
    BY <1>1, <1>2, <1>3, <1>4, StaysRecorded

\* Nothing is under way to the broker or queued there that was not recorded.
LEMMA SentHolds == Spec => []SentAreRecorded
  <1>1. Init => SentAreRecorded
    BY DEF Init, SentAreRecorded
  <1>2. /\ TypeOK /\ FencedClaims /\ BudgetInv /\ SentAreRecorded /\ [Next]_vars
        => SentAreRecorded'
    BY SentStep
  <1>3. QED
    BY <1>1, <1>2, TypeCorrect, Fencing, BudgetHolds, PTL DEF Spec

Phases == [e \in Event |-> PhaseOf(row[e].status)]
Delivered == {c.id : c \in queue}

\* A row that changes without changing its phase is no step of the promise.
LEMMA SamePhase ==
    ASSUME \A e \in Event : PhaseOf(row'[e].status) = PhaseOf(row[e].status)
    PROVE  Phases' = Phases
  BY DEF Phases

\* One row changes its phase, the others stay.
LEMMA OnePhase ==
    ASSUME NEW e \in Event,
           \A f \in Event \ {e} : row'[f] = row[f]
    PROVE  Phases' = [Phases EXCEPT ![e] = PhaseOf(row'[e].status)]
  BY DEF Phases

\* Settling a row by its own process moves its event from waiting to its end, and by
\* another process moves nothing.
LEMMA SettlePhase ==
    ASSUME TypeOK, NEW w \in Worker, NEW c \in Claim, NEW r \in Row, Settle(w, c, r)
    PROVE  \/ Phases' = Phases
           \/ /\ Phases[c.id] = "waiting"
              /\ Phases' = [Phases EXCEPT ![c.id] = PhaseOf(r.status)]
  <1>1. CASE HoldsRow(w, c)
    <2>1. c.id \in Event /\ row' = [row EXCEPT ![c.id] = r]
      BY <1>1 DEF Settle, Claim
    <2>2. row'[c.id] = r /\ \A f \in Event \ {c.id} : row'[f] = row[f]
      BY <2>1 DEF TypeOK
    <2>3. Phases' = [Phases EXCEPT ![c.id] = PhaseOf(r.status)]
      BY <2>1, <2>2, OnePhase
    <2>4. Phases[c.id] = "waiting"
      BY <1>1, <2>1 DEF HoldsRow, Phases, PhaseOf
    <2>5. QED
      BY <2>3, <2>4
  <1>2. CASE ~HoldsRow(w, c)
    BY <1>2 DEF Settle, Phases
  <1>3. QED
    BY <1>1, <1>2

\* Every step of the relay is one of OutboxDelivery or a stutter.
LEMMA DeliveryStep ==
    ASSUME TypeOK, MarkHasConfirm, SentAreRecorded, [Next]_vars
    PROVE  [Delivery!Next]_(Delivery!vars)
  <1> DEFINE Goal == [Delivery!Next]_(Delivery!vars)
  <1> USE DEF Phases, Delivered
  <1>1. ASSUME Phases' = Phases, UNCHANGED queue
        PROVE  Goal
    BY <1>1 DEF Delivery!vars
  <1>2. ASSUME NEW e \in Event, Record(e)
        PROVE  Goal
    <2>1. row' = [row EXCEPT ![e] = [row[e] EXCEPT !.status = "PENDING"]]
          /\ row[e].status = "NONE" /\ UNCHANGED queue
      BY <1>2 DEF Record
    <2>2. row'[e].status = "PENDING" /\ \A f \in Event \ {e} : row'[f] = row[f]
      BY <2>1 DEF TypeOK, Row
    <2>3. Phases' = [Phases EXCEPT ![e] = "waiting"] /\ Phases[e] = "none"
      BY <2>1, <2>2, OnePhase DEF PhaseOf
    <2>4. Delivery!Record(e)
      BY <2>1, <2>3 DEF Delivery!Record
    <2>5. QED
      BY <2>4 DEF Delivery!Next
  <1>3. ASSUME NEW e \in Event, BackoffElapses(e) \/ OrphanLeaseExpires(e) \/ HolderTooSlow(e)
        PROVE  Goal
    <2>1. /\ \/ row' = [row EXCEPT ![e] = [row[e] EXCEPT !.due = TRUE]]
             \/ row' = [row EXCEPT ![e] = [row[e] EXCEPT !.leaseOver = TRUE]]
          /\ UNCHANGED queue
      BY <1>3 DEF BackoffElapses, OrphanLeaseExpires, HolderTooSlow, ExpireLease
    <2>2. \A f \in Event : row'[f].status = row[f].status
      BY <2>1 DEF TypeOK, Row
    <2>3. QED
      BY <1>1, <2>1, <2>2, SamePhase
  <1>4. ASSUME NEW w \in Worker, ClaimBatch(w) \/ ClaimReplyLost(w)
        PROVE  Goal
    <2>1. PICK picked \in Picked(w) : LeaseRows(w, picked)
      BY <1>4 DEF ClaimBatch, ClaimReplyLost
    <2>2. ASSUME NEW e \in Event
          PROVE  PhaseOf(row'[e].status) = PhaseOf(row[e].status)
      <3>1. CASE e \in picked
        BY <2>1, <3>1, PickedRows DEF LeaseRows, Leased, Claimable, PhaseOf
      <3>2. CASE e \notin picked
        BY <2>1, <3>2 DEF LeaseRows
      <3>3. QED
        BY <3>1, <3>2
    <2>3. QED
      BY <1>1, <1>4, <2>2, SamePhase DEF ClaimBatch, ClaimReplyLost
  <1>5. ASSUME NEW w \in Worker, MarkPublished(w) \/ MarkThrows(w)
        PROVE  Goal
    <2>1. /\ cur[w] \in Claim
          /\ cur[w] \in queue
          /\ UNCHANGED queue
          /\ Settle(w, cur[w], Published(cur[w])) \/ row' = row
      BY <1>5, CurIsClaim DEF MarkPublished, MarkThrows, MarkHasConfirm
    <2>2. \/ Phases' = Phases
          \/ /\ Phases[cur[w].id] = "waiting"
             /\ Phases' = [Phases EXCEPT ![cur[w].id] = "published"]
      <3> HIDE DEF Phases
      <3>1. /\ Published(cur[w]) \in Row
            /\ PhaseOf(Published(cur[w]).status) = "published"
        BY <2>1, PublishedRow DEF PhaseOf
      <3>2. CASE row' = row
        BY <3>2 DEF Phases
      <3>3. CASE Settle(w, cur[w], Published(cur[w]))
        BY <2>1, <3>1, <3>3, SettlePhase
      <3>4. QED
        BY <2>1, <3>2, <3>3
    <2>3. ASSUME Phases[cur[w].id] = "waiting",
                 Phases' = [Phases EXCEPT ![cur[w].id] = "published"]
          PROVE  Delivery!Publish(cur[w].id)
      BY <2>1, <2>3 DEF Delivery!Publish
    <2>4. cur[w].id \in Event
      BY <2>1 DEF Claim
    <2>5. QED
      BY <1>1, <2>1, <2>2, <2>3, <2>4 DEF Delivery!Next
  <1>6. ASSUME NEW w \in Worker, HandleFailure(w) \/ HandleFailureThrows(w)
        PROVE  Goal
    <2>1. /\ cur[w] \in Claim
          /\ UNCHANGED queue
          /\ Settle(w, cur[w], Failed(cur[w])) \/ row' = row
      BY <1>6, CurIsClaim DEF HandleFailure, HandleFailureThrows
    <2>2. \/ Phases' = Phases
          \/ /\ Phases[cur[w].id] = "waiting"
             /\ \/ Phases' = [Phases EXCEPT ![cur[w].id] = "dead"]
                \/ Phases' = [Phases EXCEPT ![cur[w].id] = "waiting"]
      <3> HIDE DEF Phases
      <3>1. /\ Failed(cur[w]) \in Row
            /\ PhaseOf(Failed(cur[w]).status) \in {"dead", "waiting"}
        BY <2>1, FailedRow DEF PhaseOf
      <3>2. CASE row' = row
        BY <3>2 DEF Phases
      <3>3. CASE Settle(w, cur[w], Failed(cur[w]))
        BY <2>1, <3>1, <3>3, SettlePhase
      <3>4. QED
        BY <2>1, <3>2, <3>3
    <2>3. ASSUME Phases[cur[w].id] = "waiting",
                 Phases' = [Phases EXCEPT ![cur[w].id] = "dead"]
          PROVE  Delivery!GiveUp(cur[w].id)
      BY <2>1, <2>3 DEF Delivery!GiveUp
    <2>4. cur[w].id \in Event
      BY <2>1 DEF Claim
    <2>5. ASSUME Phases[cur[w].id] = "waiting",
                 Phases' = [Phases EXCEPT ![cur[w].id] = "waiting"]
          PROVE  Phases' = Phases
      BY <2>4, <2>5
    <2>6. QED
      BY <1>1, <2>1, <2>2, <2>3, <2>4, <2>5 DEF Delivery!Next
  <1>7. ASSUME NEW c \in inflight, BrokerAccepts(c)
        PROVE  Goal
    <2>1. c.id \in Event /\ row[c.id].status # "NONE" /\ row[c.id] \in Row
      BY DEF TypeOK, Claim, SentAreRecorded
    <2>2. Phases[c.id] # "none"
      BY <2>1 DEF PhaseOf, Row
    <2>3. Phases' = Phases /\ Delivered' = Delivered \cup {c.id}
      BY <1>7 DEF BrokerAccepts
    <2>4. Delivery!Deliver(c.id)
      BY <2>2, <2>3 DEF Delivery!Deliver
    <2>5. QED
      BY <2>1, <2>4 DEF Delivery!Next
  <1>8. CASE UNCHANGED <<row, queue>>
    BY <1>1, <1>8
  <1>9. ASSUME NEW w \in Worker,
               \/ Start(w) \/ Stop(w) \/ Exit(w) \/ Crash(w) \/ Send(w)
               \/ SendFails(w) \/ Confirmed(w) \/ PublishTimesOut(w)
        PROVE  UNCHANGED <<row, queue>>
    BY <1>9 DEF Start, Stop, Exit, Crash, Send, SendFails, Confirmed, PublishTimesOut
  <1>10. ASSUME NEW c \in inflight, MessageLost(c)
         PROVE  UNCHANGED <<row, queue>>
    BY <1>10 DEF MessageLost
  <1>11. QED
    BY <1>2, <1>3, <1>4, <1>5, <1>6, <1>7, <1>8, <1>9, <1>10
       DEF Next, WorkerStep, WorkerFault, vars

\* Every behaviour of the relay is one the outbox's promise allows.
THEOREM RelayImplementsDelivery == Spec => ImplementsDelivery
  <1>1. Init => Delivery!Init
    BY DEF Init, Delivery!Init, PhaseOf
  <1>2. TypeOK /\ PublicationInv /\ SentAreRecorded /\ [Next]_vars
          => [Delivery!Next]_(Delivery!vars)
    BY DeliveryStep DEF PublicationInv
  <1>3. QED
    BY <1>1, <1>2, TypeCorrect, PublicationHolds, SentHolds, PTL
       DEF Spec, ImplementsDelivery, Delivery!Safety
=============================================================================
