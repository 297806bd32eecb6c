---------------------------- MODULE OutboxRelay ----------------------------
(***************************************************************************)
(* The outbox relay (src/outbox-worker): relay processes poll the          *)
(* OutboxEvent table, lease a batch of rows, publish each row to RabbitMQ  *)
(* on a confirm channel and settle the row.                                *)
(*                                                                         *)
(* A row is the database's; a claim is what a process remembers of a row   *)
(* it leased: its id and the attempt number the lease gave it.  A process  *)
(* draws a random workerId when it starts, so a restarted process is       *)
(* another member of Worker.  Time is abstracted to the two tests the SQL  *)
(* makes of it: "due" is nextAttemptAt <= NOW(), "leaseOver" is            *)
(* lockedAt < leaseCutoff.                                                 *)
(*                                                                         *)
(* faults counts what is outside the relay's control (a crash, a shutdown, *)
(* a database reply that is lost, a process slower than its lease) and     *)
(* MaxFaults bounds it.                                                    *)
(***************************************************************************)
EXTENDS Integers, FiniteSets

CONSTANTS Worker,          \* workerIds, one per relay process ever started
          NoWorker,        \* lockedBy IS NULL
          MaxEvent,        \* bound on the number of recorded events
          BatchSize,       \* OUTBOX_BATCH_SIZE
          MaxAttempts,     \* OUTBOX_MAX_ATTEMPTS
          MaxFaults        \* bound on faults

ASSUME OutboxAssumption ==
    /\ NoWorker \notin Worker
    /\ MaxEvent \in Nat
    /\ BatchSize \in Nat \ {0}
    /\ MaxAttempts \in Nat
    /\ MaxFaults \in Nat

Event == 1..MaxEvent       \* event ids, numbered in the order of createdAt

Claim == [id : Event, attempts : Nat]
NoClaim == [id |-> 0, attempts |-> 0]

Row == [status    : {"NONE", "PENDING", "PROCESSING", "PUBLISHED", "DEAD"},
        attempts  : Nat,
        lockedBy  : Worker \cup {NoWorker},
        leaseOver : BOOLEAN,
        due       : BOOLEAN]

VARIABLES row,        \* event -> its OutboxEvent row ("NONE": not inserted)
          proc,       \* worker -> "new", "up", "stopping" or "gone"
          batch,      \* worker -> the claims its loop has not finished
          stage,      \* worker -> "loop", "sent", "mark" or "fail"
          cur,        \* worker -> the claim publishOne works on
          inflight,   \* claims sent to the broker, neither accepted nor lost
          queue,      \* claims whose message the broker has accepted
          faults

vars == <<row, proc, batch, stage, cur, inflight, queue, faults>>

Init ==
    /\ row = [e \in Event |-> [status |-> "NONE", attempts |-> 0,
                               lockedBy |-> NoWorker,
                               leaseOver |-> FALSE, due |-> TRUE]]
    /\ proc = [w \in Worker |-> "new"]
    /\ batch = [w \in Worker |-> {}]
    /\ stage = [w \in Worker |-> "loop"]
    /\ cur = [w \in Worker |-> NoClaim]
    /\ inflight = {}
    /\ queue = {}
    /\ faults = 0

Running(w) == proc[w] \in {"up", "stopping"}

Fault == /\ faults < MaxFaults
         /\ faults' = faults + 1

(***************************************************************************)
(* Recording and the run loop's own life.                                  *)
(***************************************************************************)
\* A business transaction commits, and its event with it.
Record(e) ==
    /\ row[e].status = "NONE"
    /\ row' = [row EXCEPT ![e].status = "PENDING"]
    /\ UNCHANGED <<proc, batch, stage, cur, inflight, queue, faults>>

Start(w) ==
    /\ proc[w] = "new"
    /\ proc' = [proc EXCEPT ![w] = "up"]
    /\ UNCHANGED <<row, batch, stage, cur, inflight, queue, faults>>

\* SIGTERM: the loop's condition turns false, the batch in hand goes on.
Stop(w) ==
    /\ proc[w] = "up"
    /\ Fault
    /\ proc' = [proc EXCEPT ![w] = "stopping"]
    /\ UNCHANGED <<row, batch, stage, cur, inflight, queue>>

Exit(w) ==
    /\ proc[w] = "stopping"
    /\ batch[w] = {}
    /\ proc' = [proc EXCEPT ![w] = "gone"]
    /\ UNCHANGED <<row, batch, stage, cur, inflight, queue, faults>>

\* The process dies anywhere, also between a publish and its update
\* (SIMULATE_CRASH_AFTER_PUBLISH): what it remembers is lost.
Crash(w) ==
    /\ Running(w)
    /\ Fault
    /\ proc' = [proc EXCEPT ![w] = "gone"]
    /\ batch' = [batch EXCEPT ![w] = {}]
    /\ stage' = [stage EXCEPT ![w] = "loop"]
    /\ cur' = [cur EXCEPT ![w] = NoClaim]
    /\ UNCHANGED <<row, inflight, queue>>

(***************************************************************************)
(* claimBatch                                                              *)
(***************************************************************************)
\* Mutant: a relay that does not wait for the lease of another to end.
ClaimableAnyLease(r) == r.due /\ r.status \in {"PENDING", "PROCESSING"}

\* Mutant: a relay that never takes over what a dead process leased.
ClaimablePendingOnly(r) == r.due /\ r.status = "PENDING"

Claimable(r) ==
    /\ r.due
    /\ \/ r.status = "PENDING"
       \/ r.status = "PROCESSING" /\ r.leaseOver

\* Rows another process is writing at this moment: SKIP LOCKED passes them by.
BeingWritten(w) ==
    {cur[v].id : v \in {u \in Worker \ {w} : stage[u] \in {"mark", "fail"}}}

Oldest(S, n) == {e \in S : Cardinality({d \in S : d < e}) < n}

Picked(w) ==
    {Oldest({e \in Event : Claimable(row[e])} \ skipped, BatchSize) :
        skipped \in SUBSET BeingWritten(w)}

\* Mutant: the lease forgets to count the attempt.
LeasedUncounted(r, w) == [r EXCEPT !.status = "PROCESSING", !.lockedBy = w,
                                   !.leaseOver = FALSE]

Leased(r, w) == [status |-> "PROCESSING", attempts |-> r.attempts + 1,
                 lockedBy |-> w, leaseOver |-> FALSE, due |-> r.due]

LeaseRows(w, picked) ==
    row' = [e \in Event |-> IF e \in picked THEN Leased(row[e], w) ELSE row[e]]

Returned(picked) == {[id |-> e, attempts |-> row[e].attempts + 1] : e \in picked}

\* An empty batch is the poll that finds nothing and sleeps.
ClaimBatch(w) ==
    /\ proc[w] = "up"
    /\ stage[w] = "loop"
    /\ batch[w] = {}
    /\ \E picked \in Picked(w) :
          /\ LeaseRows(w, picked)
          /\ batch' = [batch EXCEPT ![w] = Returned(picked)]
    /\ UNCHANGED <<proc, stage, cur, inflight, queue, faults>>

\* The claim commits and its reply is lost: the loop logs the error and
\* sleeps, the rows stay leased to a process that does not know it.
ClaimReplyLost(w) ==
    /\ proc[w] = "up"
    /\ stage[w] = "loop"
    /\ batch[w] = {}
    /\ Fault
    /\ \E picked \in Picked(w) : picked # {} /\ LeaseRows(w, picked)
    /\ UNCHANGED <<proc, batch, stage, cur, inflight, queue>>

(***************************************************************************)
(* publishOne and the confirm channel                                      *)
(***************************************************************************)
Begin(w, c, s) ==
    /\ Running(w)
    /\ stage[w] = "loop"
    /\ c \in batch[w]
    /\ cur' = [cur EXCEPT ![w] = c]
    /\ stage' = [stage EXCEPT ![w] = s]

Send(w) ==
    /\ \E c \in batch[w] : Begin(w, c, "sent") /\ inflight' = inflight \cup {c}
    /\ UNCHANGED <<row, proc, batch, queue, faults>>

\* sendToQueue rejects and nothing left the process.
SendFails(w) ==
    /\ \E c \in batch[w] : Begin(w, c, "fail")
    /\ UNCHANGED <<row, proc, batch, inflight, queue, faults>>

BrokerAccepts(c) ==
    /\ c \in inflight
    /\ inflight' = inflight \ {c}
    /\ queue' = queue \cup {c}
    /\ UNCHANGED <<row, proc, batch, stage, cur, faults>>

MessageLost(c) ==
    /\ c \in inflight
    /\ inflight' = inflight \ {c}
    /\ UNCHANGED <<row, proc, batch, stage, cur, queue, faults>>

\* Mutant: a plain channel, where sendToQueue resolves without a confirm.
Unconfirmed(w) ==
    /\ Running(w)
    /\ stage[w] = "sent"
    /\ stage' = [stage EXCEPT ![w] = "mark"]
    /\ UNCHANGED <<row, proc, batch, cur, inflight, queue, faults>>

Confirmed(w) ==
    /\ Running(w)
    /\ stage[w] = "sent"
    /\ cur[w] \in queue
    /\ stage' = [stage EXCEPT ![w] = "mark"]
    /\ UNCHANGED <<row, proc, batch, cur, inflight, queue, faults>>

\* No confirm within the publish timeout: the broker may still have the
\* message, or accept it later.
PublishTimesOut(w) ==
    /\ Running(w)
    /\ stage[w] = "sent"
    /\ stage' = [stage EXCEPT ![w] = "fail"]
    /\ UNCHANGED <<row, proc, batch, cur, inflight, queue, faults>>

\* WHERE id = .. AND status = PROCESSING AND lockedBy = this worker
HoldsRow(w, c) == row[c.id].status = "PROCESSING" /\ row[c.id].lockedBy = w

\* updateMany: r becomes the row if the WHERE clause selects it.
Settle(w, c, r) ==
    row' = IF HoldsRow(w, c) THEN [row EXCEPT ![c.id] = r] ELSE row

Unlocked(r, s) ==
    [r EXCEPT !.status = s, !.lockedBy = NoWorker, !.leaseOver = FALSE]

Published(c) == Unlocked(row[c.id], "PUBLISHED")

\* Mutant: equality, which a reclaimed row can step over.
FailedAtExactly(c) ==
    [Unlocked(row[c.id],
              IF c.attempts = MaxAttempts + 1 THEN "DEAD" ELSE "PENDING")
        EXCEPT !.due = FALSE]

\* The next attempt is at least two seconds away, so the row is not due.
Failed(c) ==
    [Unlocked(row[c.id], IF c.attempts > MaxAttempts THEN "DEAD" ELSE "PENDING")
        EXCEPT !.due = FALSE]

NextInBatch(w) ==
    /\ batch' = [batch EXCEPT ![w] = @ \ {cur[w]}]
    /\ stage' = [stage EXCEPT ![w] = "loop"]
    /\ cur' = [cur EXCEPT ![w] = NoClaim]

MarkPublished(w) ==
    /\ Running(w)
    /\ stage[w] = "mark"
    /\ Settle(w, cur[w], Published(cur[w]))
    /\ NextInBatch(w)
    /\ UNCHANGED <<proc, inflight, queue, faults>>

\* The update throws, before it took effect or after, and the catch clause
\* treats the published event as a failed one.
MarkThrows(w) ==
    /\ Running(w)
    /\ stage[w] = "mark"
    /\ Fault
    /\ \/ Settle(w, cur[w], Published(cur[w]))
       \/ row' = row
    /\ stage' = [stage EXCEPT ![w] = "fail"]
    /\ UNCHANGED <<proc, batch, cur, inflight, queue>>

HandleFailure(w) ==
    /\ Running(w)
    /\ stage[w] = "fail"
    /\ Settle(w, cur[w], Failed(cur[w]))
    /\ NextInBatch(w)
    /\ UNCHANGED <<proc, inflight, queue, faults>>

\* handleFailure throws, before or after its update: the exception leaves
\* the for loop and the rest of the batch is abandoned, still leased.
HandleFailureThrows(w) ==
    /\ Running(w)
    /\ stage[w] = "fail"
    /\ Fault
    /\ \/ Settle(w, cur[w], Failed(cur[w]))
       \/ row' = row
    /\ batch' = [batch EXCEPT ![w] = {}]
    /\ stage' = [stage EXCEPT ![w] = "loop"]
    /\ cur' = [cur EXCEPT ![w] = NoClaim]
    /\ UNCHANGED <<proc, inflight, queue>>

(***************************************************************************)
(* Time                                                                    *)
(***************************************************************************)
BackoffElapses(e) ==
    /\ row[e].status = "PENDING"
    /\ ~row[e].due
    /\ row' = [row EXCEPT ![e].due = TRUE]
    /\ UNCHANGED <<proc, batch, stage, cur, inflight, queue, faults>>

\* Some process still works on the row's present lease.
Held(e) == \E w \in Worker : \E c \in batch[w] :
               c.id = e /\ row[e].lockedBy = w

ExpireLease(e) ==
    /\ row[e].status = "PROCESSING"
    /\ ~row[e].leaseOver
    /\ row' = [row EXCEPT ![e].leaseOver = TRUE]
    /\ UNCHANGED <<proc, batch, stage, cur, inflight, queue>>

\* The lease of a row nobody works on any more runs out.
OrphanLeaseExpires(e) == ~Held(e) /\ ExpireLease(e) /\ UNCHANGED faults

\* The lease runs out under a process that is still working on the row.
HolderTooSlow(e) == Held(e) /\ ExpireLease(e) /\ Fault

WorkerStep(w) ==
    \/ Exit(w) \/ ClaimBatch(w)
    \/ Send(w) \/ SendFails(w) \/ Confirmed(w) \/ PublishTimesOut(w)
    \/ MarkPublished(w) \/ HandleFailure(w)

WorkerFault(w) ==
    \/ Stop(w) \/ Crash(w)
    \/ ClaimReplyLost(w) \/ MarkThrows(w) \/ HandleFailureThrows(w)

Next ==
    \/ \E e \in Event : \/ Record(e) \/ BackoffElapses(e)
                        \/ OrphanLeaseExpires(e) \/ HolderTooSlow(e)
    \/ \E w \in Worker : Start(w) \/ WorkerStep(w) \/ WorkerFault(w)
    \/ \E c \in inflight : BrokerAccepts(c) \/ MessageLost(c)

Spec == Init /\ [][Next]_vars

\* A relay process that is up keeps polling and finishes what it began, a
\* process that is deployed is started, and time passes.  Nothing makes the
\* broker accept a message or the network keep it.
Fairness ==
    /\ \A w \in Worker : WF_vars(Start(w)) /\ WF_vars(WorkerStep(w))
    /\ \A e \in Event : WF_vars(BackoffElapses(e)) /\ WF_vars(OrphanLeaseExpires(e))

FairSpec == Spec /\ Fairness
(***************************************************************************)
(* Properties                                                              *)
(***************************************************************************)
\* The rows, the processes' memory and the broker hold what their columns
\* and fields can hold, and publishOne works on a claim of its own batch.
TypeOK ==
    /\ row \in [Event -> Row]
    /\ proc \in [Worker -> {"new", "up", "stopping", "gone"}]
    /\ batch \in [Worker -> SUBSET Claim]
    /\ stage \in [Worker -> {"loop", "sent", "mark", "fail"}]
    /\ cur \in [Worker -> Claim \cup {NoClaim}]
    /\ \A w \in Worker : stage[w] # "loop" => cur[w] \in batch[w]
    /\ inflight \in SUBSET Claim
    /\ queue \in SUBSET Claim
    /\ faults \in 0..MaxFaults

\* The lock columns are set exactly while a row is PROCESSING, and such a row
\* stays due: claimBatch never updates nextAttemptAt, and a row that was not
\* due could not be reclaimed from a dead process.
LockMatchesStatus ==
    \A e \in Event :
        /\ (row[e].status = "PROCESSING") <=> (row[e].lockedBy \in Worker)
        /\ row[e].status = "PROCESSING" => row[e].due

\* lockedBy is a fencing token although it does not change between two leases
\* of one process: as long as a row names a process, a claim that process
\* remembers of it is the row's latest lease, never an older one.
FencedClaims ==
    \A w \in Worker : \A c \in batch[w] :
        /\ c.attempts \in 1..row[c.id].attempts
        /\ row[c.id].lockedBy = w => c.attempts = row[c.id].attempts

\* A row says PUBLISHED only if the broker accepted the message of the very
\* attempt that settled it, whatever other attempts were still under way.
PublishedByLastAttempt ==
    \A e \in Event : row[e].status = "PUBLISHED" =>
        [id |-> e, attempts |-> row[e].attempts] \in queue

\* Every attempt beyond OUTBOX_MAX_ATTEMPTS + 1 is the price of a fault: a row
\* that waits has failed at most MaxAttempts times, a row is given up only
\* after more, and crashes, lost replies and slow processes cost one each.
AttemptsAccounted ==
    \A e \in Event :
        /\ row[e].attempts <= MaxAttempts + 1 + faults
        /\ row[e].status = "PENDING" => row[e].attempts <= MaxAttempts
        /\ row[e].status = "DEAD" => row[e].attempts > MaxAttempts

\* A PUBLISHED or DEAD row never changes again, whatever stale processes,
\* late timeouts and lost replies still try to write.
SettledIsFinal ==
    [][\A e \in Event :
          row[e].status \in {"PUBLISHED", "DEAD"} => row'[e] = row[e]]_vars

\* While a lease lasts only the process that got it settles the row or lets
\* another have it; a process whose lease was taken over changes nothing.
LeaseRespected ==
    [][\A e \in Event :
          row[e].status = "PROCESSING"
             /\ (\/ row'[e].status # "PROCESSING"
                 \/ row'[e].attempts # row[e].attempts)
          => \/ row[e].leaseOver /\ row'[e].status = "PROCESSING"
             \/ \E w \in Worker :
                   /\ row[e].lockedBy = w
                   /\ cur[w] = [id |-> e, attempts |-> row[e].attempts]]_vars

PhaseOf(s) == CASE s = "NONE" -> "none"
                [] s \in {"PENDING", "PROCESSING"} -> "waiting"
                [] s = "PUBLISHED" -> "published"
                [] s = "DEAD" -> "dead"

Delivery == INSTANCE OutboxDelivery
    WITH phase <- [e \in Event |-> PhaseOf(row[e].status)],
         delivered <- {c.id : c \in queue}

\* Every step of the relay is one the outbox's promise allows: an event is
\* settled once, and called published only after the broker has it.
ImplementsDelivery == Delivery!Safety

\* The rest of the promise: every recorded event is published or given up, as
\* long as some relay process survives.
EveryEventSettles == Delivery!Settles
=============================================================================
