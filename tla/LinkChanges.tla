------------------------------ MODULE LinkChanges ------------------------------
(***************************************************************************)
(* What a change to a link leaves behind (ShortLinksService.create, update *)
(* and remove, AuditOutboxService.record, WorkspacesService.remove).       *)
(*                                                                         *)
(* update and remove are interactive transactions, READ COMMITTED: they    *)
(* find the link, change its row (and hold its lock from then on), insert  *)
(* an audit row and an outbox event, and commit.  create inserts a row     *)
(* under a random code and tries again if the code is taken.  Any          *)
(* statement may fail, the transaction may run out of its time, the        *)
(* process may die, and the reply to a commit may be lost.                 *)
(*                                                                         *)
(* The eventId of a call's event is the call.  The relay is OutboxDelivery *)
(* in place of OutboxRelay, which is shown to implement it; that the calls *)
(* record events as OutboxDelivery has it is a property, RecordsOnce.      *)
(* Each call is one request of its own; what it does to the caches is in   *)
(* ResolveCache and VisitCounting.                                         *)
(***************************************************************************)
EXTENDS Naturals, Sequences

CONSTANTS Call,        \* the calls
          Link, Code,  \* the ids and the short codes of links
          Old, OldCode,     \* the link that is there at first, and its code
          Unused, Gone,     \* what an id stands for before and after its row
          None,        \* no link
          MaxAttempts  \* MAX_ATTEMPTS

ASSUME LinkChangesAssumption ==
    /\ MaxAttempts \in Nat \ {0}
    /\ Old \in Link /\ OldCode \in Code
    /\ Unused # Gone /\ {Unused, Gone} \cap Code = {}
    /\ None \notin Link

VARIABLES workspace,   \* whether the workspace exists
          row,         \* ShortLink: link -> its code
          audit,       \* AuditLog
          phase, delivered,     \* OutboxEvent, see OutboxDelivery
          clock,       \* the time of day, as far as it is looked at
          step, op, target,       \* call -> how far, what it does, to which link
          attempt,     \* call -> codes it has tried
          pending,     \* call -> the tables its transaction has written to
          at,          \* call -> occurredAt
          answer,      \* call -> how it ended
          done         \* link -> its committed changes in their order (for the properties)

Outbox == INSTANCE OutboxDelivery WITH Event <- Call

tables == <<workspace, row, audit, phase, delivered>>
callVars == <<op, target, attempt, pending, at, answer>>
changesVars == <<tables, clock, step, callVars, done>>

Op == {"create", "update", "remove"}

ChangesInit ==
    /\ workspace = TRUE
    /\ row = [l \in Link |-> IF l = Old THEN OldCode ELSE Unused]
    /\ audit = {}
    /\ Outbox!Init
    /\ clock = 0
    /\ step = [c \in Call |-> "idle"]
    /\ op = [c \in Call |-> "none"]
    /\ target = [c \in Call |-> None]
    /\ attempt = [c \in Call |-> 0]
    /\ pending = [c \in Call |-> {}]
    /\ at = [c \in Call |-> 0]
    /\ answer = [c \in Call |-> "none"]
    /\ done = [l \in Link |-> <<>>]

Rows == {l \in Link : row[l] \in Code}

\* The transaction of a call has written to a row and not ended.
Locks(c, l) == target[c] = l /\ "row" \in pending[c]
Locked(l) == \E c \in Call : Locks(c, l)

GoTo(c, label) == step' = [step EXCEPT ![c] = label]

\* Mutant: the transaction is left open.
LeavesOpen(c, a) ==
    /\ GoTo(c, "done")
    /\ answer' = [answer EXCEPT ![c] = a]
    /\ UNCHANGED <<pending, clock, op, target, attempt, at>>

\* The call ends; what its transaction has not committed is rolled back.
Answer(c, a) ==
    /\ GoTo(c, "done")
    /\ answer' = [answer EXCEPT ![c] = a]
    /\ pending' = [pending EXCEPT ![c] = {}]
    /\ op' = [op EXCEPT ![c] = "none"]
    /\ target' = [target EXCEPT ![c] = None]
    /\ attempt' = [attempt EXCEPT ![c] = 0]
    /\ at' = [at EXCEPT ![c] = 0]
    /\ UNCHANGED clock

Committed(l, c, o) == done' = [done EXCEPT ![l] = Append(@, [call |-> c, op |-> o])]

\* A request comes in.
Start(c, o, l) ==
    /\ step[c] = "idle"
    /\ IF o = "create" THEN l = None ELSE l \in Link /\ row[l] # Unused
    /\ op' = [op EXCEPT ![c] = o]
    /\ target' = [target EXCEPT ![c] = l]
    /\ GoTo(c, IF o = "create" THEN "allocate" ELSE "find")
    /\ UNCHANGED <<tables, clock, attempt, pending, at, answer, done>>

(***************************************************************************)
(* create                                                                  *)
(***************************************************************************)
\* Mutant: the code has no unique index.
NoIndex(k) == FALSE

Taken(k) == \E l \in Rows : row[l] = k

\* The unique index makes an insert wait for a removal that may free its code.
CodeBusy(k) == \E l \in Rows : row[l] = k /\ \E c \in Call : Locks(c, l) /\ op[c] = "remove"

\* shortLink.create is refused with P2002, and the next code is tried.
CodeTaken(c) ==
    /\ step[c] = "allocate" /\ attempt[c] < MaxAttempts
    /\ \E k \in Code : Taken(k) /\ ~CodeBusy(k)
    /\ attempt' = [attempt EXCEPT ![c] = @ + 1]
    /\ UNCHANGED <<tables, clock, step, op, target, pending, at, answer, done>>

\* A random id that no row has had.
Fresh == CHOOSE l \in Link : row[l] = Unused

\* shortLink.create commits.
Insert(c, k) ==
    /\ step[c] = "allocate" /\ attempt[c] < MaxAttempts
    /\ workspace /\ ~Taken(k) /\ \E l \in Link : row[l] = Unused
    /\ row' = [row EXCEPT ![Fresh] = k]
    /\ Committed(Fresh, c, "create")

\* Its reply arrives; the Bloom filter and the cache follow, and cannot fail the call.
Created(c, k) ==
    /\ Insert(c, k)
    /\ GoTo(c, "committed")
    /\ UNCHANGED <<workspace, audit, phase, delivered, clock, callVars>>

\* Mutant: every error of the insert is answered with another try.
TriesAfterAnyError(c, k) ==
    /\ Insert(c, k)
    /\ attempt' = [attempt EXCEPT ![c] = @ + 1]
    /\ UNCHANGED <<workspace, audit, phase, delivered, clock, step, op, target, pending, at, answer>>

\* Its reply is lost: not a P2002, so the error goes to the caller.
CreatedUnheard(c, k) ==
    /\ Insert(c, k)
    /\ Answer(c, "error")
    /\ UNCHANGED <<workspace, audit, phase, delivered>>

\* Five codes were taken: 503.  The foreign key has no workspace (P2003): an error.
NoCodeLeft(c) ==
    /\ step[c] = "allocate" /\ attempt[c] = MaxAttempts
    /\ Answer(c, "refused")
    /\ UNCHANGED <<tables, done>>

NoWorkspace(c) ==
    /\ step[c] = "allocate" /\ attempt[c] < MaxAttempts /\ ~workspace
    /\ Answer(c, "error")
    /\ UNCHANGED <<tables, done>>

(***************************************************************************)
(* update and remove                                                       *)
(***************************************************************************)
\* findFirst finds the link, and the caller may manage it.
Find(c) ==
    /\ step[c] = "find" /\ target[c] \in Rows
    /\ GoTo(c, "found")
    /\ UNCHANGED <<tables, clock, callVars, done>>

\* 404, 403, or 400 for an expiry in the past.
Refuse(c) ==
    /\ step[c] = "find"
    /\ Answer(c, "refused")
    /\ UNCHANGED <<tables, done>>

\* The statement waits for the transaction that has changed the row.
MayLock(c) == \A d \in Call \ {c} : ~Locks(d, target[c])

\* Mutant: the count of deleteMany is not looked at.
CountIgnored(c) == target[c] \in Rows \/ op[c] = "remove"

\* One row is updated, or deleteMany has counted one.
OneRow(c) == target[c] \in Rows

ChangeRow(c) ==
    /\ step[c] = "found" /\ MayLock(c) /\ OneRow(c)
    /\ pending' = [pending EXCEPT ![c] = {"row"}]
    /\ GoTo(c, IF op[c] = "remove" THEN "uncache" ELSE "audit")
    /\ UNCHANGED <<tables, clock, op, target, attempt, at, answer, done>>

\* The row has gone meanwhile: remove answers 404, update fails (P2025).
RowGone(c) ==
    /\ step[c] = "found" /\ MayLock(c) /\ ~OneRow(c)
    /\ Answer(c, IF op[c] = "remove" THEN "refused" ELSE "error")
    /\ UNCHANGED <<tables, done>>

\* cache.invalidate and cache.deleteStats, which swallow their errors.
Uncache(c) ==
    /\ step[c] = "uncache"
    /\ GoTo(c, "audit")
    /\ UNCHANGED <<tables, clock, callVars, done>>

\* record: occurredAt is taken, and the audit row is inserted.
InsertAudit(c) ==
    /\ step[c] = "audit"
    /\ clock' = clock + 1
    /\ at' = [at EXCEPT ![c] = clock']
    /\ pending' = [pending EXCEPT ![c] = @ \cup {"audit"}]
    /\ GoTo(c, "outbox")
    /\ UNCHANGED <<tables, op, target, attempt, answer, done>>

InsertEvent(c) ==
    /\ step[c] = "outbox"
    /\ pending' = [pending EXCEPT ![c] = @ \cup {"outbox"}]
    /\ GoTo(c, "commit")
    /\ UNCHANGED <<tables, clock, op, target, attempt, at, answer, done>>

\* outboxEvent.create: the row of a new event, which waits for the relay.
Recorded(c) == phase' = [phase EXCEPT ![c] = "waiting"] /\ UNCHANGED delivered

\* What the transaction has written becomes visible at once.
Apply(c) ==
    /\ step[c] = "commit"
    /\ row' = IF op[c] = "remove" THEN [row EXCEPT ![target[c]] = Gone] ELSE row
    /\ audit' = IF "audit" \in pending[c]
                THEN audit \cup {[event |-> c, link |-> target[c], action |-> op[c], at |-> at[c]]}
                ELSE audit
    /\ IF "outbox" \in pending[c] THEN Recorded(c) ELSE UNCHANGED <<phase, delivered>>
    /\ Committed(target[c], c, op[c])
    /\ UNCHANGED workspace

\* The commit is heard of; update invalidates the cache after it.
Commit(c) ==
    /\ Apply(c)
    /\ pending' = [pending EXCEPT ![c] = {}]
    /\ GoTo(c, "committed")
    /\ UNCHANGED <<clock, op, target, attempt, at, answer>>

\* Mutant: a transaction whose commit was not heard of is run again.
RunsAgain(c) == Apply(c) /\ UNCHANGED <<clock, step, callVars>>

\* The reply to the commit is lost.
CommitUnheard(c) == Apply(c) /\ Answer(c, "error")

AnswerOk(c) ==
    /\ step[c] = "committed"
    /\ Answer(c, "ok")
    /\ UNCHANGED <<tables, done>>

\* A statement fails, the transaction times out or its process dies, before the
\* commit or after it.
Fail(c) ==
    /\ step[c] \notin {"idle", "done"}
    /\ Answer(c, "error")
    /\ UNCHANGED <<tables, done>>

(***************************************************************************)
(* The workspace and the relay                                             *)
(***************************************************************************)
\* WorkspacesService.remove: the links go with the workspace, once no transaction
\* holds one of them; nothing is recorded.
RemoveWorkspace ==
    /\ workspace
    /\ \A l \in Link : ~Locked(l)
    /\ workspace' = FALSE
    /\ row' = [l \in Link |-> IF l \in Rows THEN Gone ELSE row[l]]
    /\ UNCHANGED <<audit, phase, delivered, clock, step, callVars, done>>

Settle(c) == Outbox!Publish(c) \/ Outbox!GiveUp(c)

Relay(c) ==
    /\ Outbox!Deliver(c) \/ Settle(c)
    /\ UNCHANGED <<workspace, row, audit, clock, step, callVars, done>>

RelaySettles(c) ==
    /\ Settle(c)
    /\ UNCHANGED <<workspace, row, audit, clock, step, callVars, done>>

(***************************************************************************)
(* The specification                                                       *)
(***************************************************************************)
CreateStep(c) ==
    \/ CodeTaken(c) \/ NoCodeLeft(c) \/ NoWorkspace(c)
    \/ \E k \in Code : Created(c, k) \/ CreatedUnheard(c, k)

ChangeStep(c) ==
    \/ Find(c) \/ Refuse(c) \/ ChangeRow(c) \/ RowGone(c) \/ Uncache(c)
    \/ InsertAudit(c) \/ InsertEvent(c) \/ Commit(c) \/ CommitUnheard(c)

CallStep(c) == CreateStep(c) \/ ChangeStep(c) \/ AnswerOk(c)

ChangesNext ==
    \/ \E c \in Call : CallStep(c) \/ Fail(c) \/ Relay(c)
    \/ \E c \in Call, o \in Op, l \in Link \cup {None} : Start(c, o, l)
    \/ RemoveWorkspace

\* A call goes on unless it waits for another's transaction, and the relay settles
\* what is recorded (OutboxRelay, EveryEventSettles).
Fairness == WF_changesVars(\E c \in Call : CallStep(c)) /\ WF_changesVars(\E c \in Call : RelaySettles(c))

ChangesSpec == ChangesInit /\ [][ChangesNext]_changesVars /\ Fairness

(***************************************************************************)
(* Properties                                                              *)
(***************************************************************************)
AuditRow == [event : Call, link : Link, action : {"update", "remove"}, at : Nat]

\* Every variable keeps its type, and no two links share a code.
ChangesTypeOK ==
    /\ workspace \in BOOLEAN
    /\ row \in [Link -> Code \cup {Unused, Gone}]
    /\ audit \subseteq AuditRow
    /\ phase \in [Call -> {"none", "waiting", "published", "dead"}]
    /\ delivered \subseteq Call
    /\ clock \in Nat
    /\ step \in [Call -> {"idle", "allocate", "find", "found", "uncache", "audit", "outbox",
                        "commit", "committed", "done"}]
    /\ op \in [Call -> Op \cup {"none"}]
    /\ target \in [Call -> Link \cup {None}]
    /\ attempt \in [Call -> 0..MaxAttempts]
    /\ pending \in [Call -> SUBSET {"row", "audit", "outbox"}]
    /\ at \in [Call -> Nat]
    /\ answer \in [Call -> {"none", "ok", "refused", "error"}]
    /\ done \in [Link -> Seq([call : Call, op : Op])]
    /\ \A l, m \in Rows : row[l] = row[m] => l = m

\* The places in a link's history of the changes the audit log is to tell of.
Audited(l) == {i \in DOMAIN done[l] : done[l][i].op # "create"}

AuditOf(l) == {a \in audit : a.link = l}

TellsOf(a, d) == a.event = d.call /\ a.action = d.op

\* The audit log tells the history of every link: one row for each committed update
\* and removal and none for anything else, in the order of the commits, the
\* removal once and last, and one outbox event with every row (record).
AuditTellsTheHistory ==
    /\ \A l \in Link :
          /\ \A i \in Audited(l) : \E a \in AuditOf(l) :
                TellsOf(a, done[l][i]) /\ \A b \in AuditOf(l) : TellsOf(b, done[l][i]) => b = a
          /\ \A a \in AuditOf(l) : \E i \in Audited(l) :
                TellsOf(a, done[l][i]) /\ \A j \in Audited(l) : TellsOf(a, done[l][j]) => j = i
          /\ \A i, j \in Audited(l) : i < j =>
                /\ done[l][i].op # "remove"
                /\ \A a, b \in AuditOf(l) :
                      TellsOf(a, done[l][i]) /\ TellsOf(b, done[l][j]) => a.at < b.at
    /\ {a.event : a \in audit} = {c \in Call : phase[c] # "none"}

\* The places in the links' histories of what a call has changed.
Changed(c) == UNION {{<<l, i>> : i \in {i \in DOMAIN done[l] : done[l][i].call = c}} : l \in Link}

\* The answer a caller gets is true: after a success its change was made, exactly
\* once, after a refusal it was not, and an error leaves at most one link or change
\* behind, however often the codes collide and replies are lost (create, update,
\* remove).
AnswersAreTrue ==
    \A c \in Call : CASE answer[c] = "ok"      -> \E x \in Changed(c) : Changed(c) = {x}
                      [] answer[c] = "refused" -> Changed(c) = {}
                      [] OTHER                 -> \A x, y \in Changed(c) : x = y

\* The calls and the relay together do with the outbox what OutboxDelivery promises: each
\* event is recorded once, by the commit of its call and by no other, and never again
\* when the relay has it under way or has settled it, whichever replies and transactions
\* are lost (record, and the $transaction around it).
RecordsOnce == Outbox!Safety

\* Time and again no call is under way, whichever locks and codes it waited for,
\* and every update and removal that was committed has been announced: its event is
\* published after the broker had it, or given up (update, remove, OutboxRelayService).
EverythingSettles ==
    []<>(\A c \in Call :
            /\ step[c] \in {"idle", "done"}
            /\ (\E x \in Changed(c) : done[x[1]][x[2]].op # "create") =>
                  (phase[c] = "published" /\ c \in delivered) \/ phase[c] = "dead")
=============================================================================
