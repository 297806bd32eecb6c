--------------------------- MODULE VisitCounting ---------------------------
(***************************************************************************)
(* How one short link's visits are limited and counted: the redirect path  *)
(* (src/redirects), the visit event it publishes (src/messaging) and the   *)
(* consumer that stores visits and counts them (src/analytics-worker).     *)
(*                                                                         *)
(* A visit of a link that has a maxVisits is counted by the UPDATE that    *)
(* grants it; a visit of any other link is counted later, when the         *)
(* consumer processes its event.  Which of the two happens is decided by   *)
(* the snapshot the redirect works with, and that snapshot may be a cached *)
(* and outdated one.                                                       *)
(*                                                                         *)
(* A request stands for one GET /r/:code or POST /r/:code/access and for   *)
(* the event it publishes.  A channel is one consumer connection: a        *)
(* process that reconnects or restarts gets another one.  The cache is     *)
(* kept to a single entry that may hold any snapshot some request loaded;  *)
(* its layers are the subject of ResolveCache.                             *)
(***************************************************************************)
EXTENDS Integers, FiniteSets

CONSTANTS Request,        \* visits, each with its own eventId
          Channel,        \* consumer channels
          Limit,          \* the values maxVisits is given
          NoLimit,        \* maxVisits IS NULL
          NoSnapshot,     \* nothing cached
          NoKey,          \* the Redis visit counter does not exist
          Prefetch,       \* prefetchCount of the consumer
          MaxEdits,       \* bound on the owner's edits
          MaxFaults       \* bound on lost channels, crashes and failing transactions

ASSUME VisitAssumption ==
    /\ IsFiniteSet(Request)
    /\ Limit \subseteq Nat \ {0}
    /\ NoLimit \notin Nat
    /\ NoKey \notin Nat
    /\ Prefetch \in Nat \ {0}
    /\ MaxEdits \in Nat
    /\ MaxFaults \in Nat

Limits == Limit \cup {NoLimit}

LinkRow == [exists : BOOLEAN, active : BOOLEAN, maxVisits : Limits,
            visitCount : Nat, ver : Nat]

Snapshot == [active : BOOLEAN, maxVisits : Limits, visitCount : Nat, ver : Nat]

ASSUME SnapshotAssumption == NoSnapshot \notin Snapshot

VARIABLES link,        \* the ShortLink row
          cache,       \* the cached snapshot, or NoSnapshot
          stats,       \* stats:link:<id>:visits, or NoKey
          pc, snap,    \* request -> where it is, the snapshot it works with
          limited,     \* requests granted by the UPDATE of resolveLimited
          unlimited,   \* requests granted without it
          ready,       \* events the queue has not handed out
          chan,        \* channel -> "new", "open", "lost" or "gone"
          running,     \* channel -> events whose handler has not committed
          finished,    \* channel -> events whose handler has yet to acknowledge
          visits,      \* eventIds of the ShortLinkVisit rows
          owner,       \* "idle", "invalidating" or "removing"
          edits,
          faults,
          allowance,   \* grants the present maxVisits still allows
          everUnlimited \* whether the link ever was without a limit

requestVars == <<pc, snap, limited, unlimited>>
consumerVars == <<ready, chan, running, finished, visits>>
ghostVars == <<allowance, everUnlimited>>
vars == <<link, cache, stats, requestVars, consumerVars, owner, edits, faults,
          ghostVars>>

Granted == limited \cup unlimited

AllowanceOf(n) == IF n = NoLimit THEN 0 ELSE n

Init ==
    /\ \E n \in Limits :
          /\ link = [exists |-> TRUE, active |-> TRUE, maxVisits |-> n,
                     visitCount |-> 0, ver |-> 0]
          /\ allowance = AllowanceOf(n)
          /\ everUnlimited = (n = NoLimit)
    /\ cache = NoSnapshot
    /\ stats = NoKey
    /\ pc = [r \in Request |-> "new"]
    /\ snap = [r \in Request |-> NoSnapshot]
    /\ limited = {}
    /\ unlimited = {}
    /\ ready = {}
    /\ chan = [c \in Channel |-> "new"]
    /\ running = [c \in Channel |-> {}]
    /\ finished = [c \in Channel |-> {}]
    /\ visits = {}
    /\ owner = "idle"
    /\ edits = 0
    /\ faults = 0

Fault == faults < MaxFaults /\ faults' = faults + 1

GoTo(r, label) == pc' = [pc EXCEPT ![r] = label]

\* The request is answered, and the snapshot it worked with is gone.
Answer(r, label) == GoTo(r, label) /\ snap' = [snap EXCEPT ![r] = NoSnapshot]

(***************************************************************************)
(* Resolving a code                                                        *)
(***************************************************************************)
Current == [active |-> link.active, maxVisits |-> link.maxVisits,
            visitCount |-> link.visitCount, ver |-> link.ver]

HitCache(r) ==
    /\ pc[r] = "new"
    /\ cache # NoSnapshot
    /\ snap' = [snap EXCEPT ![r] = cache]
    /\ GoTo(r, "resolved")
    /\ UNCHANGED <<link, cache, stats, limited, unlimited, consumerVars, owner,
                   edits, faults, ghostVars>>

\* A miss, or a cache that is not asked or does not answer.
LoadFromDatabase(r) ==
    /\ pc[r] = "new"
    /\ IF link.exists
         THEN snap' = [snap EXCEPT ![r] = Current] /\ GoTo(r, "loaded")
         ELSE UNCHANGED snap /\ GoTo(r, "denied")
    /\ UNCHANGED <<link, cache, stats, limited, unlimited, consumerVars, owner,
                   edits, faults, ghostVars>>

\* What was loaded is cached, now or not at all, whatever happened meanwhile.
FillCache(r) ==
    /\ pc[r] = "loaded"
    /\ cache' \in {snap[r], cache}
    /\ GoTo(r, "resolved")
    /\ UNCHANGED <<link, stats, snap, limited, unlimited, consumerVars, owner,
                   edits, faults, ghostVars>>

\* assertAvailable or authorize throws.  Who may see the link is not modelled
\* here, so a request may be turned away whatever the snapshot says.
Reject(r) ==
    /\ pc[r] = "resolved"
    /\ Answer(r, "denied")
    /\ UNCHANGED <<link, cache, stats, limited, unlimited, consumerVars,
                   owner, edits, faults, ghostVars>>

\* Mutant: the UPDATE without "visitCount" < "maxVisits".
UpdateMatchesUnchecked(s) ==
    link.exists /\ link.active /\ link.ver = s.ver /\ link.maxVisits # NoLimit

\* The WHERE clause of the UPDATE.
UpdateMatches(s) ==
    /\ link.exists
    /\ link.active
    /\ link.ver = s.ver
    /\ link.maxVisits # NoLimit
    /\ link.visitCount < link.maxVisits

GrantedRow(l) == [l EXCEPT !.visitCount = l.visitCount + 1]

\* The UPDATE waits while a deletion holds the row.
AsksForLimitedVisit(r) ==
    /\ pc[r] = "resolved"
    /\ snap[r].active
    /\ snap[r].maxVisits # NoLimit
    /\ owner # "removing"

GrantLimited(r) ==
    /\ AsksForLimitedVisit(r)
    /\ UpdateMatches(snap[r])
    /\ link' = GrantedRow(link)
    /\ limited' = limited \cup {r}
    /\ allowance' = allowance - 1
    /\ Answer(r, "granted")
    /\ UNCHANGED <<cache, stats, unlimited, consumerVars, owner, edits,
                   faults, everUnlimited>>

\* No row: the cache entry is dropped, or that fails unnoticed, and the
\* request is answered with the reason.
DenyLimited(r) ==
    /\ AsksForLimitedVisit(r)
    /\ ~UpdateMatches(snap[r])
    /\ cache' \in {NoSnapshot, cache}
    /\ Answer(r, "denied")
    /\ UNCHANGED <<link, stats, limited, unlimited, consumerVars, owner,
                   edits, faults, ghostVars>>

\* Mutant: the script stores the baseline plus one and increments it as well.
IncrementedTwice(s) == IF stats = NoKey THEN s.visitCount + 2 ELSE stats + 1

\* The Lua script: a counter that does not exist starts from the snapshot.
Incremented(s) == IF stats = NoKey THEN s.visitCount + 1 ELSE stats + 1

\* Redis counts the visit, or fails and the redirect goes on.
GrantUnlimited(r) ==
    /\ pc[r] = "resolved"
    /\ snap[r].active
    /\ snap[r].maxVisits = NoLimit
    /\ stats' \in {Incremented(snap[r]), stats}
    /\ unlimited' = unlimited \cup {r}
    /\ allowance' = allowance - 1
    /\ Answer(r, "granted")
    /\ UNCHANGED <<link, cache, limited, consumerVars, owner, edits,
                   faults, everUnlimited>>

\* The event is emitted after the answer was given, and an error is logged.
Publish(r) ==
    /\ pc[r] = "granted"
    /\ ready' = ready \cup {r}
    /\ GoTo(r, "published")
    /\ UNCHANGED <<link, cache, stats, snap, limited, unlimited, chan, running,
                   finished, visits, owner, edits, faults, ghostVars>>

PublishFails(r) ==
    /\ pc[r] = "granted"
    /\ GoTo(r, "unpublished")
    /\ UNCHANGED <<link, cache, stats, snap, limited, unlimited, consumerVars,
                   owner, edits, faults, ghostVars>>

RequestStep(r) ==
    \/ HitCache(r) \/ LoadFromDatabase(r) \/ FillCache(r) \/ Reject(r)
    \/ GrantLimited(r) \/ DenyLimited(r) \/ GrantUnlimited(r)
    \/ Publish(r) \/ PublishFails(r)

(***************************************************************************)
(* The consumer                                                            *)
(***************************************************************************)
OpenChannel(c) ==
    /\ chan[c] = "new"
    /\ chan' = [chan EXCEPT ![c] = "open"]
    /\ UNCHANGED <<link, cache, stats, requestVars, ready, running, finished,
                   visits, owner, edits, faults, ghostVars>>

Deliver(c, e) ==
    /\ chan[c] = "open"
    /\ e \in ready
    /\ Cardinality(running[c] \cup finished[c]) < Prefetch
    /\ ready' = ready \ {e}
    /\ running' = [running EXCEPT ![c] = @ \cup {e}]
    /\ UNCHANGED <<link, cache, stats, requestVars, chan, finished, visits,
                   owner, edits, faults, ghostVars>>

\* Mutant: the counter is updated although the visit row is a duplicate.
CountsVisitAgain(e) == e \in unlimited /\ link.exists

\* The transaction counts an event whose visit row is new, whose flag says it
\* was not counted by the redirect, and whose link is still there.
CountsVisit(e) == e \notin visits /\ e \in unlimited /\ link.exists

\* The transaction commits: the visit row with its unique eventId and the
\* counter together.  On a duplicate it changes nothing.  Counting waits
\* while a deletion holds the link's row.
Commit(e) ==
    /\ CountsVisit(e) => owner # "removing"
    /\ visits' = visits \cup {e}
    /\ link' = IF CountsVisit(e) THEN [link EXCEPT !.visitCount = link.visitCount + 1]
                                 ELSE link

\* Mutant: a duplicate is ignored and not acknowledged.
ForgetsDuplicates(c, e) ==
    /\ e \in running[c] /\ e \notin visits
    /\ Commit(e)
    /\ running' = [running EXCEPT ![c] = @ \ {e}]
    /\ finished' = [finished EXCEPT ![c] = @ \cup {e}]
    /\ UNCHANGED <<cache, stats, requestVars, ready, chan, owner, edits, faults,
                   ghostVars>>

\* Processed or found to be a duplicate, the event will be acknowledged.
ProcessEvent(c, e) ==
    /\ e \in running[c]
    /\ Commit(e)
    /\ running' = [running EXCEPT ![c] = @ \ {e}]
    /\ finished' = [finished EXCEPT ![c] = @ \cup {e}]
    /\ UNCHANGED <<cache, stats, requestVars, ready, chan, owner, edits, faults,
                   ghostVars>>

\* Any other error: nack with requeue.  The transaction may have committed
\* all the same, if it was its reply that got lost.
ProcessingFails(c, e) ==
    /\ e \in running[c]
    /\ Fault
    /\ \/ Commit(e)
       \/ UNCHANGED <<visits, link>>
    /\ running' = [running EXCEPT ![c] = @ \ {e}]
    /\ ready' = IF chan[c] = "open" THEN ready \cup {e} ELSE ready
    /\ UNCHANGED <<cache, stats, requestVars, chan, finished, owner, edits,
                   ghostVars>>

\* On a lost channel the acknowledgement reaches nobody.
Ack(c, e) ==
    /\ e \in finished[c]
    /\ finished' = [finished EXCEPT ![c] = @ \ {e}]
    /\ UNCHANGED <<link, cache, stats, requestVars, ready, chan, running, visits,
                   owner, edits, faults, ghostVars>>

\* What the broker hands out again when a channel closes.
Unacknowledged(c) == IF chan[c] = "open" THEN running[c] \cup finished[c] ELSE {}

\* The connection breaks; the handlers that run go on, and redelivered
\* events may be processed a second time beside them.
ChannelLost(c) ==
    /\ chan[c] = "open"
    /\ Fault
    /\ ready' = ready \cup Unacknowledged(c)
    /\ chan' = [chan EXCEPT ![c] = "lost"]
    /\ UNCHANGED <<link, cache, stats, requestVars, running, finished, visits,
                   owner, edits, ghostVars>>

\* The process dies, for instance between commit and acknowledgement
\* (SIMULATE_CRASH_AFTER_COMMIT).
ConsumerCrash(c) ==
    /\ chan[c] \in {"open", "lost"}
    /\ Fault
    /\ ready' = ready \cup Unacknowledged(c)
    /\ chan' = [chan EXCEPT ![c] = "gone"]
    /\ running' = [running EXCEPT ![c] = {}]
    /\ finished' = [finished EXCEPT ![c] = {}]
    /\ UNCHANGED <<link, cache, stats, requestVars, visits, owner, edits, ghostVars>>

(***************************************************************************)
(* The link's owner, and time                                              *)
(***************************************************************************)
\* Edits may overlap; a deletion under way holds the row.  The invalidation
\* of an edit that another one overtakes is left to CacheEmptied.
Edit ==
    /\ owner # "removing"
    /\ link.exists
    /\ edits < MaxEdits
    /\ edits' = edits + 1

\* update commits; the invalidation follows the transaction.
Update(n, a) ==
    /\ Edit
    /\ link' = [link EXCEPT !.maxVisits = n, !.active = a]
    /\ allowance' = IF n = link.maxVisits THEN allowance
                    ELSE IF n = NoLimit \/ n < link.visitCount THEN 0
                    ELSE n - link.visitCount
    /\ everUnlimited' = (everUnlimited \/ n = NoLimit)
    /\ owner' = "invalidating"
    /\ UNCHANGED <<cache, stats, requestVars, consumerVars, faults>>

\* setAccess commits a new accessVersion.  (The invalidation it does first is
\* one of the entries CacheEmptied drops.)
SetAccess ==
    /\ Edit
    /\ link' = [link EXCEPT !.ver = link.ver + 1]
    /\ owner' = "invalidating"
    /\ UNCHANGED <<cache, stats, requestVars, consumerVars, faults, ghostVars>>

\* redirect-cache's invalidate swallows its errors.
Invalidate ==
    /\ owner = "invalidating"
    /\ cache' \in {NoSnapshot, cache}
    /\ owner' = "idle"
    /\ UNCHANGED <<link, stats, requestVars, consumerVars, edits, faults, ghostVars>>

\* remove deletes the row in a transaction and clears the cache and the
\* counter before that transaction commits.
RemoveBegin ==
    /\ Edit
    /\ cache' \in {NoSnapshot, cache}
    /\ stats' \in {NoKey, stats}
    /\ owner' = "removing"
    /\ UNCHANGED <<link, requestVars, consumerVars, faults, ghostVars>>

RemoveEnd ==
    /\ owner = "removing"
    /\ \/ link' = [link EXCEPT !.exists = FALSE]    \* commit
       \/ link' = link                              \* rollback
    /\ owner' = "idle"
    /\ UNCHANGED <<cache, stats, requestVars, consumerVars, edits, faults, ghostVars>>

CacheEmptied ==
    /\ cache' = NoSnapshot
    /\ UNCHANGED <<link, stats, requestVars, consumerVars, owner, edits, faults,
                   ghostVars>>

\* A Redis failover loses the counter, which has no expiry of its own.
StatsLost ==
    /\ stats' = NoKey
    /\ UNCHANGED <<link, cache, requestVars, consumerVars, owner, edits, faults,
                   ghostVars>>

OwnerStep ==
    \/ \E n \in Limits, a \in BOOLEAN : Update(n, a)
    \/ SetAccess \/ Invalidate \/ RemoveBegin \/ RemoveEnd

ConsumerStep(c, e) ==
    \/ Deliver(c, e) \/ ProcessEvent(c, e) \/ ProcessingFails(c, e) \/ Ack(c, e)

Next ==
    \/ \E r \in Request : RequestStep(r)
    \/ \E c \in Channel : \/ OpenChannel(c) \/ ChannelLost(c) \/ ConsumerCrash(c)
                          \/ \E e \in Request : ConsumerStep(c, e)
    \/ OwnerStep
    \/ CacheEmptied
    \/ StatsLost

Spec == Init /\ [][Next]_vars

\* The consumer is kept running, its handlers end, and a deletion commits or
\* rolls back.  Nothing makes a visitor go on or an owner edit.
Fairness ==
    /\ \A c \in Channel : WF_vars(OpenChannel(c))
    /\ \A c \in Channel, e \in Request :
          /\ WF_vars(Deliver(c, e))
          /\ WF_vars(ProcessEvent(c, e))
          /\ WF_vars(Ack(c, e))
    /\ WF_vars(RemoveEnd)

FairSpec == Spec /\ Fairness

(***************************************************************************)
(* Properties                                                              *)
(***************************************************************************)
TypeOK ==
    /\ link \in LinkRow
    /\ cache \in Snapshot \cup {NoSnapshot}
    /\ stats \in Nat \cup {NoKey}
    /\ pc \in [Request -> {"new", "loaded", "resolved", "granted", "published",
                           "unpublished", "denied"}]
    /\ snap \in [Request -> Snapshot \cup {NoSnapshot}]
    /\ \A r \in Request : pc[r] \in {"loaded", "resolved"} => snap[r] \in Snapshot
    /\ limited \in SUBSET Request
    /\ unlimited \in SUBSET Request
    /\ ready \in SUBSET Request
    /\ chan \in [Channel -> {"new", "open", "lost", "gone"}]
    /\ running \in [Channel -> SUBSET Request]
    /\ finished \in [Channel -> SUBSET Request]
    /\ visits \in SUBSET Request
    /\ owner \in {"idle", "invalidating", "removing"}
    /\ edits \in 0..MaxEdits
    /\ faults \in 0..MaxFaults
    /\ allowance \in Int
    /\ everUnlimited \in BOOLEAN

\* The counter of a link is the number of visits granted by the limiting
\* UPDATE plus the number of other visits whose event was processed: no visit
\* is counted twice, whichever path it took, however often its event is
\* delivered, and whatever the limit was when it was granted.
CountExact ==
    link.exists => link.visitCount = Cardinality(limited)
                                        + Cardinality(visits \cap unlimited)

\* A published event is never dropped before its visit is stored: the queue
\* has it, or a handler that has not acknowledged it.
NoEventDropped ==
    \A r \in Request : pc[r] = "published" =>
        \/ r \in visits
        \/ r \in ready
        \/ \E c \in Channel : chan[c] = "open" /\ r \in running[c]

\* A link that always had a limit is never visited more often than its
\* present limit allowed when it was set, whatever requests and edits race.
LimitedFromTheStart ==
    ~everUnlimited => allowance >= 0

\* The Redis counter never shows more visits than were granted.
StatsNeverAhead ==
    stats # NoKey => stats <= Cardinality(Granted)

\* The counter shows all that was granted, but for visits that are not stored yet.
CountsStored == link.visitCount >= Cardinality(limited) + Cardinality(visits \cap unlimited)

\* Every published event is stored in the end, and counted if its link is still there,
\* though channels are lost and full ones take no more until they have acknowledged
\* what they hold (processEvent, prefetchCount).
EventuallyStored ==
    \A r \in Request :
        (pc[r] = "published") ~> (r \in visits /\ (link.exists => CountsStored))
=============================================================================
