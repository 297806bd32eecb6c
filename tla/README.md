# A verification of nest-shortlink-platform

TLA+ modules of the short-link platform in `src/`, the TLC instances that check them, and the
theorems about them that TLAPS proves. Paths below are relative to the repository, so that
`src/redirects` is the service's code and `prisma/schema.prisma` its tables.

1. [The system](#1-the-system)
2. [The modules and the code](#2-the-modules-and-the-code)
3. [What is checked](#3-what-is-checked)
4. [Bounds and fairness](#4-bounds-and-fairness)
5. [What is proved](#5-what-is-proved)
6. [Disagreements with the repository's own words](#6-disagreements-with-the-repositorys-own-words)
7. [What is not modelled](#7-what-is-not-modelled)
8. [Plan](#8-plan)

## 1. The system

Any number of API processes (NestJS) share PostgreSQL, a Redis cluster and RabbitMQ with two
kinds of worker processes. A visitor's `GET /:code` resolves the code through a Bloom filter, a
circuit breaker and two cache layers, is authorised, counted and redirected; its visit is
published as an event that the analytics worker stores. Owners edit their links and record
domain events in an outbox that the relay worker publishes.

| component | state | operations | talks to | what is hard | what makes it correct |
|---|---|---|---|---|---|
| Outbox relay (`src/outbox-worker`) | `OutboxEvent` rows, each process's batch | claim a batch by lease, publish with confirm, mark published, retry with backoff, give up | database, RabbitMQ | overrun leases, crashes between confirm and update, lost confirms | leases fence stale processes, a settled row stays settled, PUBLISHED only after the broker has it, nothing recorded is forgotten |
| Redirects (`src/redirects`) | the snapshot a request works with | resolve, authorise, count, publish the visit | caches, database, RabbitMQ | decisions on outdated snapshots | limits are kept, visitors are authorised under the policy applied |
| Analytics worker (`src/analytics-worker`) | `ShortLinkVisit` rows, `visitCount` | consume, store, count, ack, requeue | database, RabbitMQ | redelivery, failures, deleted links | each visit is counted once, no delivered event is dropped |
| Circuit breaker (`src/cache/cache-circuit-breaker.service.ts`) | state, failure count, cooldown, probe slot | acquire, report success or failure | the calls of getOrLoad | reports that arrive in a later period | one probe at a time, cooldown is not extended, Redis is asked again |
| Resolve cache (`src/cache`, `src/redis`) | L1 per process, L2 and rebuild lock in Redis | resolve, rebuild, wait, fill, invalidate | database, Redis | rebuilds racing with edits, expiring locks | one rebuild, no overwriting, freshness in the end |
| Bloom filter (`src/cache/short-link-bloom*`) | buckets in Redis, ready flag per process | bootstrap, add, test | database, Redis | creation during bootstrap, lost keys, failed adds | an existing link is not hidden |
| Link management (`src/short-links`) | `ShortLink` rows | create, update, remove | caches, filter, audit outbox | concurrent changes of one link, colliding codes, lost replies | an answer is true, no change is made twice |
| Link sharing (`src/short-links/short-link-sharing.service.ts`) | visibility, password, `accessVersion`; share tokens | setAccess, unlock, grantUser, revokeUser | redirects, caches | checks on outdated rows and snapshots | no token opens a policy with another password |
| Auth sessions (`src/auth`) | `AuthSession` rows, signed tokens | login, refresh, guard, logout, logoutAll | database | concurrent refreshes, revocation under way | one successor per token, revocation holds |
| Rate limiting (`src/rate-limit`) | counters, sorted sets and buckets in Redis | three scripts, the guard with its failure modes | Redis | boundaries in time, expiry of keys, failing Redis | no stretch of time admits more than its bound |
| Workspaces and roles (`src/workspaces`, `src/authorization`, `scripts/seed-rbac.ts`) | members, their roles, the roles' permissions | create, remove, addMember, assignRole, removeMember; the permission guard; the seed script | database | rights that change between the guard's queries and the statement | nothing is done in a workspace but by a right held there |
| Audit outbox (`src/audit`) | `AuditLog` and `OutboxEvent` rows | record in the caller's transaction | link management, database | a failure anywhere in the transaction, a removal racing an update | the log tells the history of each link, every row is announced |
| Analytics queries (`src/analytics`) | none of its own | overview of a workspace, analytics of a link | `ShortLinkVisit`, `ShortLink` | six queries without a transaction, ranges, time zones | the parts agree, ranges that meet add up |

Interaction is by shared tables (every component), by shared Redis keys (cache, filter, limiter),
by messages (outbox relay to RabbitMQ; redirects to the analytics worker) and by calls (redirects
to the cache, the cache to the breaker). No component calls back into another.

## 2. The modules and the code

Every definition that stands for code is listed in `PROJECT.json` under `map` with its lines.
Each module has one action for each step between two `await`s that matter, that is, for each
database statement or transaction, each Redis command or script and each message; what the code
does between two of them is part of the action. Database statements and Redis scripts are atomic
(the servers make them so). A failing call of a server may have taken effect or not.

**OutboxRelay** (with the abstract **OutboxDelivery**). `row` is the table, `batch` and `cur` are
what a process remembers of the rows it leased, `stage` is its place in `publishOne`, `inflight`
and `queue` are the broker's. The SQL looks at time in two tests only, "due" and "lease over", so
they are flags that time sets. The claim's `SKIP LOCKED` batches are `Lease`. OutboxDelivery is
what the code that records events may rely on: waiting, then published or dead for good, published
only after delivery, delivery possibly repeated and late.

**VisitCounting.** One link, the redirects that race on it, its events and the consumer. A request
resolves (from the cache or the row), is granted by the `UPDATE` of `resolveLimited` or without
it, increments the Redis counter and publishes. A channel stands for one consumer connection; it
hands out up to `Prefetch` unacknowledged events, and what it held goes back to the queue when it
is lost, also after the commit. The owner sets and lifts the limit, disables and removes the link.

**CircuitBreaker.** One process's breaker and its overlapping calls. A call keeps its permit while
the breaker moves on, and reports into whatever state it finds.

**ResolveCache.** Readers and writers of one code in several processes. A reader's label `pc` is
the Redis or database call it is about to make; a value is the version of the row. The writers
are create, update, setAccess and remove with their own order of write and invalidation
(`NextPhase`). A reader whose lock expired under it is remembered in `overran`.

**BloomFilter.** A bucket is the set of codes added to it. The bootstrap pages by the id of the
last row, so codes are numbered in that order; links are created and deleted meanwhile. A process
reserves its buckets, lists and adds page by page, and is ready in the end.

**AuthSession.** A refresh token is its session, version and time of signing. The rotation is a
compare-and-set on the hash, and `step` tells how far a request is between verification, signing
and that statement.

**AdmissionBound** (abstract), **FixedWindow**, **SlidingWindow**, **TokenBucket**, **RateLimitGuard**,
**RateLimits.** AdmissionBound says of one key that no stretch of time takes more than `Allowed` for
its length; each script implements it with its own `Allowed`: the limit for each window a stretch
meets for the fixed window (requests gather around the boundary), the limit for each length of a
window for the sliding window, a full bucket and the refill for the token bucket. The guard is then
modelled over any limiter that implements it. A member of SlidingWindow's sorted set is numbered by
its admission, and its score is the client's clock. RateLimits puts the four side by side, each with
variables of its own, and `LimitersSuitTheGuard` says that the `Allowed` of all three are such as the
guard takes.

**LinkAccess.** The policy columns of one link, changed by setAccess (which reads, hashes and
writes in two steps) and by update (which changes the visibility or the limit and leaves the
version), unlock with its read, verification and signing, and a visit that is authorised by a
snapshot. `passwords` and the `knew` of a token are remembered for the properties only.

**Workspaces.** `member` is `WorkspaceMember` with its roles, `grants` is `RolePermission`. A request
goes through the three queries of `getWorkspaceAccess` (membership, roles, permissions), is then
admitted for as long as it likes, and acts once: on members, on links or on shares, with the rights
it has read. Users are removed and the seed script replaces permissions meanwhile. `had` and `kept`
remember what the request's user has held at some time and all the time, for the properties only.
What an operation reads of columns that never change is read in the action of its statement.

**LinkChanges** (with **OutboxDelivery**). The interactive transactions of update and remove,
statement by statement, with the row lock they take and the unique index create runs into. Every
statement can fail, and the reply to a commit can be lost. A commit writes its event whatever the
outbox holds (`Recorded`); the relay's steps alone are those of an INSTANCE of OutboxDelivery, which
OutboxRelay implements. That both together keep to OutboxDelivery is a property (`RecordsOnce`).

**Analytics.** The range of a query, its half-open WHERE clause, and the queries that `Promise.all`
runs side by side while visits are stored and links removed. Devices, browsers and referers differ
in what they group by and are one query here. A zone is its offset from UTC. What a list claims in
all is counted as a set of numbered items (`Total`), which is the sum of its entries.

Modules that stand for one another's detail: the single cache entry of VisitCounting and
LinkAccess is a looser version of ResolveCache's layers (it may hold any snapshot that was loaded,
and be lost at any time); OutboxRelay's recorded events are those of LinkChanges;
RateLimitGuard is composed with AdmissionBound in place of the three limiters.

## 3. What is checked

Every run is a module, a `.cfg` and a list of properties in `PROJECT.json` (`tlc -config X.cfg M`).
The modules carry their *mutants*, variants of a definition with a plausible bug (a dropped guard,
an off-by-one, a missing reset), next to the original; for each property of a passing run the
mutant that `PROJECT.json` names makes TLC find it violated, so the property depends on that code.

| run | what it shows |
|---|---|
| `outbox_relay` | Two processes with crashes, shutdowns, lost replies and confirms, overrun leases. A claim that is remembered and still named by its row is the latest lease (`FencedClaims`), attempts beyond the limit are paid for by faults (`AttemptsAccounted`), only the latest lease settles (`LeaseRespected`), the relay implements OutboxDelivery (`ImplementsDelivery`), and with one surviving process every recorded event is settled (`EveryEventSettles`). |
| `visit_counting` | `visitCount` is exactly the limited grants plus the other visits processed (`CountExact`), a link limited from the start never exceeds its limit, the Redis counter never runs ahead, and every published event is stored in the end, and counted if its link is still there (`EventuallyStored`). The prefetch is one, so that a single event that is neither acknowledged nor requeued, a duplicate or a failure, stalls its channel. |
| `circuit_breaker` | Half-open means one probe in flight, late failures do not put off the end of a cooldown, and while the database answers an open circuit is probed again and decided (`AsksRedisAgain`). |
| `resolve_cache` | Two rebuilds at once only past an expired lock; without one no entry is overwritten; every call returns, and after the last edit all layers become fresh. |
| `bloom_filter` | A link its creator knows of is hidden only because another process failed to add it, its bucket was lost, or the process's listing was cut short by the deletion of its cursor row. |
| `auth_session` | A refresh token has at most one successor, the client keeps the newest token unless an answer was lost, revocation is final, no session outlives its user. |
| `rate_limits` | Each of the three scripts implements AdmissionBound and answers a Retry-After after which the client is admitted (unless others were quicker). A closed endpoint keeps the limiter's bound whatever Redis does, an open one exceeds it by at most one per failing call. |
| `link_access` | Who is let in to a password link has proved to know the password of the policy that was applied; a link that lost its hash stays shut; a limited visit is granted under the version in force only. |
| `workspaces` | Memberships, roles, links and shares change only by a right their requester held in that very workspace while the request was under way (`MembersByRight`, `LinksByRight`), though members are removed, roles given and permissions reseeded between any two queries; a right held all along is found (`RightsAreSeen`). |
| `link_changes` | The audit log has one row for each committed update and removal of a link, in their order and none after the removal, each with its outbox event (`AuditTellsTheHistory`); a caller is told the truth, and an error leaves at most one change behind (`AnswersAreTrue`); each event is recorded once, and not again over one the relay has settled (`RecordsOnce`); all calls end, and what was committed is announced or given up by the relay (`EverythingSettles`). |
| `analytics` | The parts of an answer count all that was there when it was asked for and nothing that is not there when it is given, no list claims more, cut off or not, and they agree if nothing changed meanwhile (`PartsAgree`); two ranges that meet count each visit once (`AdjacentRangesAddUp`). |

`rate_limits` runs four independent models side by side: the one that moves is chosen in the
initial state. `WindowsImplementBound` and `WindowsRetryAfterSuffices` are the
conjunctions of the models' own properties. The invariants that the proofs rest on were checked on
the same instances before they were proved. Safety and liveness of a module are checked in one
run, whose specification includes the fairness.

Some properties are stated and proved (section 5) for every instance, and are in no run:
`LockMatchesStatus`, `PublishedByLastAttempt`, `SettledIsFinal`, `NoEventDropped`,
`ClosedBelowThreshold`, `HalfOpenLetsNobodyIn`, `RowOutlivesTokens`, `LimitersSuitTheGuard`,
`AnnouncedWasCommitted`, and the type invariants of the modules with proofs, of which that of
Workspaces also says that no membership, link or share refers to a user or workspace that is gone.

One more run ends in a violation: see section 6.

## 4. Bounds and fairness

Every counter that would grow without end is bounded by a named constant, and so are faults.

* *Outbox*: two processes, two events, batches of two, `MaxAttempts = 1`, one fault. Two
  processes suffice for a stale and a fresh lease of one row (a lease overruns without a fault),
  two events for a batch that is left half done. The theorems cover all other values.
* *Visits*: two visits, two channels, a limit of 1, one edit, one fault: the limit is reached and
  a second request meets it, an event is delivered on both channels, and the edit falls into any
  gap. With a prefetch of one an event fills its channel: the fault takes the other channel, and an
  event that is never acknowledged keeps the second one from being stored. Handlers still run side
  by side, on the two channels and beside a lost one.
* *Breaker*: three calls (a probe, a late one and a normal one), threshold and cooldown of two.
* *Cache*: two processes with a reader each and one writer, two versions, one fault. A stale value
  needs one reader and one writer, a second rebuild two readers.
* *Bloom*: two processes, three codes in two buckets, pages of one, two faults, one lost bucket,
  one deletion. Pages of one make every code a cursor.
* *Sessions*: two sessions, two requests, three ticks, lifetimes of one and two ticks, two
  rotations: every order of verification, signing, rotation, expiry and revocation of a pair.
* *Rate limits*: clocks long enough for three windows or two refills; Redis time in units finer
  than the answer where rounding matters; `MaxBack` bounds how far the clock is set back.
* *Sharing*: three versions of the policy and two editors are what the race needs in which a
  PASSWORD link loses its hash (set a password; decide to keep it; clear it; write). Two
  passwords tell a token's password from the link's. One visit is enough, as the cached snapshot
  may be any that was ever loaded. PUBLIC stands for the three visibilities without a password.
* *Workspaces*: two users, workspaces, members and requests, one link, one run of the seed script:
  two requests that change each other's rights, in one workspace or in two. A third member would
  only be a second bystander; the theorems cover all numbers.
* *Link changes*: three calls on the link that is there at first or on new ones, two codes and two
  attempts: two changes and a removal race on one link, creations collide until the attempts run
  out, and a removal frees a code.
* *Analytics*: two visits of three links in two workspaces, four hours in days of two, lists of one
  entry, so that lists of two visitors or links are cut off and those of one are not; six queries that differ in scope, range, granularity and zone (one of them is refused
  for its range, one for its link).

Symmetry is used where the members of a set are interchangeable and no liveness is checked
(`bloom_filter`, `auth_session`, `link_access`, `workspaces`, `analytics`).
`CHECK_DEADLOCK FALSE` is set where the bounds let the model stop: clocks, edits, faults and events
run out. No property depends on it.

Fairness is weak throughout and is assumed of our processes only:

* *Outbox*: a process that is deployed starts and keeps taking steps (the run loop polls forever),
  backoff and leases elapse. Nothing makes the broker accept a message: `MaxAttempts` ends that.
* *Visits*: consumers are restarted, deliver, process and acknowledge; a removal commits or rolls
  back. No visitor and no owner is made to act.
* *Breaker*: time passes, calls end because every client has a timeout, and requests arrive.
* *Cache*: calls that began go on, waiting for a lock ends after its retries, entries and locks
  expire. Nobody is made to begin a call.
* *Link changes*: a call that is under way goes on unless it waits for a lock, and the relay settles
  what is recorded, which `EveryEventSettles` shows of OutboxRelay. No request has to come in.

## 5. What is proved

Eight `*Proofs` modules hold theorems for every value of the constants, from the assumptions named
in the modules (numbers are numbers, the null values are not members of the sets they stand
beside). All of them are listed in `PROJECT.json` under `theorems`.

* **OutboxRelayProofs**: types; `LockMatchesStatus`; `FencedClaims`; `PublishedByLastAttempt`
  (strengthened to `PublicationInv`: a claim about to be marked has its confirm);
  `AttemptsAccounted` (from `BudgetInv`, which balances each event's attempts against those still
  held by a process and the faults that lost one); `SettledIsFinal`; `LeaseRespected`; and that the
  relay implements OutboxDelivery, by mapping every step to one of its actions or a stutter.
  `FencedClaims` is what makes the others inductive: the attempt number a process remembers is
  the row's as long as the row names the process, so `lockedBy` alone fences stale leases.
  `EventsDrawNearTheirEnd`: each change of a row lowers `ChangesLeft`, so that no event is claimed,
  failed and taken over for ever.
* **VisitsProofs**, of counting: types, `CountExact`, `NoEventDropped`, `LimitedFromTheStart`,
  `StatsNeverAhead`. `PathInv` says which of the two ways of counting a request is on, so that an
  event that was counted by the `UPDATE` is never counted again by the consumer; `LimitInv` ties
  what the limit still allows to counter and grants; `SeenInv` bounds every snapshot's count.
  `OverlapIsPaidFor`: two handlers have one event at once only after a channel was lost (`LiveInv`: an
  event is with the broker or with one open channel), at most one more than there were faults. Of the
  analytics: types, `AdjacentRangesAddUp` (the ranges are half-open) and `PartsAgree`. `TrueOnce` says
  that each part that has been read is what its query gives on some set of visits between those that
  matched when the request came in and those that match now, and is what it gives now if nothing has
  changed, and that the list of links, whose rows may go, claims no more than match now (`TopLinksCount`);
  it is inductive as a visit is never changed or removed (`CountsStand`). That the groups of
  a query add up to what was grouped (`GroupsCountOnce`) follows from a bijection, not by induction.
* **RedisGuardsProofs**, of the breaker: types, `HalfOpenIsProbing`, `HalfOpenLetsNobodyIn`,
  `CooldownNotExtended`, `ClosedBelowThreshold`. Of the Bloom filter: types and `HiddenForAReason`.
  `NothingMissed` says of every link a process has listed already that it is in the filter, in the
  page at hand, or excused by one of the three reasons; a page is an initial segment of what lies
  behind the cursor (`PageIsInitial`, from the ORDER BY), so that the next cursor passes nothing
  by. `BootInOrder` is what makes it inductive: until the buckets are reserved the cursor has not
  moved, and while a page is looked for none is at hand.
* **ResolveCacheProofs**: types, `SingleRebuilder` from `LockInv` (a rebuilding reader holds the
  lock unless it expired under it), `FillsOnlyEmpty` from `GapInv` (between a reader's second look
  and its fill nothing else is filled in, as long as no rebuild outlived its lock). What is held
  anywhere was held before or read from the row (`ReadersCopy`, `OthersOnlyForget`), and versions are
  new (`VersionsAreNew`); so an old version that has vanished never comes back, and stale values
  can only expire once the edits stop (`OldVersionsStayGone`).
* **AuthSessionProofs**: types and the five safety properties. `SessionInv` has three parts, on
  requests, on tokens that were just signed and on rows; `StoreStep` shows that the row's hash
  changes only by a login or a rotation of its present token, `QuietSteps` that all else
  leaves it alone.
* **RateLimitsProofs**: each script implements AdmissionBound, and its Retry-After is long enough.
  *Token bucket*: one inequality for every stretch that ends now (`Covered`): what it took plus what
  the bucket would still give is no more than a full bucket and the stretch's refill;
  `LivesLongEnough` says that the key is forgotten only when the bucket is full again. *Fixed window*:
  what was admitted since the counter's window began is the counter's (`FCurrent`), and an earlier
  stretch took no more than the limit for each window it met (`FEarlier`); a stretch that ends now is
  split where the window began. *Sliding window*: admissions are numbered, so the members are those
  admitted less than a window ago, as numbers and scores grow together (`SKept`; the key outlives
  them by `SFresh`), and no more than the limit (`SFew`); every stretch is split a window before its
  end (`SPast`). *Guard*: those that got through are no more than what the limiter has admitted and,
  for an open endpoint, the calls that failed (`GExcess`).
* **ShortLinksProofs**, of sharing: types, `PasswordWasProved`, `StaysShut`, `LimitedFollowsPolicy`.
  `AccessInv` has three parts: no snapshot is of a version yet to come (`SnapshotsArePast`); the
  row, what unlock has read of it and every token agree with the password their version was set
  with (`VersionsAgree`); who was let in to a password link has shown a token of the snapshot's
  version (`TokenWasShown`). The properties follow, as the password of a past version no longer
  changes (`PastStays`). Of link changes: types,
  `AuditTellsTheHistory`, `AnswersAreTrue`. A transaction that has changed a row has locked it since
  before it took `occurredAt` (`CallsInOrder`), and no two transactions hold one row
  (`LocksExclude`): so the changes of a link commit in the order of their times (`TimesInOrder`), a
  removal is the last (`HistoryEnds`), and each committed change has written its row of the log in
  its transaction (`AuditMatches`). An answer is true because a call makes at most one change and an
  attempt that found its code taken has made none (`ChangesOnce`). The changes and the relay
  implement OutboxDelivery together (`OutboxIsKept`): a commit does not look whether its event is there,
  but a call whose event is recorded has committed and does not commit again (`RecordedByCommit`).
  So nothing is announced but what was committed (`AnnouncedWasCommitted`). Nobody waits for a waiter
  (`LockHoldersGoOn`: who has locked a row is past the only statement that waits), and a call only
  comes nearer to its end (`CallsDrawNearTheirEnd`).
* **WorkspacesProofs**: types with the references between tables, `MembersByRight`, `LinksByRight`,
  `RightsAreSeen`. `ReadInv` says that what a request has read its user has held since it began
  (`HadTells`), which needs that the membership it is about to read is its user's or gone
  (`MidIsMine`), as a membership never becomes anybody else's (`MemberStays`), and that the seed
  script gives no more than it defines (`GrantsDefined`). For `RightsAreSeen`, a user is a member
  once (`MemberOnce`), so that the roles of the membership found are all there is to keep
  (`KeptIsRead`).

Every invariant, action property and refinement that a run checks is proved. Model-checked only is
all liveness (`EveryEventSettles`, `EventuallyStored`, `AsksRedisAgain`, `EventuallyFresh`,
`EveryCallReturns`, `EverythingSettles`): fairness and ENABLED are out of the prover's reach. What
three of them rest on is proved, though no run names it: the two variants (`EventsDrawNearTheirEnd`,
`CallsDrawNearTheirEnd`) with the absence of deadlock among changes, and that staleness has no source
but an edit (`OldVersionsStayGone`). TLC found these formulas to hold on the runs' instances before they
were proved. The relay's variant begins with MaxFaults, a bound of the model: it speaks of any
number of faults, but of finitely many. And that
`Total` is the sum of the entries is seen from its definition and not proved, as a sum over a set is
defined by recursion.

## 6. Disagreements with the repository's own words

One is a run with a property that states what a comment says, and TLC shows the behaviour of the
code that contradicts it (`findings` in `PROJECT.json` quotes the lines).

* `half_open_ends`: when the database loader of the probe fails, nobody reports to the breaker: it
  stays half-open with the slot taken, and every later call bypasses Redis.

Observations the models contain and no run singles out:

* A limit set on a link that had none is exceeded by requests that resolved an older snapshot,
  because the snapshot decides whether the limit is enforced. `LimitedFromTheStart` therefore
  speaks of links that were limited from their creation.
* A call from before the circuit opened that succeeds late closes it, and Redis is used during the
  cooldown.
* After a failed `BF.ADD` only the process whose add failed falls back; the others hide the link.
  `HiddenForAReason` names this case.
* create and update accept visibility PASSWORD without a password (such a link stays shut,
  `StaysShut`), and the rows that grantUser writes are read by no other code, so that a grant has
  no effect on a visit.
* The second invalidation of setAccess does not prevent the refill with the old snapshot by a
  reader that loaded it before; the entry's lifetime ends that (`EventuallyFresh`).
* A lost bucket of the Bloom filter is created again by the next add with that code alone, and every
  other link of the bucket is hidden until a process is started again.
* update changes the visibility without a new `accessVersion`, so that a snapshot of the version in
  force may show the policy that was replaced. `LimitedFollowsPolicy` speaks of versions therefore.
* A request acts by rights that were taken away since the guard has read them. `MembersByRight`
  therefore asks for a right held at some time while the request was under way.
* `removeMember` does not look at roles: the last owner of a workspace can be removed, by an
  administrator too. Nothing in the repository says otherwise.
* The seed script empties a role's permissions before it creates them anew, without a transaction.
  Requests in between are refused; `RightsAreSeen` excepts them. If the script fails there, they
  stay refused until it is run again.
* `WorkspacesService.create` returns its transaction without awaiting it, so that the catch around
  it, which turns a duplicate slug into 409, never runs.
* An update that loses the race with a removal ends in an error where a removal that loses answers
  404. Deleting a workspace removes its links without an audit row and without invalidating caches;
  create, setAccess and the grants record nothing either.
* `visitedAt` is a timestamp without a zone, and `AT TIME ZONE` takes such a value for local time:
  the buckets of the series are shifted against the zone asked for (`Bucket`). And a query by the
  hour without `from` is always refused, as the default of thirty days exceeds the seven allowed.

## 7. What is not modelled

* False positives of the Bloom filter (they cost a lookup), the floating point of the token
  bucket, a clock that is set while the breaker cools down, and an event that fails for ever: the
  failures of a run are bounded.
* redirect() first asks for the visibility by a resolution of its own and sends a visitor who is
  not logged in to another page; its second resolution is the one modelled. What is decided on the
  first has no effect but that page.
* Audit queries (one read-only query each), metrics, tracing, health, performance endpoints (nothing
  reads them back), wiring and deployment, the Snowflake and Base62 generators (not used by any
  other file), registration of users (one insert).
* The global PermissionGuard and what only serves it (`getAccess`, `hasAllPermissions`, the roles of
  users): it is commented out in `app.module.ts`, so that it guards nothing.
* Several hosts' clocks: the `occurredAt` of audit rows is modelled as one clock, which orders the
  rows of a link only as well as the hosts' clocks agree.
* The HTTP layer, validation of input, formats of messages and tokens: data no property tells apart.

## 8. Plan

Done, in this order: OutboxRelay and OutboxDelivery, VisitCounting, CircuitBreaker, ResolveCache,
BloomFilter, AuthSession, the rate limiters and their guard, LinkAccess, Workspaces, LinkChanges
composed with OutboxDelivery, Analytics.

Left:

1. *Proofs*: what `EventuallyStored` rests on besides `EventsAreKept` (a channel's prefetch is not
   used up by events nobody handles any more). TLC checks it in `visit_counting`.
2. *RedirectPath*: the composition of CircuitBreaker, ResolveCache and BloomFilter in `resolve`,
   with what each assumes of the next, and the bound on how long a visitor sees an old policy.
3. *UserAdmission*: failed logins counted by the fixed window with its clear on success.
