------------------------------ MODULE BloomFilter ------------------------------
(***************************************************************************)
(* The Bloom filter of short codes: buckets in Redis that all API          *)
(* processes share, a ready flag in each process, the bootstrap that       *)
(* loads the filter page by page, and the creation of links                *)
(* (src/cache/short-link-bloom*.service.ts, create in src/short-links).    *)
(*                                                                         *)
(* A code is a number: its place in the order of the link ids the          *)
(* bootstrap pages through.  A bucket is the set of the codes added to it; *)
(* that a Bloom filter may also say yes to others does no harm, and is     *)
(* left out.  A process that is not ready takes every code for existing.   *)
(***************************************************************************)
EXTENDS Integers, FiniteSets, FiniteSetsExt

CONSTANTS Process,
          Code,
          Bucket, BucketOf,   \* code -> its bucket
          BatchSize,          \* links per page
          MaxFaults,          \* bound on failing calls and restarts
          MaxLosses,          \* bound on bucket keys lost by Redis
          MaxDeletes          \* bound on deleted links

ASSUME BloomAssumption ==
    /\ Code \subseteq Nat \ {0}
    /\ IsFiniteSet(Code)
    /\ BucketOf \in [Code -> Bucket]
    /\ BatchSize \in Nat \ {0}
    /\ MaxFaults \in Nat /\ MaxLosses \in Nat /\ MaxDeletes \in Nat

VARIABLES links,      \* codes whose row is committed
          present,    \* buckets whose key exists
          bucket,     \* bucket -> the codes added to it
          ready,      \* process -> its ready flag
          pc,         \* process -> "reserving", "listing", "adding" or "serving"
          cursor,     \* process -> the last code it listed, 0 before the first
          page,       \* process -> codes listed and still to be added
          last,       \* process -> whether that page is the last one
          pending,    \* <<process, code>>: committed, BF.ADD not yet done
          answered,   \* codes of links the caller knows of
          unadded,    \* <<process, code>>: the BF.ADD of that link failed
          lost,       \* buckets that were lost at some time
          cut,        \* processes whose listing a deleted cursor cut short
          faults, losses, deletes

filterVars == <<present, bucket>>
bootVars == <<pc, cursor, page, last, cut>>
createVars == <<links, pending, answered, unadded>>
boundVars == <<faults, losses, deletes>>
bloomVars == <<createVars, filterVars, ready, bootVars, lost, boundVars>>

BloomInit ==
    /\ links \in SUBSET Code
    /\ answered = links
    /\ present = {}
    /\ bucket = [b \in Bucket |-> {}]
    /\ ready = [p \in Process |-> FALSE]
    /\ pc = [p \in Process |-> "reserving"]
    /\ cursor = [p \in Process |-> 0]
    /\ page = [p \in Process |-> {}]
    /\ last = [p \in Process |-> FALSE]
    /\ pending = {} /\ unadded = {}
    /\ lost = {} /\ cut = {}
    /\ faults = 0 /\ losses = 0 /\ deletes = 0

Fault == faults < MaxFaults /\ faults' = faults + 1 /\ UNCHANGED <<losses, deletes>>

\* BF.ADD and BF.MADD create a bucket that is missing.
AddTo(b, S) ==
    /\ present' = present \cup {b}
    /\ bucket' = [bucket EXCEPT ![b] = @ \cup S]

GoTo(p, label) == pc' = [pc EXCEPT ![p] = label]

(***************************************************************************)
(* The bootstrap                                                           *)
(***************************************************************************)
\* BF.RESERVE, unless the bucket exists or another process is faster.
Reserve(p, b) ==
    /\ pc[p] = "reserving"
    /\ b \notin present
    /\ AddTo(b, {})
    /\ UNCHANGED <<createVars, ready, bootVars, lost, boundVars>>

\* The loop is through all buckets.
ReserveDone(p) ==
    /\ pc[p] = "reserving"
    /\ present = Bucket
    /\ GoTo(p, "listing")
    /\ UNCHANGED <<createVars, filterVars, ready, cursor, page, last, cut, lost, boundVars>>

\* The last id of a page that is not empty.
NextCursor(p, P) == Max(P)

\* Mutant: a full page is taken for the last one.
LastIfFull(P) == Cardinality(P) <= BatchSize

LastPage(P) == Cardinality(P) < BatchSize

Later(p) == {c \in links : c > cursor[p]}

\* The page after the cursor, in the order of ids.
NextPage(p) == {c \in Later(p) : Cardinality({d \in Later(p) : d <= c}) <= BatchSize}

ListPage(p, P) ==
    /\ pc[p] = "listing"
    /\ page' = [page EXCEPT ![p] = P]
    /\ last' = [last EXCEPT ![p] = LastPage(P)]
    /\ cursor' = [cursor EXCEPT ![p] = IF P = {} THEN cursor[p] ELSE NextCursor(p, P)]
    /\ GoTo(p, "adding")
    /\ UNCHANGED <<createVars, filterVars, ready, lost, boundVars>>

List(p) == ListPage(p, NextPage(p)) /\ UNCHANGED cut

\* The link at the cursor is gone: the query may find nothing after it.
ListCutShort(p) ==
    /\ cursor[p] # 0
    /\ cursor[p] \notin links
    /\ ListPage(p, {})
    /\ cut' = IF NextPage(p) = {} THEN cut ELSE cut \cup {p}

\* addMany groups the page by bucket and adds a group at a time.
AddGroup(p, b) ==
    /\ pc[p] = "adding"
    /\ LET group == {c \in page[p] : BucketOf[c] = b} IN
          /\ group # {}
          /\ AddTo(b, group)
          /\ page' = [page EXCEPT ![p] = @ \ group]
    /\ UNCHANGED <<createVars, ready, pc, cursor, last, cut, lost, boundVars>>

\* The page is added: on to the next one, or the filter is complete.
PageDone(p) ==
    /\ pc[p] = "adding"
    /\ page[p] = {}
    /\ IF last[p] THEN GoTo(p, "serving") /\ ready' = [ready EXCEPT ![p] = TRUE]
                  ELSE GoTo(p, "listing") /\ UNCHANGED ready
    /\ UNCHANGED <<createVars, filterVars, cursor, page, last, cut, lost, boundVars>>

\* Any error ends the bootstrap; the process serves, and stays not ready.
BootFails(p) ==
    /\ pc[p] # "serving"
    /\ Fault
    /\ GoTo(p, "serving")
    /\ UNCHANGED <<createVars, filterVars, ready, cursor, page, last, cut, lost>>

BootStep(p) ==
    \/ \E b \in Bucket : Reserve(p, b) \/ AddGroup(p, b)
    \/ ReserveDone(p) \/ List(p) \/ ListCutShort(p) \/ PageDone(p)

(***************************************************************************)
(* Creating and deleting links                                             *)
(***************************************************************************)
\* create commits the row first.  (A code is used again only when its earlier
\* creation has answered.)
Create(p, c) ==
    /\ pc[p] = "serving"
    /\ c \notin links
    /\ \A q \in Process : <<q, c>> \notin pending
    /\ links' = links \cup {c}
    /\ pending' = pending \cup {<<p, c>>}
    /\ UNCHANGED <<answered, unadded, filterVars, ready, bootVars, lost, boundVars>>

\* Then it adds the code, and answers.
Add(p, c) ==
    /\ <<p, c>> \in pending
    /\ AddTo(BucketOf[c], {c})
    /\ pending' = pending \ {<<p, c>>}
    /\ answered' = answered \cup ({c} \cap links)
    /\ UNCHANGED <<links, unadded, ready, bootVars, lost, boundVars>>

MarkedNotReady(p) == [ready EXCEPT ![p] = FALSE]

\* If that fails, this process stops trusting the filter, and answers all the
\* same.
AddFails(p, c) ==
    /\ <<p, c>> \in pending
    /\ Fault
    /\ ready' = MarkedNotReady(p)
    /\ pending' = pending \ {<<p, c>>}
    /\ answered' = answered \cup ({c} \cap links)
    /\ unadded' = unadded \cup ({<<p, c>>} \cap (Process \X links))
    /\ UNCHANGED <<links, filterVars, bootVars, lost>>

\* Codes are never taken out of the filter.
Delete(c) ==
    /\ c \in links
    /\ deletes < MaxDeletes
    /\ deletes' = deletes + 1
    /\ links' = links \ {c}
    /\ answered' = answered \ {c}
    /\ unadded' = {x \in unadded : x[2] # c}
    /\ UNCHANGED <<pending, filterVars, ready, bootVars, lost, faults, losses>>

(***************************************************************************)
(* mightContain                                                            *)
(***************************************************************************)
Trusts(p) == pc[p] = "serving" /\ ready[p]

\* The only answer that hides a link from visitors.
Negative(p, c) ==
    /\ Trusts(p)
    /\ BucketOf[c] \in present
    /\ c \notin bucket[BucketOf[c]]

\* The script finds no key: the process stops trusting the filter.
FindsBucketMissing(p, b) ==
    /\ Trusts(p)
    /\ b \notin present
    /\ ready' = MarkedNotReady(p)
    /\ UNCHANGED <<createVars, filterVars, bootVars, lost, boundVars>>

(***************************************************************************)
(* Failures                                                                *)
(***************************************************************************)
\* Redis restarts without the key.
LoseBucket(b) ==
    /\ b \in present
    /\ losses < MaxLosses
    /\ losses' = losses + 1
    /\ present' = present \ {b}
    /\ bucket' = [bucket EXCEPT ![b] = {}]
    /\ lost' = lost \cup {b}
    /\ UNCHANGED <<createVars, ready, bootVars, faults, deletes>>

\* A process restarts; a creation between commit and BF.ADD ends there.
Restart(p) ==
    /\ Fault
    /\ ready' = [ready EXCEPT ![p] = FALSE]
    /\ pc' = [pc EXCEPT ![p] = "reserving"]
    /\ cursor' = [cursor EXCEPT ![p] = 0]
    /\ page' = [page EXCEPT ![p] = {}]
    /\ last' = [last EXCEPT ![p] = FALSE]
    /\ cut' = cut \ {p}
    /\ pending' = {x \in pending : x[1] # p}
    /\ UNCHANGED <<links, answered, unadded, filterVars, lost>>

BloomNext ==
    \/ \E p \in Process : BootStep(p) \/ BootFails(p) \/ Restart(p)
    \/ \E p \in Process, c \in Code : Create(p, c) \/ Add(p, c) \/ AddFails(p, c)
    \/ \E p \in Process, b \in Bucket : FindsBucketMissing(p, b)
    \/ \E c \in Code : Delete(c)
    \/ \E b \in Bucket : LoseBucket(b)

BloomSpec == BloomInit /\ [][BloomNext]_bloomVars

(***************************************************************************)
(* Properties                                                              *)
(***************************************************************************)
BloomTypeOK ==
    /\ links \in SUBSET Code
    /\ present \in SUBSET Bucket
    /\ bucket \in [Bucket -> SUBSET Code]
    /\ ready \in [Process -> BOOLEAN]
    /\ pc \in [Process -> {"reserving", "listing", "adding", "serving"}]
    /\ cursor \in [Process -> Code \cup {0}]
    /\ page \in [Process -> SUBSET Code]
    /\ last \in [Process -> BOOLEAN]
    /\ pending \in SUBSET (Process \X Code)
    /\ answered \in SUBSET links
    /\ unadded \in SUBSET (Process \X links)
    /\ lost \in SUBSET Bucket
    /\ cut \in SUBSET Process
    /\ faults \in 0..MaxFaults /\ losses \in 0..MaxLosses /\ deletes \in 0..MaxDeletes

\* A link its creator knows of is hidden by the filter only for one of three
\* reasons: another process failed to add its code, Redis lost its bucket, or
\* the bootstrap's listing was cut short.
HiddenForAReason ==
    \A p \in Process, c \in answered :
        Negative(p, c) => \/ \E q \in Process \ {p} : <<q, c>> \in unadded
                          \/ BucketOf[c] \in lost
                          \/ p \in cut
=============================================================================
