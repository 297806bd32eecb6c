----------------------------- MODULE ResolveCache -----------------------------
(***************************************************************************)
(* The two cache layers of one short code and their readers and writers:   *)
(* resolve and invalidate of src/cache/short-link-resolve-cache.service.ts *)
(* on top of the per-process L1 (hot-cache.service.ts) and the shared L2   *)
(* and lock in Redis (src/redis/redis-cluster.service.ts), and the         *)
(* operations of src/short-links that change the row.                      *)
(*                                                                         *)
(* A value is the version of the row it was read from, or Null for a row   *)
(* that is not there.  Every step is one call of Redis or the database, or *)
(* what the process does before the next one.  A reader is a slot of       *)
(* concurrency and is used again and again, and so is a writer.  Codes     *)
(* that the Bloom filter rejects never get as far as this.                 *)
(***************************************************************************)
EXTENDS Integers, FiniteSets

CONSTANTS Process,      \* API processes
          Reader,       \* concurrent calls of resolve
          Writer,       \* concurrent edits of the row
          ProcessOf,    \* reader or writer -> its process
          Edits,        \* the kinds of edits that happen
          Null,         \* the row does not exist
          Empty,        \* no entry
          NoHolder,     \* the lock key does not exist
          MaxWrites,    \* no edit begins after this many versions
          MaxFaults     \* bound on failing calls and crashes

ASSUME CacheAssumption ==
    /\ ProcessOf \in [Reader \cup Writer -> Process]
    /\ Edits \subseteq {"create", "update", "access", "remove"}
    /\ Null \notin Nat
    /\ Empty \notin Nat \cup {Null}
    /\ NoHolder \notin Reader
    /\ MaxWrites \in Nat
    /\ MaxFaults \in Nat

Value == Nat \cup {Null}

VARIABLES row,       \* the row's version, or Null
          written,   \* versions written so far
          l1,        \* process -> what its L1 holds
          l2,        \* what Redis holds
          lock,      \* the reader whose token the lock key holds
          pc, got,   \* reader -> where it is, the value it carries
          wpc,       \* writer -> where it is
          faults,
          overran,   \* readers whose lock expired while they rebuild
          everOverran

storeVars == <<row, written>>
cacheVars == <<l1, l2>>
readerVars == <<lock, pc, got, overran, everOverran>>
vars == <<storeVars, cacheVars, readerVars, wpc, faults>>

Init ==
    /\ \/ row = Null /\ written = 0
       \/ row = 1 /\ written = 1
    /\ l1 = [p \in Process |-> Empty]
    /\ l2 = Empty
    /\ lock = NoHolder
    /\ pc = [r \in Reader |-> "idle"]
    /\ got = [r \in Reader |-> Empty]
    /\ wpc = [w \in Writer |-> "idle"]
    /\ faults = 0
    /\ overran = {}
    /\ everOverran = FALSE

Fault == faults < MaxFaults /\ faults' = faults + 1

(***************************************************************************)
(* resolve                                                                 *)
(***************************************************************************)
At(r, label) == pc[r] = label

GoTo(r, label) == pc' = [pc EXCEPT ![r] = label]

\* The call returns, and the value it carried is forgotten.
Return(r) == GoTo(r, "idle") /\ got' = [got EXCEPT ![r] = Empty]

\* What setLocal does.
SetLocal(r, v) == l1' = [l1 EXCEPT ![ProcessOf[r]] = v]

\* A hit of L1 is answered at once and changes nothing; this is a miss.
MissLocal(r) ==
    /\ At(r, "idle")
    /\ l1[ProcessOf[r]] = Empty
    /\ GoTo(r, "get")
    /\ UNCHANGED <<storeVars, cacheVars, lock, got, overran, everOverran, wpc, faults>>

GetShared(r) ==
    /\ At(r, "get")
    /\ IF l2 # Empty
         THEN GoTo(r, "keep") /\ got' = [got EXCEPT ![r] = l2]
         ELSE GoTo(r, "lock") /\ UNCHANGED got
    /\ UNCHANGED <<storeVars, cacheVars, lock, overran, everOverran, wpc, faults>>

\* The reply has arrived: the value goes to L1, even if Redis no longer has it.
KeepLocal(r) ==
    /\ At(r, "keep")
    /\ SetLocal(r, got[r])
    /\ Return(r)
    /\ UNCHANGED <<storeVars, l2, lock, overran, everOverran, wpc, faults>>

LockFree == lock = NoHolder

AcquireLock(r) ==
    /\ At(r, "lock")
    /\ IF LockFree THEN lock' = r /\ GoTo(r, "check")
                   ELSE UNCHANGED lock /\ GoTo(r, "wait")
    /\ UNCHANGED <<storeVars, cacheVars, got, overran, everOverran, wpc, faults>>

\* Mutant: no double check after the lock was acquired.
RebuiltNever == FALSE

\* Another reader has rebuilt the entry before the lock was acquired.
Rebuilt == l2 # Empty

DoubleCheck(r) ==
    /\ At(r, "check")
    /\ GoTo(r, IF Rebuilt THEN "release" ELSE "load")
    /\ UNCHANGED <<storeVars, cacheVars, lock, got, overran, everOverran, wpc, faults>>

Load(r) ==
    /\ At(r, "load")
    /\ got' = [got EXCEPT ![r] = row]
    /\ GoTo(r, "fill")
    /\ UNCHANGED <<storeVars, cacheVars, lock, overran, everOverran, wpc, faults>>

Fill(r) ==
    /\ At(r, "fill")
    /\ l2' = got[r]
    /\ GoTo(r, "filled")
    /\ UNCHANGED <<storeVars, l1, lock, got, overran, everOverran, wpc, faults>>

KeepFilled(r) ==
    /\ At(r, "filled")
    /\ SetLocal(r, got[r])
    /\ GoTo(r, "release")
    /\ UNCHANGED <<storeVars, l2, lock, got, overran, everOverran, wpc, faults>>

\* Mutant: DEL without comparing the token.
ReleasedBlindly(r) == NoHolder

\* The lock after the release script, which compares the token.
Released(r) == IF lock = r THEN NoHolder ELSE lock

\* A failure of the release is swallowed, whether or not it took effect.
Release(r) ==
    /\ At(r, "release")
    /\ \/ lock' = Released(r) /\ UNCHANGED faults
       \/ Fault /\ UNCHANGED lock
    /\ Return(r)
    /\ overran' = overran \ {r}
    /\ UNCHANGED <<storeVars, cacheVars, everOverran, wpc>>

\* The poll finds an entry.
Polled == l2 # Empty

PollHit(r) ==
    /\ At(r, "wait")
    /\ Polled
    /\ got' = [got EXCEPT ![r] = l2]
    /\ GoTo(r, "keep")
    /\ UNCHANGED <<storeVars, cacheVars, lock, overran, everOverran, wpc, faults>>

\* Mutant: the wait for the lock's holder has no end.
NeverGivesUp == l2 # Empty

\* After some polls (40) a reader stops waiting, whatever it found.
GivesUp == TRUE

\* It loads from the database and caches nothing.
PollGivesUp(r) ==
    /\ At(r, "wait")
    /\ GivesUp
    /\ Return(r)
    /\ UNCHANGED <<storeVars, cacheVars, lock, overran, everOverran, wpc, faults>>

\* A call of Redis or the loader fails.  It may have taken effect.  Inside the
\* try block the lock is released; then the caller asks the database.
CallFails(r) ==
    /\ Fault
    /\ \/ At(r, "get") /\ Return(r) /\ UNCHANGED <<l2, lock>>
       \/ At(r, "wait") /\ Return(r) /\ UNCHANGED <<l2, lock>>
       \/ At(r, "lock") /\ Return(r) /\ UNCHANGED l2
             /\ lock' \in {lock, IF LockFree THEN r ELSE lock}
       \/ pc[r] \in {"check", "load"} /\ GoTo(r, "release") /\ UNCHANGED <<got, l2, lock>>
       \/ At(r, "fill") /\ GoTo(r, "release") /\ l2' \in {l2, got[r]}
             /\ UNCHANGED <<got, lock>>
    /\ UNCHANGED <<storeVars, l1, overran, everOverran, wpc>>

ReaderStep(r) ==
    \/ MissLocal(r) \/ GetShared(r) \/ KeepLocal(r) \/ AcquireLock(r)
    \/ DoubleCheck(r) \/ Load(r) \/ Fill(r) \/ KeepFilled(r) \/ Release(r)
    \/ PollHit(r) \/ PollGivesUp(r)

Rebuilding(r) == pc[r] \in {"check", "load", "fill", "filled", "release"}
(***************************************************************************)
(* The operations that change the row                                      *)
(***************************************************************************)
WriterGoes(w, label) == wpc' = [wpc EXCEPT ![w] = label]

\* A deletion that has not committed holds the row.
RowFree == \A w \in Writer : wpc[w] \notin {"removing", "removing2", "deleting"}

MayBegin(w, kind) == wpc[w] = "idle" /\ kind \in Edits /\ written < MaxWrites

CommitVersion ==
    /\ RowFree
    /\ row' = written + 1
    /\ written' = written + 1

\* The row is committed; the invalidation comes after it.
Create(w) ==
    /\ MayBegin(w, "create")
    /\ row = Null
    /\ CommitVersion
    /\ WriterGoes(w, "committed")
    /\ UNCHANGED <<cacheVars, readerVars, faults>>

Update(w) ==
    /\ MayBegin(w, "update")
    /\ row # Null
    /\ CommitVersion
    /\ WriterGoes(w, "committed")
    /\ UNCHANGED <<cacheVars, readerVars, faults>>

\* setAccess invalidates before it writes, and again after that.
BeginAccess(w) ==
    /\ MayBegin(w, "access")
    /\ row # Null
    /\ WriterGoes(w, "before")
    /\ UNCHANGED <<storeVars, cacheVars, readerVars, faults>>

\* Its updateMany matches no row if the link was removed meanwhile.
SetAccess(w) ==
    /\ wpc[w] = "writing"
    /\ IF row = Null THEN UNCHANGED storeVars ELSE CommitVersion
    /\ WriterGoes(w, "committed")
    /\ UNCHANGED <<cacheVars, readerVars, faults>>

\* remove deletes the row and invalidates inside its transaction.
BeginRemove(w) ==
    /\ MayBegin(w, "remove")
    /\ row # Null
    /\ RowFree
    /\ WriterGoes(w, "removing")
    /\ UNCHANGED <<storeVars, cacheVars, readerVars, faults>>

\* The transaction commits, or is rolled back.
EndRemove(w) ==
    /\ wpc[w] = "deleting"
    /\ \/ row' = Null /\ UNCHANGED faults
       \/ Fault /\ UNCHANGED row
    /\ WriterGoes(w, "idle")
    /\ UNCHANGED <<written, cacheVars, readerVars>>

\* Where an edit goes on after the first and the second half of invalidate.
NextPhase == [before |-> "before2", before2 |-> "writing",
              committed |-> "committed2", committed2 |-> "idle",
              removing |-> "removing2", removing2 |-> "deleting"]

\* invalidate deletes the entry of its own process, ...
InvalidateLocal(w) ==
    /\ wpc[w] \in {"before", "committed", "removing"}
    /\ l1' = [l1 EXCEPT ![ProcessOf[w]] = Empty]
    /\ WriterGoes(w, NextPhase[wpc[w]])
    /\ UNCHANGED <<storeVars, l2, readerVars, faults>>

\* ... then the one in Redis, and an error of that is swallowed.
InvalidateShared(w) ==
    /\ wpc[w] \in {"before2", "committed2", "removing2"}
    /\ \/ l2' = Empty /\ UNCHANGED faults
       \/ Fault /\ UNCHANGED l2
    /\ WriterGoes(w, NextPhase[wpc[w]])
    /\ UNCHANGED <<storeVars, l1, readerVars>>

WriterStep(w) ==
    \/ SetAccess(w) \/ InvalidateLocal(w) \/ InvalidateShared(w) \/ EndRemove(w)

(***************************************************************************)
(* Time, and crashes                                                       *)
(***************************************************************************)
\* Mutant: negative entries are stored without a time to live.
ExpiresUnlessNull(v) == v \notin {Empty, Null}

\* Every entry has a time to live: 30 s for Null, else 300 to 360 s in Redis.
Expires(v) == v # Empty

ExpireLocal(p) ==
    /\ l1[p] # Empty
    /\ l1' = [l1 EXCEPT ![p] = Empty]
    /\ UNCHANGED <<storeVars, l2, readerVars, wpc, faults>>

ExpireShared ==
    /\ Expires(l2)
    /\ l2' = Empty
    /\ UNCHANGED <<storeVars, l1, readerVars, wpc, faults>>

\* The lock's 5 s are over, maybe before its holder is done.
ExpireLock ==
    /\ lock # NoHolder
    /\ lock' = NoHolder
    /\ overran' = IF Rebuilding(lock) THEN overran \cup {lock} ELSE overran
    /\ everOverran' = (everOverran \/ Rebuilding(lock))
    /\ UNCHANGED <<storeVars, cacheVars, pc, got, wpc, faults>>

\* A process restarts: its L1, its calls and its unfinished edits are gone.
Restart(p) ==
    /\ Fault
    /\ l1' = [l1 EXCEPT ![p] = Empty]
    /\ pc' = [r \in Reader |-> IF ProcessOf[r] = p THEN "idle" ELSE pc[r]]
    /\ got' = [r \in Reader |-> IF ProcessOf[r] = p THEN Empty ELSE got[r]]
    /\ wpc' = [w \in Writer |-> IF ProcessOf[w] = p THEN "idle" ELSE wpc[w]]
    /\ overran' = {r \in overran : ProcessOf[r] # p}
    /\ UNCHANGED <<storeVars, l2, lock, everOverran>>

Next ==
    \/ \E r \in Reader : ReaderStep(r) \/ CallFails(r)
    \/ \E w \in Writer : \/ Create(w) \/ Update(w) \/ BeginAccess(w) \/ BeginRemove(w)
                         \/ WriterStep(w)
    \/ \E p \in Process : ExpireLocal(p) \/ Restart(p)
    \/ ExpireShared
    \/ ExpireLock

Spec == Init /\ [][Next]_vars

\* Calls and edits that began go on (every client has a timeout, the wait for
\* the lock's holder an end), and what has a time to live expires.
Fairness ==
    /\ \A r \in Reader : WF_vars(ReaderStep(r) /\ pc[r] # "idle")
    /\ \A w \in Writer : WF_vars(WriterStep(w))
    /\ \A p \in Process : WF_vars(ExpireLocal(p))
    /\ WF_vars(ExpireShared)
    /\ WF_vars(ExpireLock)

FairSpec == Spec /\ Fairness

(***************************************************************************)
(* Properties                                                              *)
(***************************************************************************)
ReaderAt == {"idle", "get", "keep", "lock", "check", "load", "fill", "filled",
             "release", "wait"}

WriterAt == {"idle", "deleting", "writing"} \cup DOMAIN NextPhase

TypeOK ==
    /\ row \in Value
    /\ written \in Nat
    /\ l1 \in [Process -> Value \cup {Empty}]
    /\ l2 \in Value \cup {Empty}
    /\ lock \in Reader \cup {NoHolder}
    /\ pc \in [Reader -> ReaderAt]
    /\ got \in [Reader -> Value \cup {Empty}]
    /\ \A r \in Reader : pc[r] \in {"keep", "fill", "filled"} => got[r] # Empty
    /\ wpc \in [Writer -> WriterAt]
    /\ faults \in 0..MaxFaults
    /\ overran \in SUBSET Reader
    /\ everOverran \in BOOLEAN

\* At most one reader at a time rebuilds the entry, not counting those whose
\* lock has expired under them: nobody but its holder or time frees the lock.
SingleRebuilder ==
    \A r, s \in Reader :
        Rebuilding(r) /\ Rebuilding(s) /\ r # s => overran \cap {r, s} # {}

\* As long as no rebuild has outlived its lock, what is cached in Redis is
\* never overwritten: an entry is filled only when there is none.
FillsOnlyEmpty ==
    [][~everOverran /\ l2 # Empty => l2' \in {l2, Empty}]_vars

Fresh == l2 \in {Empty, row} /\ \A p \in Process : l1[p] \in {Empty, row}

\* Staleness passes: when the edits stop, every layer of every process holds
\* what the row is or nothing, from some moment on.
EventuallyFresh == <>[]Fresh

\* Every call of resolve returns, also when the lock's holder is gone.
EveryCallReturns == \A r \in Reader : (pc[r] # "idle") ~> (pc[r] = "idle")
=============================================================================
