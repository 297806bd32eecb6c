----------------------------- MODULE VisitsProofs -----------------------------
(***************************************************************************)
(* Proofs about visits: how they are counted (VisitCounting), for any      *)
(* finite set of them, any number of consumer channels, and any limits,    *)
(* edits and faults; and what is reported of them (Analytics), for any     *)
(* range, zone and length of the lists.                                    *)
(***************************************************************************)
EXTENDS VisitCounting, Analytics, FiniteSetTheorems, FunctionTheorems, TLAPS

\* An UPDATE of one column of the link keeps the row's type and the others.
LEMMA CountedRow ==
    ASSUME NEW l \in LinkRow
    PROVE  LET m == [l EXCEPT !.visitCount = l.visitCount + 1]
           IN  /\ m \in LinkRow
               /\ m.visitCount = l.visitCount + 1
               /\ m.exists = l.exists
               /\ m.maxVisits = l.maxVisits
  BY DEF LinkRow

\* The consumer's transaction leaves the row as it is or counts one visit.
LEMMA CommittedRow ==
    ASSUME TypeOK, NEW e \in Request, Commit(e)
    PROVE  /\ link' \in LinkRow
           /\ visits' = visits \cup {e}
           /\ link'.exists = link.exists
           /\ link'.maxVisits = link.maxVisits
           /\ CountsVisit(e) => link'.visitCount = link.visitCount + 1
           /\ ~CountsVisit(e) => link' = link
  <1>1. link \in LinkRow
    BY DEF TypeOK
  <1>2. CASE CountsVisit(e)
    <2>1. link' = [link EXCEPT !.visitCount = link.visitCount + 1]
      BY <1>2 DEF Commit
    <2>2. QED
      BY <1>1, <1>2, <2>1, CountedRow DEF Commit
  <1>3. CASE ~CountsVisit(e)
    BY <1>1, <1>3 DEF Commit
  <1>4. QED
    BY <1>2, <1>3

\* The UPDATE of resolveLimited counts one visit and changes nothing else.
LEMMA GrantedLink ==
    ASSUME TypeOK, NEW r \in Request, GrantLimited(r)
    PROVE  /\ link' \in LinkRow
           /\ link'.visitCount = link.visitCount + 1
           /\ link'.exists = link.exists
           /\ link'.maxVisits = link.maxVisits
  BY CountedRow DEF TypeOK, GrantLimited, GrantedRow

\* update sets the limit and keeps the count.
LEMMA EditedLink ==
    ASSUME TypeOK, NEW n \in Limits, NEW a \in BOOLEAN, Update(n, a)
    PROVE  /\ link' \in LinkRow
           /\ link'.visitCount = link.visitCount
           /\ link'.exists = link.exists
           /\ link'.maxVisits = n
  <1>1. link' = [[link EXCEPT !.maxVisits = n] EXCEPT !.active = a]
    BY DEF Update
  <1>2. link \in LinkRow
    BY DEF TypeOK
  <1>3. QED
    BY <1>1, <1>2 DEF LinkRow

\* remove and setAccess keep count and limit.
LEMMA RemovedLink ==
    ASSUME TypeOK, RemoveEnd \/ SetAccess
    PROVE  /\ link' \in LinkRow
           /\ link'.visitCount = link.visitCount
           /\ link'.exists => link.exists
           /\ link'.maxVisits = link.maxVisits
  <1>1. \/ link' = link
        \/ link' = [link EXCEPT !.exists = FALSE]
        \/ link' = [link EXCEPT !.ver = link.ver + 1]
    BY DEF RemoveEnd, SetAccess
  <1>2. link \in LinkRow
    BY DEF TypeOK
  <1>3. CASE link' = [link EXCEPT !.exists = FALSE]
    BY <1>2, <1>3 DEF LinkRow
  <1>4. CASE link' = [link EXCEPT !.ver = link.ver + 1]
    BY <1>2, <1>4 DEF LinkRow
  <1>5. QED
    BY <1>1, <1>2, <1>3, <1>4

\* The types hold for a link without visits.
LEMMA InitType == VisitAssumption /\ Init => TypeOK
  BY DEF VisitAssumption, Init, TypeOK, LinkRow, Limits, AllowanceOf

\* Every step of counting keeps the types.
LEMMA NextType == VisitAssumption /\ TypeOK /\ [Next]_vars => TypeOK'
  <1> SUFFICES ASSUME VisitAssumption, TypeOK, [Next]_vars
               PROVE  TypeOK'
    OBVIOUS
  <1> USE DEF VisitAssumption, requestVars, consumerVars, ghostVars, GoTo, Answer
  <1>1. ASSUME NEW r \in Request, HitCache(r)
        PROVE  TypeOK'
    BY <1>1 DEF TypeOK, HitCache
  <1>2. ASSUME NEW r \in Request, LoadFromDatabase(r)
        PROVE  TypeOK'
    <2>1. Current \in Snapshot
      BY DEF TypeOK, LinkRow, Current, Snapshot
    <2>2. QED
      BY <1>2, <2>1 DEF TypeOK, LoadFromDatabase
  <1>3. ASSUME NEW r \in Request, FillCache(r)
        PROVE  TypeOK'
    BY <1>3 DEF TypeOK, FillCache
  <1>4. ASSUME NEW r \in Request, Reject(r) \/ Publish(r) \/ PublishFails(r)
        PROVE  TypeOK'
    BY <1>4 DEF TypeOK, Reject, Publish, PublishFails
  <1>5. ASSUME NEW r \in Request, GrantLimited(r)
        PROVE  TypeOK'
    <2>1. link' \in LinkRow
      BY <1>5, GrantedLink
    <2>2. QED
      BY <1>5, <2>1 DEF TypeOK, GrantLimited, AsksForLimitedVisit
  <1>6. ASSUME NEW r \in Request, DenyLimited(r)
        PROVE  TypeOK'
    BY <1>6 DEF TypeOK, DenyLimited
  <1>7. ASSUME NEW r \in Request, GrantUnlimited(r)
        PROVE  TypeOK'
    <2>1. Incremented(snap[r]) \in Nat
      BY <1>7 DEF TypeOK, GrantUnlimited, Incremented, Snapshot
    <2>2. QED
      BY <1>7, <2>1 DEF TypeOK, GrantUnlimited
  <1>8. ASSUME NEW c \in Channel, OpenChannel(c) \/ ChannelLost(c) \/ ConsumerCrash(c)
        PROVE  TypeOK'
    BY <1>8 DEF TypeOK, OpenChannel, ChannelLost, ConsumerCrash, Unacknowledged, Fault
  <1>9. ASSUME NEW c \in Channel, NEW e \in Request, Deliver(c, e) \/ Ack(c, e)
        PROVE  TypeOK'
    BY <1>9 DEF TypeOK, Deliver, Ack
  <1>10. ASSUME NEW c \in Channel, NEW e \in Request, ProcessEvent(c, e)
         PROVE  TypeOK'
    <2>1. Commit(e)
      BY <1>10 DEF ProcessEvent
    <2>2. link' \in LinkRow /\ visits' = visits \cup {e}
      BY <2>1, CommittedRow
    <2>3. QED
      BY <1>10, <2>2 DEF TypeOK, ProcessEvent
  <1>11. ASSUME NEW c \in Channel, NEW e \in Request, ProcessingFails(c, e)
         PROVE  TypeOK'
    <2>1. link' \in LinkRow /\ visits' \in SUBSET Request
      <3>1. CASE Commit(e)
        BY <3>1, CommittedRow DEF TypeOK
      <3>2. CASE UNCHANGED <<visits, link>>
        BY <3>2 DEF TypeOK
      <3>3. QED
        BY <1>11, <3>1, <3>2 DEF ProcessingFails
    <2>2. QED
      BY <1>11, <2>1 DEF TypeOK, ProcessingFails, Fault
  <1>12. ASSUME NEW n \in Limits, NEW a \in BOOLEAN, Update(n, a)
         PROVE  TypeOK'
    <2>1. allowance' \in Int
      BY <1>12 DEF TypeOK, LinkRow, Update, Limits
    <2>2. link' \in LinkRow
      BY <1>12, EditedLink
    <2>3. everUnlimited' \in BOOLEAN
      BY <1>12 DEF Update
    <2>4. QED
      BY <1>12, <2>1, <2>2, <2>3 DEF TypeOK, Update, Edit
  <1>13. ASSUME RemoveEnd \/ SetAccess
         PROVE  TypeOK'
    BY <1>13, RemovedLink DEF TypeOK, RemoveEnd, SetAccess, Edit
  <1>14. ASSUME Invalidate \/ RemoveBegin \/ CacheEmptied \/ StatsLost
         PROVE  TypeOK'
    BY <1>14 DEF TypeOK, Invalidate, RemoveBegin, Edit, CacheEmptied, StatsLost
  <1>15. CASE UNCHANGED vars
    BY <1>15 DEF TypeOK, vars
  <1>16. QED
    BY <1>1, <1>2, <1>3, <1>4, <1>5, <1>6, <1>7, <1>8, <1>9, <1>10, <1>11, <1>12,
       <1>13, <1>14, <1>15 DEF Next, RequestStep, ConsumerStep, OwnerStep

\* The type invariant, for every value of the constants.
THEOREM VisitTypes == Spec => []TypeOK
  BY VisitAssumption, InitType, NextType, PTL DEF Spec
(***************************************************************************)
(* Where a request is, and what it may have left behind                    *)
(***************************************************************************)
LEMMA CountType ==
    ASSUME VisitAssumption, NEW S \in SUBSET Request
    PROVE  IsFiniteSet(S) /\ Cardinality(S) \in Nat
  BY FS_Subset, FS_CardinalityType DEF VisitAssumption

\* A set of visits grows by one for each new member.
LEMMA AddOne ==
    ASSUME VisitAssumption, NEW S \in SUBSET Request, NEW r \in Request
    PROVE  /\ r \in S => Cardinality(S \cup {r}) = Cardinality(S)
           /\ r \notin S => Cardinality(S \cup {r}) = Cardinality(S) + 1
  BY CountType, FS_AddElement

\* A granted request is limited or unlimited but not both; only what was
\* published is in the queue, with a consumer or stored; and what is about to
\* be acknowledged is stored.
PathInv ==
    /\ limited \cap unlimited = {}
    /\ \A r \in Request :
          r \in Granted <=> pc[r] \in {"granted", "published", "unpublished"}
    /\ \A r \in ready \cup visits : pc[r] = "published"
    /\ \A c \in Channel : \A r \in running[c] \cup finished[c] : pc[r] = "published"
    /\ \A c \in Channel : finished[c] \subseteq visits

\* A visit that was granted by the UPDATE never comes to be among the others.
LEMMA PathStep ==
    ASSUME VisitAssumption, TypeOK, PathInv, [Next]_vars
    PROVE  PathInv'
  <1> USE DEF requestVars, consumerVars, ghostVars, GoTo, Answer, Granted
  <1>1. ASSUME NEW r \in Request,
               \/ HitCache(r) \/ LoadFromDatabase(r) \/ FillCache(r) \/ Reject(r)
               \/ DenyLimited(r)
        PROVE  PathInv'
    BY <1>1 DEF TypeOK, PathInv, HitCache, LoadFromDatabase, FillCache, Reject,
                DenyLimited, AsksForLimitedVisit
  <1>2. ASSUME NEW r \in Request, GrantLimited(r) \/ GrantUnlimited(r)
        PROVE  PathInv'
    BY <1>2 DEF TypeOK, PathInv, GrantLimited, GrantUnlimited, AsksForLimitedVisit
  <1>3. ASSUME NEW r \in Request, Publish(r) \/ PublishFails(r)
        PROVE  PathInv'
    BY <1>3 DEF TypeOK, PathInv, Publish, PublishFails
  <1>4. ASSUME NEW c \in Channel, OpenChannel(c) \/ ChannelLost(c) \/ ConsumerCrash(c)
        PROVE  PathInv'
    BY <1>4 DEF TypeOK, PathInv, OpenChannel, ChannelLost, ConsumerCrash, Unacknowledged
  <1>5. ASSUME NEW c \in Channel, NEW e \in Request, Deliver(c, e) \/ Ack(c, e)
        PROVE  PathInv'
    BY <1>5 DEF TypeOK, PathInv, Deliver, Ack
  <1>6. ASSUME NEW c \in Channel, NEW e \in Request, ProcessEvent(c, e)
        PROVE  PathInv'
    <2>1. visits' = visits \cup {e}
      BY <1>6 DEF ProcessEvent, Commit
    <2>2. QED
      BY <1>6, <2>1 DEF TypeOK, PathInv, ProcessEvent
  <1>7. ASSUME NEW c \in Channel, NEW e \in Request, ProcessingFails(c, e)
        PROVE  PathInv'
    <2>1. visits' = visits \cup {e} \/ visits' = visits
      BY <1>7 DEF ProcessingFails, Commit
    <2>2. QED
      BY <1>7, <2>1 DEF TypeOK, PathInv, ProcessingFails
  <1>8. CASE UNCHANGED <<requestVars, consumerVars>>
    BY <1>8 DEF PathInv
  <1>9. ASSUME OwnerStep \/ CacheEmptied \/ StatsLost
        PROVE  UNCHANGED <<requestVars, consumerVars>>
    BY <1>9 DEF OwnerStep, Update, SetAccess, Invalidate, RemoveBegin, RemoveEnd,
                CacheEmptied, StatsLost
  <1>10. QED
    BY <1>1, <1>2, <1>3, <1>4, <1>5, <1>6, <1>7, <1>8, <1>9
       DEF Next, RequestStep, ConsumerStep, vars

\* Every visit is on one of the two ways of counting, in every reachable state.
LEMMA PathHolds == Spec => []PathInv
  <1>1. Init => PathInv
    BY DEF Init, PathInv, Granted
  <1>2. QED
    BY <1>1, PathStep, VisitTypes, VisitAssumption, PTL DEF Spec

(***************************************************************************)
(* Exact counting                                                          *)
(***************************************************************************)
Processed == visits \cap unlimited

\* visitCount grows with each limited grant and with each other visit that is processed.
LEMMA CountStep ==
    ASSUME VisitAssumption, TypeOK, PathInv, CountExact, [Next]_vars
    PROVE  CountExact'
  <1> USE DEF requestVars, consumerVars, ghostVars, GoTo, Answer, Granted, Processed
  <1>1. /\ link \in LinkRow
        /\ limited \in SUBSET Request
        /\ Processed \in SUBSET Request
        /\ Cardinality(limited) \in Nat /\ Cardinality(Processed) \in Nat
    BY CountType DEF TypeOK
  <1>2. ASSUME link'.exists => link.exists /\ link'.visitCount = link.visitCount,
               limited' = limited, Processed' = Processed
        PROVE  CountExact'
    BY <1>2 DEF CountExact
  <1>3. ASSUME NEW r \in Request, GrantLimited(r)
        PROVE  CountExact'
    <2>1. r \notin limited
      BY <1>3 DEF PathInv, GrantLimited, AsksForLimitedVisit
    <2>2. Cardinality(limited') = Cardinality(limited) + 1 /\ Processed' = Processed
      BY <1>3, <2>1, <1>1, AddOne DEF GrantLimited
    <2>3. link'.visitCount = link.visitCount + 1 /\ link'.exists = link.exists
      BY <1>3, GrantedLink
    <2>4. link.visitCount \in Nat
      BY <1>1 DEF LinkRow
    <2>5. QED
      BY <1>1, <2>2, <2>3, <2>4 DEF CountExact
  <1>4. ASSUME NEW r \in Request, GrantUnlimited(r)
        PROVE  CountExact'
    <2>1. r \notin visits
      BY <1>4 DEF PathInv, GrantUnlimited
    <2>2. QED
      BY <1>2, <1>4, <2>1 DEF GrantUnlimited
  <1>5. ASSUME NEW e \in Request, Commit(e), UNCHANGED requestVars
        PROVE  CountExact'
    <2>1. CASE CountsVisit(e)
      <3>1. e \notin Processed /\ Processed' = Processed \cup {e}
        BY <1>5, <2>1, CommittedRow DEF CountsVisit
      <3>2. Cardinality(Processed') = Cardinality(Processed) + 1
        BY <1>1, <3>1, AddOne
      <3>3. /\ link'.visitCount = link.visitCount + 1
            /\ link'.exists = link.exists
            /\ limited' = limited
        BY <1>5, <2>1, CommittedRow
      <3>4. link.visitCount \in Nat
        BY <1>1 DEF LinkRow
      <3>5. QED
        BY <1>1, <3>2, <3>3, <3>4 DEF CountExact
    <2>2. CASE ~CountsVisit(e)
      <3>1. link' = link /\ visits' = visits \cup {e} /\ limited' = limited
        BY <1>5, <2>2, CommittedRow
      <3>2. CASE ~link.exists
        BY <3>1, <3>2 DEF CountExact
      <3>3. CASE link.exists
        BY <1>2, <1>5, <2>2, <3>1, <3>3 DEF CountsVisit
      <3>4. QED
        BY <3>2, <3>3
    <2>3. QED
      BY <2>1, <2>2
  <1>6. ASSUME NEW c \in Channel, NEW e \in Request,
               ProcessEvent(c, e) \/ ProcessingFails(c, e)
        PROVE  CountExact'
    <2>1. UNCHANGED requestVars /\ (Commit(e) \/ UNCHANGED <<visits, link>>)
      BY <1>6 DEF ProcessEvent, ProcessingFails
    <2>2. QED
      BY <1>2, <1>5, <2>1
  <1>7. ASSUME NEW n \in Limits, NEW a \in BOOLEAN, Update(n, a)
        PROVE  CountExact'
    BY <1>2, <1>7, EditedLink DEF Update
  <1>8. ASSUME RemoveEnd \/ SetAccess
        PROVE  CountExact'
    BY <1>2, <1>8, RemovedLink DEF RemoveEnd, SetAccess
  <1>9. ASSUME NEW r \in Request,
               \/ HitCache(r) \/ LoadFromDatabase(r) \/ FillCache(r) \/ Reject(r)
               \/ DenyLimited(r) \/ Publish(r) \/ PublishFails(r)
        PROVE  UNCHANGED <<link, limited, unlimited, visits>>
    BY <1>9 DEF HitCache, LoadFromDatabase, FillCache, Reject, DenyLimited, Publish,
                PublishFails
  <1>10. ASSUME NEW c \in Channel, OpenChannel(c) \/ ChannelLost(c) \/ ConsumerCrash(c)
         PROVE  UNCHANGED <<link, limited, unlimited, visits>>
    BY <1>10 DEF OpenChannel, ChannelLost, ConsumerCrash
  <1>11. ASSUME NEW c \in Channel, NEW e \in Request, Deliver(c, e) \/ Ack(c, e)
         PROVE  UNCHANGED <<link, limited, unlimited, visits>>
    BY <1>11 DEF Deliver, Ack
  <1>12. ASSUME Invalidate \/ RemoveBegin \/ CacheEmptied \/ StatsLost
         PROVE  UNCHANGED <<link, limited, unlimited, visits>>
    BY <1>12 DEF Invalidate, RemoveBegin, CacheEmptied, StatsLost
  <1>13. CASE UNCHANGED <<link, limited, unlimited, visits>>
    BY <1>2, <1>13
  <1>14. QED
    BY <1>3, <1>4, <1>6, <1>7, <1>8, <1>9, <1>10, <1>11, <1>12, <1>13
       DEF Next, RequestStep, ConsumerStep, OwnerStep, vars

\* Every counted visit was granted once and counted once: by the limiting
\* UPDATE or by the consumer, never by both and never twice.
THEOREM ExactCounting == Spec => []CountExact
  <1>1. Init => CountExact
    BY FS_EmptySet DEF Init, CountExact
  <1>2. QED
    BY <1>1, CountStep, VisitTypes, PathHolds, VisitAssumption, PTL DEF Spec
(***************************************************************************)
(* Nothing published is lost                                               *)
(***************************************************************************)
LEMMA DroppedStep ==
    ASSUME TypeOK, PathInv, NoEventDropped, [Next]_vars
    PROVE  NoEventDropped'
  <1> USE DEF requestVars, consumerVars, ghostVars, GoTo, Answer
  <1>1. ASSUME NEW r \in Request, RequestStep(r)
        PROVE  NoEventDropped'
    <2>1. CASE Publish(r)
      BY <2>1 DEF TypeOK, NoEventDropped, Publish
    <2>2. CASE ~Publish(r)
      <3>1. UNCHANGED consumerVars
        BY <1>1, <2>2 DEF RequestStep, HitCache, LoadFromDatabase, FillCache, Reject,
                          GrantLimited, DenyLimited, GrantUnlimited, PublishFails
      <3>2. \A q \in Request : pc'[q] = "published" => pc[q] = "published"
        BY <1>1, <2>2 DEF TypeOK, RequestStep, HitCache, LoadFromDatabase, FillCache,
                          Reject, GrantLimited, DenyLimited, GrantUnlimited, PublishFails
      <3>3. QED
        BY <3>1, <3>2 DEF NoEventDropped
    <2>3. QED
      BY <2>1, <2>2
  <1>2. ASSUME NEW c \in Channel, OpenChannel(c) \/ ChannelLost(c) \/ ConsumerCrash(c)
        PROVE  NoEventDropped'
    BY <1>2 DEF TypeOK, NoEventDropped, OpenChannel, ChannelLost, ConsumerCrash,
                Unacknowledged
  <1>3. ASSUME NEW c \in Channel, NEW e \in Request, Deliver(c, e) \/ Ack(c, e)
        PROVE  NoEventDropped'
    BY <1>3 DEF TypeOK, NoEventDropped, Deliver, Ack
  <1>4. ASSUME NEW c \in Channel, NEW e \in Request, ProcessEvent(c, e)
        PROVE  NoEventDropped'
    <2>1. visits' = visits \cup {e}
      BY <1>4 DEF ProcessEvent, Commit
    <2>2. QED
      BY <1>4, <2>1 DEF TypeOK, NoEventDropped, ProcessEvent
  <1>5. ASSUME NEW c \in Channel, NEW e \in Request, ProcessingFails(c, e)
        PROVE  NoEventDropped'
    <2>1. visits \subseteq visits'
      BY <1>5 DEF ProcessingFails, Commit
    <2>2. QED
      BY <1>5, <2>1 DEF TypeOK, NoEventDropped, ProcessingFails
  <1>6. CASE UNCHANGED <<pc, consumerVars>>
    BY <1>6 DEF NoEventDropped
  <1>7. ASSUME OwnerStep \/ CacheEmptied \/ StatsLost
        PROVE  UNCHANGED <<pc, consumerVars>>
    BY <1>7 DEF OwnerStep, Update, SetAccess, Invalidate, RemoveBegin, RemoveEnd,
                CacheEmptied, StatsLost
  <1>8. QED
    BY <1>1, <1>2, <1>3, <1>4, <1>5, <1>6, <1>7 DEF Next, ConsumerStep, vars

\* A visit event, once published, stays in the queue or with an open channel
\* until its visit is stored.
THEOREM EventsAreKept == Spec => []NoEventDropped
  <1>1. Init => NoEventDropped
    BY DEF Init, NoEventDropped
  <1>2. QED
    BY <1>1, DroppedStep, VisitTypes, PathHolds, PTL DEF Spec

(***************************************************************************)
(* Several deliveries of one event                                         *)
(***************************************************************************)
\* What the broker handed to a consumer and the consumer is not done with.
Handed(c) == running[c] \cup finished[c]

HandlersOf(e) == {c \in Channel : e \in Handed(c)}

Broken == {c \in Channel : chan[c] \in {"lost", "gone"}}

\* An event is with the broker or with one open channel, not with both and not
\* with two; every other handler that has it belongs to a channel that is lost.
LiveInv ==
    /\ \A c \in Channel : Handed(c) # {} => chan[c] \in {"open", "lost"}
    /\ \A c \in Channel : running[c] \cap finished[c] = {}
    /\ \A c \in Channel : chan[c] = "open" => Handed(c) \cap ready = {}
    /\ \A c, d \in Channel :
          c # d /\ chan[c] = "open" /\ chan[d] = "open" => Handed(c) \cap Handed(d) = {}

\* A requeue, a redelivery and the first delivery each hand over what is nowhere else.
LEMMA LiveStep ==
    ASSUME TypeOK, PathInv, LiveInv, [Next]_vars
    PROVE  LiveInv'
  <1> USE DEF requestVars, consumerVars, ghostVars, Handed
  <1>1. ASSUME NEW r \in Request, Publish(r)
        PROVE  LiveInv'
    <2>1. \A c \in Channel : r \notin Handed(c)
      BY <1>1 DEF PathInv, Publish
    <2>2. QED
      BY <1>1, <2>1 DEF LiveInv, Publish
  <1>2. ASSUME NEW c \in Channel, OpenChannel(c)
        PROVE  LiveInv'
    <2>1. Handed(c) = {}
      BY <1>2 DEF LiveInv, OpenChannel
    <2>2. QED
      BY <1>2, <2>1 DEF TypeOK, LiveInv, OpenChannel
  <1>3. ASSUME NEW c \in Channel, ChannelLost(c)
        PROVE  LiveInv'
    BY <1>3 DEF TypeOK, LiveInv, ChannelLost, Unacknowledged
  <1>4. ASSUME NEW c \in Channel, ConsumerCrash(c)
        PROVE  LiveInv'
    BY <1>4 DEF TypeOK, LiveInv, ConsumerCrash, Unacknowledged
  <1>5. ASSUME NEW c \in Channel, NEW e \in Request, Deliver(c, e)
        PROVE  LiveInv'
    BY <1>5 DEF TypeOK, LiveInv, Deliver
  <1>6. ASSUME NEW c \in Channel, NEW e \in Request, Ack(c, e)
        PROVE  LiveInv'
    BY <1>6 DEF TypeOK, LiveInv, Ack
  <1>7. ASSUME NEW c \in Channel, NEW e \in Request, ProcessEvent(c, e)
        PROVE  LiveInv'
    BY <1>7 DEF TypeOK, LiveInv, ProcessEvent
  <1>8. ASSUME NEW c \in Channel, NEW e \in Request, ProcessingFails(c, e)
        PROVE  LiveInv'
    BY <1>8 DEF TypeOK, LiveInv, ProcessingFails
  <1>9. ASSUME UNCHANGED consumerVars
        PROVE  LiveInv'
    BY <1>9 DEF LiveInv
  <1>10. ASSUME \/ \E r \in Request : RequestStep(r) /\ ~Publish(r)
                \/ OwnerStep \/ CacheEmptied \/ StatsLost \/ UNCHANGED vars
         PROVE  UNCHANGED <<ready, chan, running, finished>>
    BY <1>10 DEF RequestStep, HitCache, LoadFromDatabase, FillCache, Reject, GrantLimited,
                 DenyLimited, GrantUnlimited, PublishFails, OwnerStep, Update, SetAccess,
                 Invalidate, RemoveBegin, RemoveEnd, CacheEmptied, StatsLost, vars
  <1>11. ASSUME UNCHANGED <<ready, chan, running, finished>>
         PROVE  LiveInv'
    BY <1>11 DEF LiveInv
  <1>12. QED
    BY <1>1, <1>2, <1>3, <1>4, <1>5, <1>6, <1>7, <1>8, <1>10, <1>11 DEF Next, ConsumerStep

\* An event is with one open channel at most in every reachable state.
LEMMA LiveHolds == Spec => []LiveInv
  <1>1. Init => LiveInv
    BY DEF Init, LiveInv, Handed
  <1>2. QED
    BY <1>1, LiveStep, VisitTypes, PathHolds, PTL DEF Spec

\* Every channel that broke has cost a fault.
BrokenInv == IsFiniteSet(Broken) /\ Cardinality(Broken) <= faults

\* A step breaks one channel at most, and counts a fault for it.
LEMMA BrokenStep ==
    ASSUME TypeOK, BrokenInv, [Next]_vars
    PROVE  BrokenInv'
  <1> USE DEF requestVars, consumerVars, ghostVars
  <1>1. ASSUME NEW c \in Channel, ChannelLost(c) \/ ConsumerCrash(c)
        PROVE  BrokenInv'
    <2>1. Broken' = Broken \cup {c} /\ faults' = faults + 1
      BY <1>1 DEF TypeOK, Broken, ChannelLost, ConsumerCrash, Fault
    <2>2. /\ IsFiniteSet(Broken \cup {c})
          /\ Cardinality(Broken \cup {c}) <= Cardinality(Broken) + 1
          /\ Cardinality(Broken) \in Nat
      <3>1. IsFiniteSet(Broken) /\ Cardinality(Broken) \in Nat
        BY FS_CardinalityType DEF BrokenInv
      <3>2. /\ IsFiniteSet(Broken \cup {c})
            /\ \/ Cardinality(Broken \cup {c}) = Cardinality(Broken)
               \/ Cardinality(Broken \cup {c}) = Cardinality(Broken) + 1
        BY <3>1, FS_AddElement
      <3>3. QED
        BY <3>1, <3>2
    <2>3. faults \in Nat
      BY DEF TypeOK
    <2>4. Cardinality(Broken \cup {c}) \in Nat
      BY <2>2, FS_CardinalityType
    <2> HIDE DEF Broken
    <2>5. QED
      BY <2>1, <2>2, <2>3, <2>4 DEF BrokenInv
  <1>2. ASSUME NEW c \in Channel, OpenChannel(c)
        PROVE  Broken' = Broken /\ faults' = faults
    BY <1>2 DEF TypeOK, Broken, OpenChannel
  <1>3. ASSUME NEW c \in Channel, NEW e \in Request, ConsumerStep(c, e)
        PROVE  Broken' = Broken /\ faults' \in {faults, faults + 1}
    BY <1>3 DEF Broken, ConsumerStep, Deliver, ProcessEvent, ProcessingFails, Ack, Fault
  <1>4. ASSUME \/ \E r \in Request : RequestStep(r)
               \/ OwnerStep \/ CacheEmptied \/ StatsLost \/ UNCHANGED vars
        PROVE  Broken' = Broken /\ faults' = faults
    BY <1>4 DEF Broken, RequestStep, HitCache, LoadFromDatabase, FillCache, Reject,
                GrantLimited, DenyLimited, GrantUnlimited, Publish, PublishFails, OwnerStep,
                Update, SetAccess, Invalidate, RemoveBegin, RemoveEnd, CacheEmptied,
                StatsLost, vars
  <1>5. ASSUME Broken' = Broken, faults' \in {faults, faults + 1}
        PROVE  BrokenInv'
    <2>1. faults \in Nat /\ Cardinality(Broken) \in Nat
      BY FS_CardinalityType DEF TypeOK, BrokenInv
    <2>2. QED
      BY <1>5, <2>1 DEF BrokenInv
  <1>6. QED
    BY <1>1, <1>2, <1>3, <1>4, <1>5 DEF Next

\* The faults pay for the broken channels in every reachable state.
LEMMA BrokenHolds == Spec => []BrokenInv
  <1>1. Init => BrokenInv
    <2>1. ASSUME Init PROVE Broken = {} /\ faults = 0
      BY <2>1 DEF Init, Broken
    <2>2. QED
      BY <2>1, FS_EmptySet DEF BrokenInv
  <1>2. QED
    BY <1>1, BrokenStep, VisitTypes, PTL DEF Spec

\* Two handlers have the same event at once only if a channel was lost under
\* one of them, and no more handlers do than there were faults, plus one.
OverlapIsPaidFor ==
    \A e \in Request :
        /\ \A c, d \in HandlersOf(e) : c # d => "lost" \in {chan[c], chan[d]}
        /\ IsFiniteSet(HandlersOf(e))
        /\ Cardinality(HandlersOf(e)) <= 1 + faults

\* Handlers overlap over one event only after a channel was lost, one for each:
\* redeliveries are all the unique eventId of a visit is needed for.
THEOREM OverlapNeedsALostChannel == Spec => []OverlapIsPaidFor
  <1>1. ASSUME TypeOK, LiveInv, BrokenInv, NEW e \in Request
        PROVE  /\ \A c, d \in HandlersOf(e) : c # d => "lost" \in {chan[c], chan[d]}
               /\ IsFiniteSet(HandlersOf(e))
               /\ Cardinality(HandlersOf(e)) <= 1 + faults
    <2>1. \A c, d \in HandlersOf(e) : c # d => "lost" \in {chan[c], chan[d]}
      BY <1>1 DEF LiveInv, HandlersOf
    <2>2. \A c \in HandlersOf(e) : c \in Broken \/ chan[c] = "open"
      BY <1>1 DEF LiveInv, HandlersOf, Broken
    <2>3. /\ IsFiniteSet(Broken) /\ Cardinality(Broken) \in Nat
          /\ Cardinality(Broken) <= faults /\ faults \in Nat
      BY <1>1, FS_CardinalityType DEF BrokenInv, TypeOK
    <2>4. PICK c : HandlersOf(e) \subseteq Broken \cup {c}
      <3>1. CASE \E c \in HandlersOf(e) : chan[c] = "open"
        <4>1. PICK c \in HandlersOf(e) : chan[c] = "open"
          BY <3>1
        <4>2. \A d \in HandlersOf(e) : d = c \/ d \in Broken
          BY <2>1, <2>2, <4>1
        <4>3. QED
          BY <4>2
      <3>2. CASE \A c \in HandlersOf(e) : chan[c] # "open"
        BY <2>2, <3>2
      <3>3. QED
        BY <3>1, <3>2
    <2>5. /\ IsFiniteSet(Broken \cup {c})
          /\ \/ Cardinality(Broken \cup {c}) = Cardinality(Broken)
             \/ Cardinality(Broken \cup {c}) = Cardinality(Broken) + 1
      BY <2>3, FS_AddElement
    <2>6. /\ IsFiniteSet(HandlersOf(e))
          /\ Cardinality(HandlersOf(e)) <= Cardinality(Broken \cup {c})
      BY <2>4, <2>5, FS_Subset
    <2>7. Cardinality(HandlersOf(e)) \in Nat
      BY <2>6, FS_CardinalityType
    <2>8. QED
      BY ONLY <2>1, <2>3, <2>5, <2>6, <2>7
  <1>2. TypeOK /\ LiveInv /\ BrokenInv => OverlapIsPaidFor
    BY <1>1 DEF OverlapIsPaidFor
  <1>3. QED
    BY <1>2, VisitTypes, LiveHolds, BrokenHolds, PTL

(***************************************************************************)
(* Limits                                                                  *)
(***************************************************************************)
\* LimitedFromTheStart made inductive: no snapshot of such a link is without
\* a limit, and the allowance covers what the UPDATE can still grant.
LimitInv ==
    ~everUnlimited =>
        /\ link.maxVisits # NoLimit
        /\ cache # NoSnapshot => cache.maxVisits # NoLimit
        /\ \A r \in Request :
              pc[r] \in {"loaded", "resolved"} => snap[r].maxVisits # NoLimit
        /\ unlimited = {}
        /\ allowance >= 0
        /\ link.exists => allowance >= link.maxVisits - link.visitCount

\* A grant takes one from the allowance and counts one visit, and the owner's edit sets the
\* allowance anew.
LEMMA LimitStep ==
    ASSUME VisitAssumption, SnapshotAssumption, TypeOK, LimitInv, [Next]_vars
    PROVE  LimitInv'
  <1> USE DEF requestVars, consumerVars, ghostVars, GoTo, Answer
  <1> SUFFICES ASSUME ~everUnlimited'
               PROVE  /\ link'.maxVisits # NoLimit
                      /\ cache' # NoSnapshot => cache'.maxVisits # NoLimit
                      /\ \A r \in Request : pc'[r] \in {"loaded", "resolved"}
                            => snap'[r].maxVisits # NoLimit
                      /\ unlimited' = {}
                      /\ allowance' >= 0
                      /\ link'.exists => allowance' >= link'.maxVisits - link'.visitCount
    BY DEF LimitInv
  <1> DEFINE Snaps == /\ cache' # NoSnapshot => cache'.maxVisits # NoLimit
                      /\ \A r \in Request : pc'[r] \in {"loaded", "resolved"}
                            => snap'[r].maxVisits # NoLimit
             Room == /\ link'.maxVisits # NoLimit
                     /\ unlimited' = {}
                     /\ allowance' >= 0
                     /\ link'.exists => allowance' >= link'.maxVisits - link'.visitCount
  <1>1. link \in LinkRow /\ allowance \in Int /\ Limits \subseteq Nat \cup {NoLimit}
    BY DEF TypeOK, Limits, VisitAssumption
  <1>2. ASSUME ~everUnlimited
        PROVE  /\ link.maxVisits # NoLimit
               /\ link.maxVisits \in Nat /\ link.visitCount \in Nat
               /\ cache # NoSnapshot => cache.maxVisits # NoLimit
               /\ \A r \in Request : pc[r] \in {"loaded", "resolved"}
                     => snap[r].maxVisits # NoLimit
               /\ unlimited = {}
               /\ allowance >= 0
               /\ link.exists => allowance >= link.maxVisits - link.visitCount
    BY <1>1, <1>2 DEF LimitInv, LinkRow
  <1>3. ASSUME UNCHANGED <<link, unlimited, allowance, everUnlimited>>
        PROVE  Room
    BY <1>2, <1>3
  <1>4. ASSUME UNCHANGED everUnlimited, cache' \in {cache, NoSnapshot},
               UNCHANGED <<pc, snap>>
        PROVE  Snaps
    BY <1>2, <1>4
  <1>5. ASSUME NEW r \in Request, HitCache(r)
        PROVE  Snaps /\ Room
    BY <1>2, <1>3, <1>5 DEF TypeOK, HitCache
  <1>6. ASSUME NEW r \in Request, LoadFromDatabase(r)
        PROVE  Snaps /\ Room
    BY <1>2, <1>3, <1>6 DEF TypeOK, LoadFromDatabase, Current
  <1>7. ASSUME NEW r \in Request, FillCache(r)
        PROVE  Snaps /\ Room
    BY <1>2, <1>3, <1>7 DEF TypeOK, FillCache
  <1>8. ASSUME NEW r \in Request,
               Reject(r) \/ DenyLimited(r) \/ Publish(r) \/ PublishFails(r)
        PROVE  Snaps /\ Room
    BY <1>2, <1>3, <1>8 DEF TypeOK, Reject, DenyLimited, AsksForLimitedVisit, Publish,
                            PublishFails
  <1>9. ASSUME NEW r \in Request, GrantLimited(r)
        PROVE  Snaps /\ Room
    <2>1. Snaps
      BY <1>2, <1>9 DEF TypeOK, GrantLimited
    <2>2. /\ link'.maxVisits = link.maxVisits
          /\ link'.visitCount = link.visitCount + 1
          /\ link'.exists = link.exists
      BY <1>9, GrantedLink
    <2>3. link.exists /\ link.visitCount < link.maxVisits
      BY <1>9 DEF GrantLimited, UpdateMatches
    <2>4. UNCHANGED <<everUnlimited, unlimited>> /\ allowance' = allowance - 1
      BY <1>9 DEF GrantLimited
    <2>5. QED
      BY <1>1, <1>2, <2>1, <2>2, <2>3, <2>4
  <1>10. ASSUME NEW r \in Request, GrantUnlimited(r)
         PROVE  FALSE
    BY <1>2, <1>10 DEF GrantUnlimited
  <1>11. ASSUME NEW c \in Channel, NEW e \in Request,
                ProcessEvent(c, e) \/ ProcessingFails(c, e)
         PROVE  Snaps /\ Room
    <2>1. /\ UNCHANGED <<everUnlimited, unlimited, allowance, cache, pc, snap>>
          /\ Commit(e) \/ link' = link
      BY <1>11 DEF ProcessEvent, ProcessingFails
    <2>2. Commit(e) => link' = link
      BY <1>2, <2>1 DEF Commit, CountsVisit
    <2>3. QED
      BY <1>3, <1>4, <2>1, <2>2
  <1>12. ASSUME NEW n \in Limits, NEW a \in BOOLEAN, Update(n, a)
         PROVE  Snaps /\ Room
    <2>1. ~everUnlimited /\ n # NoLimit /\ n \in Nat
      BY <1>1, <1>12 DEF Update
    <2>2. /\ link'.maxVisits = n
          /\ link'.visitCount = link.visitCount
          /\ link'.exists = link.exists
      BY <1>12, EditedLink
    <2>3. allowance' = IF n = link.maxVisits THEN allowance
                       ELSE IF n < link.visitCount THEN 0 ELSE n - link.visitCount
      BY <1>12, <2>1 DEF Update
    <2>4. Room
      <3>1. allowance' >= 0 /\ (link.exists => allowance' >= n - link.visitCount)
        BY <1>1, <1>2, <2>1, <2>3
      <3>2. unlimited' = {}
        BY <1>2, <1>12, <2>1 DEF Update
      <3>3. QED
        BY <2>1, <2>2, <3>1, <3>2
    <2>5. Snaps
      BY <1>2, <1>12, <2>1 DEF Update
    <2>6. QED
      BY <2>4, <2>5
  <1>13. ASSUME RemoveEnd \/ SetAccess
         PROVE  Snaps /\ Room
    <2>1. UNCHANGED <<everUnlimited, unlimited, allowance, cache, pc, snap>>
      BY <1>13 DEF RemoveEnd, SetAccess
    <2>2. QED
      BY <1>2, <1>4, <1>13, <2>1, RemovedLink
  <1>14. ASSUME NEW c \in Channel, OpenChannel(c) \/ ChannelLost(c) \/ ConsumerCrash(c)
         PROVE  Snaps /\ Room
    BY <1>3, <1>4, <1>14 DEF OpenChannel, ChannelLost, ConsumerCrash
  <1>15. ASSUME NEW c \in Channel, NEW e \in Request, Deliver(c, e) \/ Ack(c, e)
         PROVE  Snaps /\ Room
    BY <1>3, <1>4, <1>15 DEF Deliver, Ack
  <1>16. ASSUME Invalidate \/ RemoveBegin \/ CacheEmptied \/ StatsLost
         PROVE  Snaps /\ Room
    BY <1>3, <1>4, <1>16 DEF Invalidate, RemoveBegin, CacheEmptied, StatsLost
  <1>17. CASE UNCHANGED vars
    BY <1>3, <1>4, <1>17 DEF vars
  <1>18. QED
    BY <1>5, <1>6, <1>7, <1>8, <1>9, <1>10, <1>11, <1>12, <1>13, <1>14, <1>15,
       <1>16, <1>17 DEF Next, RequestStep, ConsumerStep, OwnerStep

\* A link that always had a limit is never visited more often than its limit
\* allowed when it was set.
THEOREM LimitIsStrict == Spec => []LimitedFromTheStart
  <1>1. Init => LimitInv
    <2> SUFFICES ASSUME Init, ~everUnlimited
                 PROVE  LimitInv
      BY DEF LimitInv
    <2>1. PICK n \in Limits : /\ link = [exists |-> TRUE, active |-> TRUE, maxVisits |-> n,
                                         visitCount |-> 0, ver |-> 0]
                              /\ allowance = AllowanceOf(n)
                              /\ everUnlimited = (n = NoLimit)
      BY DEF Init
    <2>2. n # NoLimit /\ n \in Nat
      BY <2>1, VisitAssumption DEF Limits, VisitAssumption
    <2>3. QED
      BY <2>1, <2>2 DEF Init, LimitInv, AllowanceOf
  <1>2. LimitInv => LimitedFromTheStart
    BY DEF LimitInv, LimitedFromTheStart
  <1>3. QED
    BY <1>1, <1>2, LimitStep, VisitTypes, VisitAssumption, SnapshotAssumption, PTL DEF Spec
(***************************************************************************)
(* The Redis counter                                                       *)
(***************************************************************************)
\* No count anyone remembers, in a snapshot or in Redis, exceeds the visits
\* granted so far.
SeenInv ==
    /\ cache # NoSnapshot => cache.visitCount <= Cardinality(Granted)
    /\ \A r \in Request : pc[r] \in {"loaded", "resolved"}
          => snap[r].visitCount <= Cardinality(Granted)
    /\ StatsNeverAhead

\* Nothing is counted that was not granted.
LEMMA CountedWereGranted ==
    ASSUME VisitAssumption, TypeOK, PathInv, CountExact, link.exists
    PROVE  link.visitCount <= Cardinality(Granted)
  <1> USE DEF Granted, Processed
  <1>1. /\ IsFiniteSet(limited) /\ IsFiniteSet(unlimited) /\ IsFiniteSet(Processed)
        /\ Cardinality(limited) \in Nat /\ Cardinality(unlimited) \in Nat
        /\ Cardinality(Processed) \in Nat
    BY CountType DEF TypeOK
  <1>2. Cardinality(Processed) <= Cardinality(unlimited)
    BY <1>1, FS_Subset
  <1>3. Cardinality(Granted) = Cardinality(limited) + Cardinality(unlimited)
    <2>1. limited \cap unlimited = {}
      BY DEF PathInv
    <2>2. Cardinality(limited \cap unlimited) = 0
      BY <2>1, FS_EmptySet
    <2>3. Cardinality(limited \cup unlimited)
             = Cardinality(limited) + Cardinality(unlimited)
                 - Cardinality(limited \cap unlimited)
      BY <1>1, FS_Union, Zenon
    <2>4. QED
      BY <1>1, <2>2, <2>3
  <1>4. QED
    BY <1>1, <1>2, <1>3 DEF CountExact

\* A grant is never taken back.
LEMMA GrantedGrows ==
    ASSUME VisitAssumption, TypeOK, TypeOK', [Next]_vars
    PROVE  /\ Cardinality(Granted) \in Nat
           /\ Cardinality(Granted') \in Nat
           /\ Cardinality(Granted) <= Cardinality(Granted')
  <1>1. limited \subseteq limited' /\ unlimited \subseteq unlimited'
    BY DEF Next, RequestStep, ConsumerStep, OwnerStep, vars, requestVars, HitCache,
           LoadFromDatabase, FillCache, Reject, GrantLimited, DenyLimited,
           GrantUnlimited, Publish, PublishFails, OpenChannel, ChannelLost,
           ConsumerCrash, Deliver, ProcessEvent, ProcessingFails, Ack, Update,
           SetAccess, Invalidate, RemoveBegin, RemoveEnd, CacheEmptied, StatsLost
  <1>2. Granted \in SUBSET Request /\ Granted' \in SUBSET Request
    BY DEF TypeOK, Granted
  <1>3. IsFiniteSet(Granted')
    BY <1>2, CountType
  <1>4. Granted \subseteq Granted'
    BY <1>1 DEF Granted
  <1>5. QED
    BY <1>2, <1>3, <1>4, CountType, FS_Subset

\* No snapshot counts more visits than were granted, as each was loaded from the row.
LEMMA SeenStep ==
    ASSUME VisitAssumption, SnapshotAssumption, TypeOK, TypeOK', PathInv, CountExact,
           SeenInv, [Next]_vars
    PROVE  SeenInv'
  <1> USE DEF requestVars, consumerVars, ghostVars, GoTo, Answer
  <1> DEFINE old == Cardinality(Granted)
             new == Cardinality(Granted')
             Snaps == /\ cache' # NoSnapshot => cache'.visitCount <= new
                      /\ \A r \in Request : pc'[r] \in {"loaded", "resolved"}
                            => snap'[r].visitCount <= new
             Stats == stats' # NoKey => stats' <= new
  <1> SUFFICES Snaps /\ Stats
    BY DEF SeenInv, StatsNeverAhead
  <1>1. old \in Nat /\ new \in Nat /\ old <= new
    BY GrantedGrows
  <1> HIDE DEF old, new
  <1>2. /\ cache # NoSnapshot => cache.visitCount \in Nat /\ cache.visitCount <= new
        /\ \A r \in Request : pc[r] \in {"loaded", "resolved"}
              => snap[r].visitCount \in Nat /\ snap[r].visitCount <= new
        /\ stats # NoKey => stats \in Nat /\ stats <= new
    BY <1>1 DEF SeenInv, StatsNeverAhead, TypeOK, Snapshot, old
  <1>3. ASSUME NEW r \in Request, HitCache(r)
        PROVE  Snaps /\ Stats
    BY <1>2, <1>3 DEF TypeOK, HitCache
  <1>4. ASSUME NEW r \in Request, LoadFromDatabase(r)
        PROVE  Snaps /\ Stats
    <2>1. link.exists => link.visitCount \in Nat /\ link.visitCount <= new
      BY <1>1, CountedWereGranted DEF TypeOK, LinkRow, old
    <2>2. QED
      BY <1>2, <1>4, <2>1 DEF TypeOK, LoadFromDatabase, Current
  <1>5. ASSUME NEW r \in Request, FillCache(r)
        PROVE  Snaps /\ Stats
    BY <1>2, <1>5 DEF TypeOK, FillCache
  <1>6. ASSUME NEW r \in Request, \/ Reject(r) \/ GrantLimited(r) \/ DenyLimited(r)
                                  \/ Publish(r) \/ PublishFails(r)
        PROVE  Snaps /\ Stats
    BY <1>2, <1>6 DEF TypeOK, Reject, GrantLimited, DenyLimited, Publish, PublishFails
  <1>7. ASSUME NEW r \in Request, GrantUnlimited(r)
        PROVE  Snaps /\ Stats
    <2>1. r \notin Granted /\ Granted' = Granted \cup {r}
      BY <1>7 DEF PathInv, GrantUnlimited, Granted
    <2>2. new = old + 1
      BY <2>1, AddOne DEF TypeOK, Granted, old, new
    <2>3. Incremented(snap[r]) <= new
      BY <1>1, <1>7, <2>2 DEF SeenInv, StatsNeverAhead, TypeOK, Snapshot, Incremented,
                              GrantUnlimited, old
    <2>4. Snaps
      BY <1>2, <1>7 DEF TypeOK, GrantUnlimited
    <2>5. Stats
      BY <1>2, <1>7, <2>3 DEF GrantUnlimited
    <2>6. QED
      BY <2>4, <2>5
  <1>8. ASSUME cache' \in {cache, NoSnapshot}, stats' \in {stats, NoKey},
               UNCHANGED <<pc, snap>>
        PROVE  Snaps /\ Stats
    BY <1>2, <1>8
  <1>9. ASSUME NEW c \in Channel, OpenChannel(c) \/ ChannelLost(c) \/ ConsumerCrash(c)
        PROVE  Snaps /\ Stats
    BY <1>8, <1>9 DEF OpenChannel, ChannelLost, ConsumerCrash
  <1>10. ASSUME NEW c \in Channel, NEW e \in Request, ConsumerStep(c, e)
         PROVE  Snaps /\ Stats
    BY <1>8, <1>10 DEF ConsumerStep, Deliver, ProcessEvent, ProcessingFails, Ack
  <1>11. ASSUME OwnerStep \/ CacheEmptied \/ StatsLost
         PROVE  Snaps /\ Stats
    BY <1>8, <1>11 DEF OwnerStep, Update, SetAccess, Invalidate, RemoveBegin, RemoveEnd,
                       CacheEmptied, StatsLost
  <1>12. CASE UNCHANGED vars
    BY <1>8, <1>12 DEF vars
  <1>13. QED
    BY <1>3, <1>4, <1>5, <1>6, <1>7, <1>9, <1>10, <1>11, <1>12 DEF Next, RequestStep

\* The Redis counter, whenever it exists, is at most the visits granted.
THEOREM StatsBehind == Spec => []StatsNeverAhead
  <1>1. Init => SeenInv
    BY DEF Init, SeenInv, StatsNeverAhead
  <1>2. SeenInv => StatsNeverAhead
    BY DEF SeenInv
  <1>3. QED
    BY <1>1, <1>2, SeenStep, VisitTypes, PathHolds, ExactCounting, VisitAssumption,
       SnapshotAssumption, PTL DEF Spec

(***************************************************************************)
(* Counting by groups                                                      *)
(***************************************************************************)
\* How many things have each key (GROUP BY).
GroupBy(E, key) == [k \in {key[e] : e \in E} |-> Cardinality({e \in E : key[e] = k})]

\* Things that are grouped and counted group by group are all counted once.
LEMMA GroupsCountOnce ==
    ASSUME NEW E, IsFiniteSet(E), NEW K, NEW key \in [E -> K]
    PROVE  /\ IsFiniteSet(DOMAIN GroupBy(E, key))
           /\ GroupBy(E, key) \in [DOMAIN GroupBy(E, key) -> Nat]
           /\ Total(GroupBy(E, key)) = Cardinality(E)
  <1> DEFINE group == GroupBy(E, key)
             Keys == {key[e] : e \in E}
             Of(k) == {e \in E : key[e] = k}
  <1>1. \A k \in Keys : /\ Cardinality(Of(k)) \in Nat
                        /\ \E f : f \in Bijection(1..Cardinality(Of(k)), Of(k))
    <2> SUFFICES ASSUME NEW k \in Keys
                 PROVE  /\ Cardinality(Of(k)) \in Nat
                        /\ \E f : f \in Bijection(1..Cardinality(Of(k)), Of(k))
      OBVIOUS
    <2>1. IsFiniteSet(Of(k))
      BY FS_Subset
    <2> HIDE DEF Of
    <2> QED
      BY <2>1, FS_CardinalityType DEF ExistsBijection
  <1>2. IsFiniteSet(Keys)
    <2>1. key \in Surjection(E, Keys)
      BY DEF Surjection
    <2> HIDE DEF Keys
    <2> QED
      BY <2>1, FS_Surjection
  <1>3. DOMAIN group = Keys /\ \A k \in Keys : group[k] = Cardinality(Of(k))
    BY DEF GroupBy
  <1>4. group \in [DOMAIN group -> Nat]
    <2>1. \A k \in Keys : group[k] \in Nat
      BY <1>1, <1>3
    <2>2. group = [k \in Keys |-> group[k]]
      BY DEF GroupBy
    <2> HIDE DEF Keys, Of
    <2> QED
      BY <2>1, <2>2, <1>3
  <1> DEFINE nth == [k \in Keys |-> CHOOSE f : f \in Bijection(1..group[k], Of(k))]
             Pairs == UNION {{k} \X (1..group[k]) : k \in DOMAIN group}
             elem == [p \in Pairs |-> nth[p[1]][p[2]]]
  <1>5. \A k \in Keys : nth[k] \in Bijection(1..group[k], Of(k))
    BY <1>1, <1>3
  <1>6. /\ \A k \in Keys : nth[k] \in [1..group[k] -> Of(k)]
        /\ \A k \in Keys : \A i, j \in 1..group[k] : nth[k][i] = nth[k][j] => i = j
        /\ \A k \in Keys : \A e \in Of(k) : \E i \in 1..group[k] : nth[k][i] = e
    <2> HIDE DEF nth, Keys, Of
    <2> QED
      BY <1>5 DEF Bijection, Injection, IsInjective, Surjection
  <1>7. \A p \in Pairs : p[1] \in Keys /\ p[2] \in 1..group[p[1]] /\ p = <<p[1], p[2]>>
    <2> SUFFICES ASSUME NEW p \in Pairs
                 PROVE  p[1] \in Keys /\ p[2] \in 1..group[p[1]] /\ p = <<p[1], p[2]>>
      OBVIOUS
    <2>1. PICK k \in DOMAIN group : p \in {k} \X (1..group[k])
      OBVIOUS
    <2> QED
      BY <2>1, <1>3
  <1>8. \A k \in Keys : \A i \in 1..group[k] : <<k, i>> \in Pairs
    BY <1>3
  <1>9. elem \in [Pairs -> E] /\ \A p \in Pairs : key[elem[p]] = p[1]
    <2>1. \A p \in Pairs : nth[p[1]][p[2]] \in Of(p[1])
      <3> SUFFICES ASSUME NEW p \in Pairs
                   PROVE  nth[p[1]][p[2]] \in Of(p[1])
        OBVIOUS
      <3>1. p[1] \in Keys /\ p[2] \in 1..group[p[1]]
        BY <1>7
      <3>2. nth[p[1]] \in [1..group[p[1]] -> Of(p[1])]
        BY <1>6, <3>1
      <3> HIDE DEF nth, Keys, Of, Pairs
      <3> QED
        BY <3>1, <3>2
    <2>2. \A k : \A e \in Of(k) : e \in E /\ key[e] = k
      OBVIOUS
    <2> HIDE DEF nth, Keys, Of, Pairs
    <2> QED
      BY <2>1, <2>2
  <1>10. \A p, r \in Pairs : elem[p] = elem[r] => p = r
    <2> SUFFICES ASSUME NEW p \in Pairs, NEW r \in Pairs, elem[p] = elem[r]
                 PROVE  p = r
      OBVIOUS
    <2>1. elem[p] = nth[p[1]][p[2]] /\ elem[r] = nth[r[1]][r[2]]
      OBVIOUS
    <2>2. key[elem[p]] = p[1] /\ key[elem[r]] = r[1]
      BY <1>9, <2>1
    <2>3. p[1] = r[1]
      BY <2>2
    <2>4. /\ p[1] \in Keys /\ p[2] \in 1..group[p[1]] /\ p = <<p[1], p[2]>>
          /\ r[2] \in 1..group[p[1]] /\ r = <<p[1], r[2]>>
      BY <1>7, <2>3
    <2>5. p[2] = r[2]
      <3>1. nth[p[1]][p[2]] = nth[p[1]][r[2]]
        BY <2>1, <2>3
      <3> HIDE DEF nth, Keys, Of, Pairs, elem
      <3>2. \A i, j \in 1..group[p[1]] : nth[p[1]][i] = nth[p[1]][j] => i = j
        BY <2>4, <1>6, Zenon
      <3> QED
        BY <3>1, <3>2, <2>4, Zenon
    <2> QED
      BY <2>4, <2>5
  <1>11. \A e \in E : \E p \in Pairs : elem[p] = e
    <2> SUFFICES ASSUME NEW e \in E
                 PROVE  \E p \in Pairs : elem[p] = e
      OBVIOUS
    <2>1. key[e] \in Keys /\ e \in Of(key[e])
      OBVIOUS
    <2>2. PICK i \in 1..group[key[e]] : nth[key[e]][i] = e
      <3> HIDE DEF nth, Keys, Of
      <3> QED
        BY <2>1, <1>6
    <2>3. <<key[e], i>> \in Pairs
      <3> HIDE DEF Pairs, Keys
      <3> QED
        BY <2>1, <2>2, <1>8
    <2>4. elem[<<key[e], i>>] = nth[key[e]][i]
      <3> HIDE DEF Pairs, nth
      <3> QED
        BY <2>3
    <2> QED
      BY <2>2, <2>3, <2>4
  <1>12. ExistsBijection(E, Pairs)
    <2> HIDE DEF elem, Pairs
    <2>1. elem \in Bijection(Pairs, E)
      BY <1>9, <1>10, <1>11 DEF Bijection, Injection, IsInjective, Surjection
    <2> QED
      BY <2>1, Fun_ExistsBijSymmetric DEF ExistsBijection
  <1>13. Cardinality(Pairs) = Cardinality(E)
    <2> HIDE DEF Pairs
    <2> QED
      BY <1>12, FS_Bijection
  <1> QED
    BY <1>2, <1>3, <1>4, <1>13 DEF Total

\* A list that is cut off claims no more than the whole list.
LEMMA CutListsClaimLess ==
    ASSUME NEW count, IsFiniteSet(DOMAIN count), count \in [DOMAIN count -> Nat]
    PROVE  Total(TopOf(count)) \in Nat /\ Total(count) \in Nat
           /\ Total(TopOf(count)) <= Total(count)
  <1> DEFINE Whole == UNION {{v} \X (1..count[v]) : v \in DOMAIN count}
             top == TopOf(count)
             Part == UNION {{v} \X (1..top[v]) : v \in DOMAIN top}
  <1>1. DOMAIN top \subseteq DOMAIN count /\ \A v \in DOMAIN top : top[v] = count[v]
    BY DEF TopOf
  <1>2. Part \subseteq Whole
    <2> HIDE DEF top
    <2> QED
      BY <1>1
  <1>3. IsFiniteSet(Whole)
    <2> DEFINE Each == [v \in DOMAIN count |-> {v} \X (1..count[v])]
               Sets == {Each[v] : v \in DOMAIN count}
    <2>1. \A v \in DOMAIN count : IsFiniteSet({v} \X (1..count[v]))
      <3> SUFFICES ASSUME NEW v \in DOMAIN count
                   PROVE  IsFiniteSet({v} \X (1..count[v]))
        OBVIOUS
      <3>1. IsFiniteSet({v}) /\ IsFiniteSet(1..count[v])
        <4>1. count[v] \in Nat
          OBVIOUS
        <4>2. IsFiniteSet(1..count[v])
          BY <4>1, FS_Interval
        <4> QED
          BY <4>2, FS_Singleton
      <3> QED
        BY <3>1, FS_Product
    <2>2. Each \in Surjection(DOMAIN count, Sets)
      BY DEF Surjection
    <2>3. \A T \in Sets : IsFiniteSet(T)
      BY <2>1
    <2>4. IsFiniteSet(Sets)
      <3> HIDE DEF Each, Sets
      <3> QED
        BY <2>2, FS_Surjection
    <2>5. Whole = UNION Sets
      BY Zenon
    <2>6. IsFiniteSet(UNION Sets)
      <3> HIDE DEF Each, Sets
      <3> QED
        BY <2>3, <2>4, FS_UNION
    <2> QED
      BY <2>5, <2>6, Zenon
  <1>4. Total(count) = Cardinality(Whole) /\ Total(top) = Cardinality(Part)
    BY DEF Total
  <1> HIDE DEF Whole, Part, top
  <1>5. /\ Cardinality(Whole) \in Nat /\ Cardinality(Part) \in Nat
        /\ Cardinality(Part) <= Cardinality(Whole)
    BY <1>2, <1>3, FS_Subset, FS_CardinalityType
  <1> QED
    BY <1>4, <1>5 DEF top

\* A list that has room for everything names everything.
LEMMA ShortListsAreWhole ==
    ASSUME NEW count, IsFiniteSet(DOMAIN count), count \in [DOMAIN count -> Nat],
           DOMAIN count \subseteq Nat, Cardinality(DOMAIN count) <= Listed
    PROVE  TopOf(count) = count
  <1> DEFINE ahead(v) == {w \in DOMAIN count : \/ count[w] > count[v]
                                               \/ count[w] = count[v] /\ w < v}
             first == {v \in DOMAIN count : Cardinality(ahead(v)) < Listed}
  <1>1. \A v \in DOMAIN count : Cardinality(ahead(v)) < Listed
    <2> SUFFICES ASSUME NEW v \in DOMAIN count
                 PROVE  Cardinality(ahead(v)) < Listed
      OBVIOUS
    <2>1. ahead(v) \subseteq DOMAIN count \ {v}
      OBVIOUS
    <2> HIDE DEF ahead
    <2>2. /\ IsFiniteSet(DOMAIN count \ {v})
          /\ Cardinality(DOMAIN count \ {v}) = Cardinality(DOMAIN count) - 1
      BY FS_RemoveElement
    <2>3. /\ Cardinality(ahead(v)) <= Cardinality(DOMAIN count \ {v})
          /\ IsFiniteSet(ahead(v))
      BY <2>1, <2>2, FS_Subset
    <2> QED
      BY <2>2, <2>3, FS_CardinalityType, AnalyticsAssumption DEF AnalyticsAssumption
  <1>2. first = DOMAIN count
    <2> HIDE DEF ahead
    <2> QED
      BY <1>1
  <1>3. TopOf(count) = [v \in first |-> count[v]]
    BY Zenon DEF TopOf
  <1> HIDE DEF first
  <1> QED
    BY <1>2, <1>3

(***************************************************************************)
(* Types                                                                   *)
(***************************************************************************)
\* Any set of stored visits is finite.
LEMMA VisitsAreFinite ==
    ASSUME NEW E \in SUBSET Stored
    PROVE  IsFiniteSet(E) /\ Cardinality(E) \in Nat
  <1>1. IsFiniteSet(Event) /\ E \in SUBSET Event
    BY AnalyticsAssumption DEF AnalyticsAssumption, Stored
  <1> QED
    BY <1>1, FS_Subset, FS_CardinalityType

\* What a query asks for is stored.
LEMMA MatchingIsStored ==
    ASSUME NEW q
    PROVE  Matching(q) \in SUBSET Stored
  BY DEF Matching, InRange

\* Every variable of the analytics holds a value of its kind.
THEOREM AnalyticsTypes == AnalyticsSpec => []AnalyticsTypeOK
  <1>1. AnalyticsInit => AnalyticsTypeOK
    BY DEF AnalyticsInit, AnalyticsTypeOK
  <1>2. AnalyticsTypeOK /\ [AnalyticsNext]_analyticsVars => AnalyticsTypeOK'
    <2> SUFFICES ASSUME AnalyticsTypeOK, [AnalyticsNext]_analyticsVars
                 PROVE  AnalyticsTypeOK'
      OBVIOUS
    <2>1. ASSUME NEW q \in Query, Ask(q)
          PROVE  AnalyticsTypeOK'
      <3>1. before' \in Nat
        BY <2>1, MatchingIsStored, VisitsAreFinite DEF Ask
      <3>2. todo' \subseteq {"summary", "series", "dimension", "topLinks"}
        BY <2>1 DEF Ask, Parts
      <3> QED
        BY <2>1, <3>1, <3>2 DEF Ask, AnalyticsTypeOK
    <2>2. ASSUME NEW part \in todo, RunQuery(part)
          PROVE  AnalyticsTypeOK'
      BY <2>2 DEF RunQuery, AnalyticsTypeOK
    <2>3. CASE Reply
      BY <2>3 DEF Reply, AnalyticsTypeOK
    <2>4. ASSUME NEW e \in Event, NEW l \in Link, NEW at \in Hour, NEW who \in Visitor,
                 Store(e, l, at, who)
          PROVE  AnalyticsTypeOK'
      BY <2>4 DEF Store, answerVars, AnalyticsTypeOK, Visit
    <2>5. ASSUME NEW l \in Link, RemoveLink(l)
          PROVE  AnalyticsTypeOK'
      BY <2>5 DEF RemoveLink, answerVars, AnalyticsTypeOK
    <2>6. CASE UNCHANGED analyticsVars
      BY <2>6 DEF analyticsVars, answerVars, AnalyticsTypeOK
    <2> QED
      BY <2>1, <2>2, <2>3, <2>4, <2>5, <2>6 DEF AnalyticsNext
  <1> QED
    BY <1>1, <1>2, PTL DEF AnalyticsSpec

\* What is stored of a visit.
LEMMA StoredVisits ==
    ASSUME AnalyticsTypeOK, NEW e \in Stored
    PROVE  visit[e].link \in Link /\ visit[e].at \in Int /\ visit[e].who \in Visitor
           /\ visit[e].at \in Hour
  <1>1. visit[e] \in Visit
    BY DEF AnalyticsTypeOK, Stored
  <1>2. Hour \subseteq Int
    BY AnalyticsAssumption DEF AnalyticsAssumption, Hour
  <1> QED
    BY <1>1, <1>2 DEF Visit

(***************************************************************************)
(* Ranges that meet                                                        *)
(***************************************************************************)
\* Two ranges that meet have no visit in common, and the range of both together has
\* theirs and no other, as a range ends before its last hour begins (where).
THEOREM MeetingRangesAddUp == AnalyticsSpec => []AdjacentRangesAddUp
  <1>1. AnalyticsTypeOK => AdjacentRangesAddUp
    <2> SUFFICES ASSUME AnalyticsTypeOK, NEW ws \in Workspace,
                        NEW from \in 0..Now, NEW middle \in 0..Now, NEW to \in 0..Now,
                        from < middle, middle < to
                 PROVE  Cardinality(InRange(ws, from, middle)) + Cardinality(InRange(ws, middle, to))
                           = Cardinality(InRange(ws, from, to))
      BY DEF AdjacentRangesAddUp
    <2> DEFINE early == InRange(ws, from, middle)
               late == InRange(ws, middle, to)
    <2>1. from \in Int /\ middle \in Int /\ to \in Int
      BY AnalyticsAssumption DEF AnalyticsAssumption
    <2>2. \A e \in Stored : visit[e].at \in Int
      BY StoredVisits
    <2>3. early \cup late = InRange(ws, from, to) /\ early \cap late = {}
      BY <2>1, <2>2 DEF InRange
    <2>4. early \in SUBSET Stored /\ late \in SUBSET Stored
      BY DEF InRange
    <2> HIDE DEF early, late
    <2>5. /\ IsFiniteSet(early) /\ Cardinality(early) \in Nat
          /\ IsFiniteSet(late) /\ Cardinality(late) \in Nat
      BY <2>4, VisitsAreFinite
    <2>6. Cardinality(early \cup late) = Cardinality(early) + Cardinality(late)
      <3>1. Cardinality(early \cup late)
               = Cardinality(early) + Cardinality(late) - Cardinality(early \cap late)
        BY <2>5, FS_Union
      <3>2. Cardinality(early \cap late) = 0
        BY <2>3, FS_EmptySet
      <3> QED
        BY <2>5, <3>1, <3>2
    <2> QED
      BY <2>3, <2>6 DEF early, late
  <1> QED
    BY <1>1, AnalyticsTypes, PTL

(***************************************************************************)
(* What the parts claim                                                    *)
(***************************************************************************)
\* A series counts each of its visits in one bucket.
LEMMA SeriesCounts ==
    ASSUME NEW q, NEW E \in SUBSET Stored, NEW series, series = Series(q, E)
    PROVE  Total([b \in DOMAIN series |-> series[b].clicks]) = Cardinality(E)
  <1> DEFINE key == [e \in E |-> Bucket(q, visit[e].at)]
             Keys == {key[e] : e \in E}
             group == [k \in Keys |-> Cardinality({e \in E : key[e] = k})]
  <1>1. [b \in DOMAIN series |-> series[b].clicks] = group
    <2>1. DOMAIN series = Keys
      BY DEF Series
    <2>2. \A k \in Keys : series[k].clicks = Cardinality({e \in E : Bucket(q, visit[e].at) = k})
      BY DEF Series, Summary
    <2>3. \A k : {e \in E : Bucket(q, visit[e].at) = k} = {e \in E : key[e] = k}
      OBVIOUS
    <2> HIDE DEF key, Keys
    <2> QED
      BY <2>1, <2>2, <2>3
  <1>2. key \in [E -> Keys] /\ IsFiniteSet(E)
    BY VisitsAreFinite
  <1>3. Total(group) = Cardinality(E)
    <2>1. group = GroupBy(E, key)
      BY DEF GroupBy
    <2> HIDE DEF group, Keys, key
    <2> QED
      BY <2>1, <1>2, GroupsCountOnce
  <1> QED
    BY <1>1, <1>3

\* A list of visitors counts no visit twice, and every visit if it is not cut off.
LEMMA DimensionCounts ==
    ASSUME AnalyticsTypeOK, NEW E \in SUBSET Stored
    PROVE  /\ Total(Dimension(E)) \in Nat /\ Total(Dimension(E)) <= Cardinality(E)
           /\ Cardinality(Visitors(E)) <= Listed => Total(Dimension(E)) = Cardinality(E)
  <1> DEFINE key == [e \in E |-> visit[e].who]
             Keys == {key[e] : e \in E}
             group == [k \in Keys |-> Cardinality({e \in E : key[e] = k})]
  <1>1. Visitors(E) = Keys
    BY DEF Visitors
  <1>2. Dimension(E) = TopOf(group)
    <2>1. \A k : {e \in E : visit[e].who = k} = {e \in E : key[e] = k}
      OBVIOUS
    <2>2. [v \in Visitors(E) |-> Cardinality({e \in E : visit[e].who = v})] = group
      <3> HIDE DEF key, Keys
      <3> QED
        BY <1>1, <2>1
    <2> HIDE DEF group
    <2> QED
      BY <2>2 DEF Dimension
  <1>3. key \in [E -> Keys] /\ IsFiniteSet(E)
    BY VisitsAreFinite
  <1>4. /\ IsFiniteSet(DOMAIN group) /\ group \in [DOMAIN group -> Nat]
        /\ Total(group) = Cardinality(E)
    <2>1. group = GroupBy(E, key)
      BY DEF GroupBy
    <2> HIDE DEF group, Keys, key
    <2> QED
      BY <2>1, <1>3, GroupsCountOnce
  <1>5. DOMAIN group = Keys /\ Keys \subseteq Nat
    <2>1. Keys \subseteq Visitor
      BY StoredVisits
    <2> QED
      BY <2>1, AnalyticsAssumption DEF AnalyticsAssumption
  <1> HIDE DEF group, Keys, key
  <1>6. /\ Total(TopOf(group)) \in Nat /\ Total(TopOf(group)) <= Total(group)
    BY <1>4, CutListsClaimLess
  <1>7. Cardinality(Keys) <= Listed => TopOf(group) = group
    BY <1>4, <1>5, ShortListsAreWhole
  <1> QED
    BY <1>1, <1>2, <1>4, <1>6, <1>7

\* A list of links counts no visit twice, and every visit of a link that is there if it
\* is not cut off.
LEMMA TopLinksCount ==
    ASSUME AnalyticsTypeOK, NEW E \in SUBSET Stored
    PROVE  /\ Total(TopLinks(E)) \in Nat /\ Total(TopLinks(E)) <= Cardinality(E)
           /\ Cardinality(LinkedTo(E)) <= Listed =>
                 Total(TopLinks(E)) = Cardinality({e \in E : visit[e].link \in links})
  <1> DEFINE There == {e \in E : visit[e].link \in links}
             key == [e \in There |-> visit[e].link]
             Keys == {key[e] : e \in There}
             group == [k \in Keys |-> Cardinality({e \in There : key[e] = k})]
  <1>1. LinkedTo(E) = Keys
    BY DEF LinkedTo
  <1>2. TopLinks(E) = TopOf(group)
    <2>1. \A k \in links : {e \in E : visit[e].link = k} = {e \in There : key[e] = k}
      OBVIOUS
    <2>2. Keys \subseteq links
      OBVIOUS
    <2>3. [l \in LinkedTo(E) |-> Cardinality({e \in E : visit[e].link = l})] = group
      <3> HIDE DEF key, Keys, There
      <3> QED
        BY <1>1, <2>1, <2>2
    <2> HIDE DEF group
    <2> QED
      BY <2>3 DEF TopLinks
  <1>3. key \in [There -> Keys] /\ IsFiniteSet(There)
    BY VisitsAreFinite
  <1>4. /\ IsFiniteSet(DOMAIN group) /\ group \in [DOMAIN group -> Nat]
        /\ Total(group) = Cardinality(There)
    <2>1. group = GroupBy(There, key)
      BY DEF GroupBy
    <2> HIDE DEF group, Keys, key, There
    <2> QED
      BY <2>1, <1>3, GroupsCountOnce
  <1>5. DOMAIN group = Keys /\ Keys \subseteq Nat
    <2>1. Keys \subseteq Link
      BY StoredVisits
    <2> QED
      BY <2>1, AnalyticsAssumption DEF AnalyticsAssumption
  <1>6. Cardinality(There) \in Nat /\ Cardinality(E) \in Nat /\ Cardinality(There) <= Cardinality(E)
    <2>1. There \subseteq E /\ IsFiniteSet(E)
      BY VisitsAreFinite
    <2> HIDE DEF There
    <2> QED
      BY <2>1, FS_Subset, FS_CardinalityType
  <1> HIDE DEF group, Keys, key
  <1>7. Total(TopOf(group)) \in Nat /\ Total(TopOf(group)) <= Total(group)
    BY <1>4, CutListsClaimLess
  <1>8. Cardinality(Keys) <= Listed => TopOf(group) = group
    BY <1>4, <1>5, ShortListsAreWhole
  <1>9. Total(TopLinks(E)) \in Nat /\ Total(TopLinks(E)) <= Cardinality(E)
    <2> HIDE DEF There
    <2> QED
      BY <1>2, <1>4, <1>6, <1>7
  <1> QED
    BY <1>1, <1>2, <1>4, <1>8, <1>9

(***************************************************************************)
(* The invariant of the analytics                                          *)
(***************************************************************************)
\* The sets of visits that a query may have counted since the request came in.
SeenSince == {E \in SUBSET Matching(query) : before <= Cardinality(E)}

\* What is answered was true at some moment since the request came in, and still is as
\* long as nothing has changed.
TrueOnce ==
    /\ stage = "idle" => DOMAIN answer = {}
    /\ stage = "running" =>
          /\ todo \subseteq Parts(query) /\ DOMAIN answer = Parts(query) \ todo
          /\ before <= Cardinality(Matching(query))
          /\ quiet => \A part \in DOMAIN answer : answer[part] = Result(part)
          /\ "summary" \in DOMAIN answer => \E E \in SeenSince : answer.summary = Summary(E)
          /\ "series" \in DOMAIN answer => \E E \in SeenSince : answer.series = Series(query, E)
          /\ "dimension" \in DOMAIN answer => \E E \in SeenSince : answer.dimension = Dimension(E)
          /\ "topLinks" \in DOMAIN answer =>
                Total(answer.topLinks) \in Nat /\ Total(answer.topLinks) <= Cardinality(Matching(query))

\* What was counted of visits that are stored stays counted so, whatever is stored after
\* them (visits are never changed or removed).
LEMMA CountsStand ==
    ASSUME NEW E \in SUBSET Matching(query), query' = query,
           \A e \in Stored : e \in Stored' /\ visit'[e] = visit[e]
    PROVE  /\ E \in SUBSET Matching(query)'
           /\ Summary(E)' = Summary(E)
           /\ Series(query, E)' = Series(query, E)
           /\ Dimension(E)' = Dimension(E)
  <1>1. \A e \in E : e \in Stored /\ visit'[e] = visit[e] /\ e \in Stored'
    BY MatchingIsStored
  <1>2. E \in SUBSET Matching(query)'
    <2>1. \A e \in Matching(query) : e \in Matching(query)'
      BY DEF Matching, InRange
    <2> QED
      BY <2>1
  <1>3. Visitors(E)' = Visitors(E)
    BY <1>1 DEF Visitors
  <1>4. Summary(E)' = Summary(E)
    BY <1>3 DEF Summary
  <1>5. \A e \in E : Bucket(query, visit[e].at)' = Bucket(query, visit[e].at)
    BY <1>1 DEF Bucket
  <1>6. Series(query, E)' = Series(query, E)
    <2> DEFINE In(b) == {e \in E : Bucket(query, visit[e].at) = b}
               Buckets == {Bucket(query, visit[e].at) : e \in E}
    <2>1. Buckets' = Buckets
      BY <1>5
    <2>2. \A b : In(b)' = In(b)
      BY <1>5
    <2>3. \A b : Summary(In(b))' = Summary(In(b))
      <3> SUFFICES ASSUME NEW b
                   PROVE  Summary(In(b))' = Summary(In(b))
        OBVIOUS
      <3>1. Visitors(In(b))' = Visitors(In(b))
        BY <1>1, <1>5 DEF Visitors
      <3> QED
        BY <2>2, <3>1 DEF Summary
    <2> QED
      BY <2>1, <2>3 DEF Series
  <1>7. Dimension(E)' = Dimension(E)
    <2> DEFINE count == [v \in Visitors(E) |-> Cardinality({e \in E : visit[e].who = v})]
    <2>1. \A v : {e \in E : visit'[e].who = v} = {e \in E : visit[e].who = v}
      BY <1>1
    <2>2. count' = count
      BY <1>3, <2>1
    <2>3. Dimension(E) = TopOf(count) /\ Dimension(E)' = TopOf(count)'
      BY DEF Dimension
    <2>4. TopOf(count)' = TopOf(count)
      <3> HIDE DEF count
      <3> QED
        BY <2>2 DEF TopOf
    <2> QED
      BY <2>3, <2>4
  <1> QED
    BY <1>2, <1>4, <1>6, <1>7

\* A query gives the same answer as long as no visit and no link changes.
LEMMA NothingChanged ==
    ASSUME UNCHANGED <<visit, links, query>>
    PROVE  /\ Matching(query)' = Matching(query)
           /\ \A p : Result(p)' = Result(p)
           /\ \A E : Summary(E)' = Summary(E) /\ Dimension(E)' = Dimension(E)
                    /\ Series(query, E)' = Series(query, E)
  <1>1. Stored' = Stored
    BY DEF Stored
  <1>2. Matching(query)' = Matching(query)
    BY <1>1 DEF Matching, InRange
  <1>3. \A E : Summary(E)' = Summary(E) /\ Dimension(E)' = Dimension(E)
             /\ Series(query, E)' = Series(query, E) /\ TopLinks(E)' = TopLinks(E)
    BY DEF Summary, Visitors, Dimension, Series, Bucket, TopLinks, LinkedTo, TopOf
  <1> QED
    BY <1>2, <1>3 DEF Result

\* The invariant holds at first, when nothing has been asked for.
LEMMA TrueOnceAtFirst == AnalyticsInit => TrueOnce
  BY DEF AnalyticsInit, TrueOnce

\* A query counts what matches when it runs, which is all that matched when the request
\* came in and what was stored since.
LEMMA TrueOnceRunQuery ==
    ASSUME AnalyticsTypeOK, TrueOnce, NEW part \in todo, RunQuery(part)
    PROVE  TrueOnce'
  <1>1. /\ stage = "running" /\ stage' = stage /\ query' = query /\ before' = before
        /\ quiet' = quiet /\ visit' = visit /\ links' = links
        /\ todo' = todo \ {part} /\ DOMAIN answer' = DOMAIN answer \cup {part}
        /\ answer'[part] = Result(part)
        /\ \A p \in DOMAIN answer \ {part} : answer'[p] = answer[p]
    BY DEF RunQuery
  <1>2. /\ Matching(query)' = Matching(query)
        /\ \A p : Result(p)' = Result(p)
        /\ \A E : Summary(E)' = Summary(E) /\ Dimension(E)' = Dimension(E)
                 /\ Series(query, E)' = Series(query, E)
    BY <1>1, NothingChanged
  <1>3. SeenSince' = SeenSince /\ Matching(query) \in SeenSince
    BY <1>1, <1>2 DEF SeenSince, TrueOnce
  <1>4. todo' \subseteq Parts(query)' /\ DOMAIN answer' = Parts(query)' \ todo'
    <2>1. Parts(query)' = Parts(query) /\ DOMAIN answer = Parts(query) \ todo
      BY <1>1 DEF TrueOnce, Parts
    <2> QED
      BY <1>1, <2>1 DEF TrueOnce
  <1>5. quiet' => \A p \in DOMAIN answer' : answer'[p] = Result(p)'
    BY <1>1, <1>2 DEF TrueOnce
  <1>6. /\ Result("summary") = Summary(Matching(query))
        /\ Result("series") = Series(query, Matching(query))
        /\ Result("dimension") = Dimension(Matching(query))
        /\ Result("topLinks") = TopLinks(Matching(query))
    BY DEF Result
  <1>7. "summary" \in DOMAIN answer' => \E E \in SeenSince : answer'.summary = Summary(E)
    BY <1>1, <1>3, <1>6 DEF TrueOnce
  <1>8. "series" \in DOMAIN answer' => \E E \in SeenSince : answer'.series = Series(query, E)
    BY <1>1, <1>3, <1>6 DEF TrueOnce
  <1>9. "dimension" \in DOMAIN answer' => \E E \in SeenSince : answer'.dimension = Dimension(E)
    BY <1>1, <1>3, <1>6 DEF TrueOnce
  <1>10. before' <= Cardinality(Matching(query)')
    BY <1>1, <1>2 DEF TrueOnce
  <1>11. "topLinks" \in DOMAIN answer' =>
            /\ Total(answer'.topLinks) \in Nat
            /\ Total(answer'.topLinks) <= Cardinality(Matching(query)')
    <2>1. CASE part = "topLinks"
      <3>1. Matching(query) \in SUBSET Stored
        BY MatchingIsStored
      <3>2. answer'.topLinks = TopLinks(Matching(query))
        BY <2>1, <1>1, <1>6
      <3> QED
        BY <3>1, <3>2, <1>2, TopLinksCount
    <2>2. CASE part # "topLinks"
      <3>1. "topLinks" \in DOMAIN answer' => "topLinks" \in DOMAIN answer
        BY <2>2, <1>1
      <3>2. "topLinks" \in DOMAIN answer => answer'.topLinks = answer.topLinks
        BY <2>2, <1>1
      <3> QED
        BY <3>1, <3>2, <1>1, <1>2 DEF TrueOnce
    <2> QED
      BY <2>1, <2>2
  <1> QED
    BY <1>1, <1>2, <1>3, <1>4, <1>5, <1>7, <1>8, <1>9, <1>10, <1>11 DEF TrueOnce

\* A visit that is stored or a link that is removed leaves what was counted as it is.
LEMMA TrueOnceChange ==
    ASSUME AnalyticsTypeOK, TrueOnce, UNCHANGED answerVars, quiet' = FALSE,
           \A e \in Stored : e \in Stored' /\ visit'[e] = visit[e]
    PROVE  TrueOnce'
  <1>1. /\ stage' = stage /\ query' = query /\ before' = before
        /\ todo' = todo /\ answer' = answer
    BY DEF answerVars
  <1>2. \A E \in SeenSince : /\ E \in SeenSince' /\ Summary(E)' = Summary(E)
                             /\ Series(query, E)' = Series(query, E)
                             /\ Dimension(E)' = Dimension(E)
    BY <1>1, CountsStand DEF SeenSince
  <1>3. /\ before <= Cardinality(Matching(query)) => before' <= Cardinality(Matching(query)')
        /\ Cardinality(Matching(query)) \in Nat /\ Cardinality(Matching(query)') \in Nat
        /\ Cardinality(Matching(query)) <= Cardinality(Matching(query)')
    <2>1. Matching(query) \subseteq Matching(query)'
      BY <1>1, CountsStand
    <2>2. IsFiniteSet(Matching(query)')
      <3>1. Matching(query)' \in SUBSET Event
        BY DEF Matching, InRange, Stored
      <3> QED
        BY <3>1, FS_Subset, AnalyticsAssumption DEF AnalyticsAssumption
    <2>3. /\ Cardinality(Matching(query)) \in Nat /\ Cardinality(Matching(query)') \in Nat
          /\ Cardinality(Matching(query)) <= Cardinality(Matching(query)')
      BY <2>1, <2>2, FS_Subset, FS_CardinalityType
    <2> QED
      BY <1>1, <2>3 DEF AnalyticsTypeOK
  <1>4. Parts(query)' = Parts(query)
    BY <1>1 DEF Parts
  <1>5. CASE stage = "idle"
    BY <1>1, <1>5 DEF TrueOnce
  <1>6. CASE stage = "running"
    <2>1. /\ todo' \subseteq Parts(query)' /\ DOMAIN answer' = Parts(query)' \ todo'
          /\ before' <= Cardinality(Matching(query)')
      BY <1>1, <1>3, <1>4, <1>6 DEF TrueOnce
    <2>2. "summary" \in DOMAIN answer' => \E E \in SeenSince' : answer'.summary = Summary(E)'
      BY <1>1, <1>2, <1>6 DEF TrueOnce
    <2>3. "series" \in DOMAIN answer' => \E E \in SeenSince' : answer'.series = Series(query, E)'
      BY <1>1, <1>2, <1>6 DEF TrueOnce
    <2>4. "dimension" \in DOMAIN answer' => \E E \in SeenSince' : answer'.dimension = Dimension(E)'
      BY <1>1, <1>2, <1>6 DEF TrueOnce
    <2>5. "topLinks" \in DOMAIN answer' =>
             /\ Total(answer.topLinks)' \in Nat
             /\ Total(answer.topLinks)' <= Cardinality(Matching(query)')
      <3>1. Total(answer.topLinks)' = Total(answer.topLinks)
        BY <1>1 DEF Total
      <3> QED
        BY <1>1, <1>3, <1>6, <3>1 DEF TrueOnce
    <2> QED
      BY <1>1, <1>6, <2>1, <2>2, <2>3, <2>4, <2>5 DEF TrueOnce
  <1> QED
    BY <1>5, <1>6 DEF AnalyticsTypeOK

\* Every step keeps the invariant.
LEMMA TrueOnceStep ==
    ASSUME AnalyticsTypeOK, TrueOnce, [AnalyticsNext]_analyticsVars
    PROVE  TrueOnce'
  <1>1. ASSUME NEW q \in Query, Ask(q)
        PROVE  TrueOnce'
    <2>1. /\ stage' = "running" /\ query' = q /\ todo' = Parts(q) /\ answer' = answer
          /\ visit' = visit /\ before' = Cardinality(Matching(q)) /\ DOMAIN answer = {}
      BY <1>1 DEF Ask, TrueOnce
    <2>2. Matching(query)' = Matching(q)
      BY <2>1 DEF Matching, InRange, Stored
    <2>3. before' <= Cardinality(Matching(query)')
      BY <2>1, <2>2, MatchingIsStored, VisitsAreFinite
    <2>4. Parts(query)' = Parts(q)
      BY <2>1 DEF Parts
    <2> QED
      BY <2>1, <2>3, <2>4 DEF TrueOnce
  <1>2. ASSUME NEW part \in todo, RunQuery(part)
        PROVE  TrueOnce'
    BY <1>2, TrueOnceRunQuery
  <1>3. CASE Reply
    BY <1>3 DEF Reply, TrueOnce
  <1>4. ASSUME NEW e \in Event, NEW l \in Link, NEW at \in Hour, NEW who \in Visitor,
               Store(e, l, at, who)
        PROVE  TrueOnce'
    <2>1. \A d \in Stored : d \in Stored' /\ visit'[d] = visit[d]
      BY <1>4 DEF Store, Stored, AnalyticsTypeOK
    <2> QED
      BY <1>4, <2>1, TrueOnceChange DEF Store
  <1>5. ASSUME NEW l \in Link, RemoveLink(l)
        PROVE  TrueOnce'
    <2>1. \A d \in Stored : d \in Stored' /\ visit'[d] = visit[d]
      BY <1>5 DEF RemoveLink, Stored
    <2> QED
      BY <1>5, <2>1, TrueOnceChange DEF RemoveLink
  <1>6. CASE UNCHANGED analyticsVars
    <2>1. /\ UNCHANGED <<visit, links, query>> /\ stage' = stage /\ todo' = todo
          /\ answer' = answer /\ before' = before /\ quiet' = quiet
      BY <1>6 DEF analyticsVars, answerVars
    <2>2. /\ Matching(query)' = Matching(query)
          /\ \A p : Result(p)' = Result(p)
          /\ \A E : Summary(E)' = Summary(E) /\ Dimension(E)' = Dimension(E)
                   /\ Series(query, E)' = Series(query, E)
      BY <2>1, NothingChanged
    <2>3. SeenSince' = SeenSince /\ Parts(query)' = Parts(query)
      BY <2>1, <2>2 DEF SeenSince, Parts
    <2>4. Total(answer.topLinks)' = Total(answer.topLinks)
      BY <2>1 DEF Total
    <2> QED
      BY <2>1, <2>2, <2>3, <2>4 DEF TrueOnce
  <1> QED
    BY <1>1, <1>2, <1>3, <1>4, <1>5, <1>6 DEF AnalyticsNext

\* What is answered was true once.
LEMMA AnswersWereTrue == AnalyticsSpec => []TrueOnce
  BY AnalyticsTypes, TrueOnceAtFirst, TrueOnceStep, PTL DEF AnalyticsSpec

(***************************************************************************)
(* The parts of an answer                                                  *)
(***************************************************************************)
\* However visits are stored and links removed while the queries of a request run, its
\* answer counts what was there all along and nothing that is not there in the end, and
\* its parts agree if nothing has changed (getWorkspaceOverview, getShortLinkAnalytics).
THEOREM AnswersAddUp == AnalyticsSpec => []PartsAgree
  <1>1. AnalyticsTypeOK /\ TrueOnce => PartsAgree
    <2> SUFFICES ASSUME AnalyticsTypeOK, TrueOnce, Answered
                 PROVE  PartsAgree
      BY DEF PartsAgree
    <2> DEFINE All == Matching(query)
    <2>1. /\ stage = "running" /\ DOMAIN answer = Parts(query)
          /\ {"summary", "series", "dimension"} \subseteq DOMAIN answer
      BY DEF Answered, TrueOnce, Parts
    <2>2. All \in SUBSET Stored
      BY MatchingIsStored
    <2>3. Cardinality(All) \in Nat /\ before \in Nat
      <3> HIDE DEF All
      <3> QED
        BY <2>2, VisitsAreFinite DEF AnalyticsTypeOK
    <2>4. \A E \in SeenSince : /\ E \in SUBSET Stored
                               /\ Cardinality(E) \in Nat
                               /\ before <= Cardinality(E) /\ Cardinality(E) <= Cardinality(All)
      BY <2>2, VisitsAreFinite, FS_Subset DEF SeenSince
    <2>5. PICK E \in SeenSince : answer.summary = Summary(E)
      BY <2>1 DEF TrueOnce
    <2>6. PICK F \in SeenSince : answer.series = Series(query, F)
      BY <2>1 DEF TrueOnce
    <2>7. PICK G \in SeenSince : answer.dimension = Dimension(G)
      BY <2>1 DEF TrueOnce
    <2>8. before <= answer.summary.clicks /\ answer.summary.clicks <= Cardinality(All)
      BY <2>4, <2>5 DEF Summary
    <2>9. before <= SeriesTotal /\ SeriesTotal <= Cardinality(All)
      <3>1. SeriesTotal = Cardinality(F)
        BY <2>4, <2>6, SeriesCounts DEF SeriesTotal
      <3> QED
        BY <2>4, <3>1
    <2>10. Total(answer.dimension) <= Cardinality(All)
      <3>1. Total(answer.dimension) \in Nat /\ Total(answer.dimension) <= Cardinality(G)
        BY <2>4, <2>7, DimensionCounts
      <3> QED
        BY <2>3, <2>4, <3>1
    <2>11. query.link = None => Total(answer.topLinks) <= Cardinality(All)
      BY <2>1 DEF TrueOnce, Parts
    <2>12. ASSUME quiet
           PROVE  /\ SeriesTotal = answer.summary.clicks
                  /\ Cardinality(Visitors(All)) <= Listed =>
                        Total(answer.dimension) = answer.summary.clicks
      <3>1. /\ answer.summary = Summary(All) /\ answer.series = Series(query, All)
            /\ answer.dimension = Dimension(All)
        BY <2>1, <2>12 DEF TrueOnce, Result
      <3>2. answer.summary.clicks = Cardinality(All)
        BY <3>1 DEF Summary
      <3>3. SeriesTotal = Cardinality(All)
        <4> HIDE DEF All
        <4> QED
          BY <2>2, <3>1, SeriesCounts DEF SeriesTotal
      <3>4. Cardinality(Visitors(All)) <= Listed => Total(answer.dimension) = Cardinality(All)
        <4> HIDE DEF All
        <4> QED
          BY <2>2, <3>1, DimensionCounts
      <3> QED
        BY <3>2, <3>3, <3>4
    <2>13. ASSUME quiet, query.link = None, Cardinality(LinkedTo(All)) <= Listed
           PROVE  Total(answer.topLinks) = Cardinality({e \in All : visit[e].link \in links})
      <3>1. "topLinks" \in DOMAIN answer
        BY <2>1, <2>13 DEF Parts
      <3>2. answer.topLinks = TopLinks(All)
        BY <2>1, <2>13, <3>1 DEF TrueOnce, Result
      <3> HIDE DEF All
      <3> QED
        BY <2>2, <2>13, <3>2, TopLinksCount
    <2> QED
      BY <2>8, <2>9, <2>10, <2>11, <2>12, <2>13 DEF PartsAgree
  <1> QED
    BY <1>1, AnalyticsTypes, AnswersWereTrue, PTL
=============================================================================
