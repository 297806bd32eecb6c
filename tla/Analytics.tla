------------------------------- MODULE Analytics -------------------------------
(***************************************************************************)
(* The analytics of a workspace or of one link (src/analytics): the range  *)
(* is resolved and checked, and the parts of the answer are read by        *)
(* queries that run at the same time, without a transaction, while visits  *)
(* are stored (VisitCounting), often long after they were made, and links  *)
(* are removed (LinkChanges).                                              *)
(*                                                                         *)
(* Time is counted in hours, HoursPerDay to the day, and a range begins    *)
(* and ends on the hour.  A visitor stands for the hash of an IP address,  *)
(* a user agent and a referer; the queries for devices, browsers and       *)
(* referers differ in the expression they group by, and are one here.      *)
(***************************************************************************)
EXTENDS Integers, FiniteSets

CONSTANTS Workspace, WorkspaceOf,
          Link,        \* numbered in the order of their codes
          Event,       \* the eventIds of visits
          Visitor,     \* numbered in the order of what they are grouped by
          Zone,        \* time zones, each given by its offset at every hour
          None,        \* no visit, link, time or answer
          Query,       \* what is asked for
          Now,         \* the time of the request
          HoursPerDay, DefaultDays, MaxDays, MaxHourlyDays,
          Listed       \* LIMIT of the lists

Hour == 0..(Now - 1)

\* QueryAnalyticsDto, with the workspace and for one link its id.
AnyQuery == [ws : Workspace, link : Link \cup {None}, from : Hour \cup {None},
             to : (1..Now) \cup {None}, granularity : {"hour", "day"}, zone : Zone]

ASSUME AnalyticsAssumption ==
    /\ IsFiniteSet(Event)
    /\ WorkspaceOf \in [Link -> Workspace]
    /\ Query \subseteq AnyQuery /\ Zone \subseteq [Hour -> Int]
    /\ Visitor \subseteq Nat /\ Link \subseteq Nat
    /\ {Now, HoursPerDay, DefaultDays, MaxDays, MaxHourlyDays, Listed} \subseteq Nat \ {0}
    /\ MaxHourlyDays < DefaultDays /\ DefaultDays <= MaxDays

VARIABLES visit,       \* ShortLinkVisit: eventId -> its row
          links,       \* the links whose row exists
          stage, query, todo,   \* how far the request is, and the queries still to run
          answer,      \* part -> what its query has returned
          before, quiet         \* how many visits matched when the request came in, and
                                \* whether nothing has changed since (for the properties)

answerVars == <<stage, query, todo, answer, before>>
analyticsVars == <<visit, links, answerVars, quiet>>

AnalyticsInit ==
    /\ visit = [e \in Event |-> None]
    /\ links = Link
    /\ stage = "idle" /\ query = None /\ todo = {}
    /\ answer = <<>> /\ before = 0 /\ quiet = TRUE

Stored == {e \in Event : visit[e] # None}

(***************************************************************************)
(* The range                                                               *)
(***************************************************************************)
To(q) == IF q.to = None THEN Now ELSE q.to
From(q) == IF q.from = None THEN To(q) - DefaultDays * HoursPerDay ELSE q.from

LongestRange(q) ==
    (IF q.granularity = "hour" THEN MaxHourlyDays ELSE MaxDays) * HoursPerDay

\* resolveRange does not throw.
Accepted(q) == From(q) < To(q) /\ To(q) - From(q) <= LongestRange(q)

(***************************************************************************)
(* The queries                                                             *)
(***************************************************************************)
\* Mutant: the end belongs to the range.
ClosedRange(ws, from, to) ==
    {e \in Stored : WorkspaceOf[visit[e].link] = ws /\ from <= visit[e].at /\ visit[e].at <= to}

\* where: a half-open range of the workspace's visits.
InRange(ws, from, to) ==
    {e \in Stored : WorkspaceOf[visit[e].link] = ws /\ from <= visit[e].at /\ visit[e].at < to}

\* where, of one link if the query is for one.
Matching(q) == {e \in InRange(q.ws, From(q), To(q)) : q.link \in {None, visit[e].link}}

Visitors(E) == {visit[e].who : e \in E}

\* summary
Summary(E) == [clicks |-> Cardinality(E), ips |-> Cardinality(Visitors(E))]

\* date_trunc(.. AT TIME ZONE ..): a timestamp without a zone is taken for the zone's
\* local time and turned into UTC, in which it is truncated.
Bucket(q, at) ==
    LET utc == at - q.zone[at]
    IN  IF q.granularity = "hour" THEN utc ELSE utc - (utc % HoursPerDay)

\* timeSeries
Series(q, E) == [b \in {Bucket(q, visit[e].at) : e \in E} |->
                    Summary({e \in E : Bucket(q, visit[e].at) = b})]

\* ORDER BY clicks DESC, value ASC LIMIT ..
TopOf(count) ==
    LET ahead(v) == {w \in DOMAIN count : \/ count[w] > count[v]
                                          \/ count[w] = count[v] /\ w < v}
        first == {v \in DOMAIN count : Cardinality(ahead(v)) < Listed}
    IN  [v \in first |-> count[v]]

\* dimensionCounts
Dimension(E) ==
    TopOf([v \in Visitors(E) |-> Cardinality({e \in E : visit[e].who = v})])

\* Mutant: an outer join.
AnyLink(E) == {visit[e].link : e \in E}

\* INNER JOIN "ShortLink"
LinkedTo(E) == {visit[e].link : e \in E} \cap links

\* topLinks
TopLinks(E) ==
    TopOf([l \in LinkedTo(E) |-> Cardinality({e \in E : visit[e].link = l})])

\* The queries that Promise.all is given.
Result(part) ==
    LET E == Matching(query)
    IN  CASE part = "summary"   -> Summary(E)
          [] part = "series"    -> Series(query, E)
          [] part = "dimension" -> Dimension(E)
          [] part = "topLinks"  -> TopLinks(E)

(***************************************************************************)
(* The request                                                             *)
(***************************************************************************)
Parts(q) == {"summary", "series", "dimension"} \cup (IF q.link = None THEN {"topLinks"} ELSE {})

\* A link is found in the workspace, or the answer is 404; a range that is not
\* accepted is answered 400.
Ask(q) ==
    /\ stage = "idle"
    /\ q.link # None => q.link \in links /\ WorkspaceOf[q.link] = q.ws
    /\ Accepted(q)
    /\ stage' = "running" /\ query' = q /\ todo' = Parts(q)
    /\ before' = Cardinality(Matching(q)) /\ quiet' = TRUE
    /\ UNCHANGED <<visit, links, answer>>

RunQuery(part) ==
    /\ stage = "running" /\ part \in todo
    /\ todo' = todo \ {part}
    /\ answer' = [p \in DOMAIN answer \cup {part} |->
                     IF p = part THEN Result(part) ELSE answer[p]]
    /\ UNCHANGED <<visit, links, stage, query, before, quiet>>

\* Promise.all has all the parts, or one of them has failed.
Reply ==
    /\ stage = "running"
    /\ stage' = "idle" /\ query' = None /\ todo' = {} /\ answer' = <<>>
    /\ before' = 0 /\ quiet' = TRUE
    /\ UNCHANGED <<visit, links>>

(***************************************************************************)
(* Visits and links                                                        *)
(***************************************************************************)
\* The consumer stores a visit, whether its link still exists or not.
Store(e, l, at, who) ==
    /\ visit[e] = None
    /\ visit' = [visit EXCEPT ![e] = [link |-> l, at |-> at, who |-> who]]
    /\ quiet' = FALSE
    /\ UNCHANGED <<links, answerVars>>

\* The visits of a removed link stay.
RemoveLink(l) ==
    /\ l \in links
    /\ links' = links \ {l}
    /\ quiet' = FALSE
    /\ UNCHANGED <<visit, answerVars>>

AnalyticsNext ==
    \/ \E q \in Query : Ask(q)
    \/ \E part \in todo : RunQuery(part)
    \/ Reply
    \/ \E e \in Event, l \in Link, at \in Hour, who \in Visitor : Store(e, l, at, who)
    \/ \E l \in Link : RemoveLink(l)

AnalyticsSpec == AnalyticsInit /\ [][AnalyticsNext]_analyticsVars

(***************************************************************************)
(* Properties                                                              *)
(***************************************************************************)
\* ShortLinkVisit
Visit == [link : Link, at : Hour, who : Visitor]

AnalyticsTypeOK ==
    /\ visit \in [Event -> Visit \cup {None}]
    /\ links \subseteq Link
    /\ stage \in {"idle", "running"}
    /\ query \in Query \cup {None}
    /\ stage = "running" => query \in Query
    /\ todo \subseteq {"summary", "series", "dimension", "topLinks"}
    /\ before \in Nat /\ quiet \in BOOLEAN

Answered == stage = "running" /\ todo = {}

\* All that is counted.
Total(count) == Cardinality(UNION {{v} \X (1..count[v]) : v \in DOMAIN count})

\* The clicks of all buckets.
SeriesTotal == Total([b \in DOMAIN answer.series |-> answer.series[b].clicks])

\* However visits arrive and links go while the queries run, summary and series each
\* count all that was there when the request came in and nothing that is not there
\* when it is answered, and no list claims more than that, cut off or not; if nothing
\* changed meanwhile they agree with one another, and a list that is not cut off
\* names all of it but the visits of removed links (getWorkspaceOverview,
\* getShortLinkAnalytics).
PartsAgree ==
    Answered =>
        LET now == Cardinality(Matching(query)) IN
        /\ before <= answer.summary.clicks /\ answer.summary.clicks <= now
        /\ before <= SeriesTotal /\ SeriesTotal <= now
        /\ Total(answer.dimension) <= now
        /\ query.link = None => Total(answer.topLinks) <= now
        /\ quiet => /\ SeriesTotal = answer.summary.clicks
                    /\ Cardinality(Visitors(Matching(query))) <= Listed =>
                          Total(answer.dimension) = answer.summary.clicks
        /\ quiet /\ query.link = None /\ Cardinality(LinkedTo(Matching(query))) <= Listed =>
              Total(answer.topLinks) =
                 Cardinality({e \in Matching(query) : visit[e].link \in links})

\* The visits of two ranges that meet are those of both together, each counted once:
\* reports of successive weeks add up (where).
AdjacentRangesAddUp ==
    \A ws \in Workspace : \A from, middle, to \in 0..Now :
        from < middle /\ middle < to =>
            Cardinality(InRange(ws, from, middle)) + Cardinality(InRange(ws, middle, to))
                = Cardinality(InRange(ws, from, to))
=============================================================================
