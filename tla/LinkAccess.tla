------------------------------ MODULE LinkAccess ------------------------------
(***************************************************************************)
(* Who may visit one link: its access policy, changed by setAccess and by  *)
(* update (src/short-links), the unlocking of a password link and its      *)
(* share tokens, and the authorisation of a visit (src/redirects).         *)
(*                                                                         *)
(* A visit works with a snapshot of the policy that may be cached and      *)
(* outdated; of the cache layers one entry is kept, which any load may     *)
(* fill late and which may be lost at any time (invalidate is best effort, *)
(* ResolveCache has its details).  accessVersion numbers the policies.  A  *)
(* share token is the version it was signed for, and remembers the         *)
(* password its holder proved to know.  That the visitor is not a member   *)
(* or not the creator, that a token expired, and that the link is not      *)
(* active, expired, used up or deleted, is part of TurnAway and DenyLimited. *)
(***************************************************************************)
EXTENDS Naturals

CONSTANTS Visit,         \* concurrent visits, each used again and again
          Unlocker,      \* concurrent calls of unlock
          Editor,        \* concurrent calls of setAccess
          Visibility,    \* the visibilities in use
          Password, NoPassword,
          NoSnapshot,
          MaxVersion     \* bound on accessVersion

ASSUME AccessAssumption ==
    /\ Visibility \subseteq {"PUBLIC", "WORKSPACE", "PRIVATE", "PASSWORD"}
    /\ NoPassword \notin Password
    /\ MaxVersion \in Nat

Row == [visibility : Visibility, limited : BOOLEAN,
        passwordHash : Password \cup {NoPassword}, accessVersion : 0..MaxVersion]

RedirectSnapshot == [visibility : Visibility, limited : BOOLEAN, accessVersion : 0..MaxVersion]

Change == [visibility : Visibility, passwordHash : Password \cup {NoPassword}]

Unlocking == [passwordHash : Password, accessVersion : 0..MaxVersion]

Token == [ver : 0..MaxVersion, knew : Password]

ASSUME SnapshotAssumption == NoSnapshot \notin RedirectSnapshot \cup Unlocking \cup Change

VARIABLES link,        \* the columns of the row that say who may visit
          cache,       \* the cached snapshot
          pc, snap,    \* visit -> where it is, and its snapshot
          seen,        \* unlocker -> what it read of the row, or NoSnapshot
          change,      \* editor -> what it is about to write, or NoSnapshot
          tokens,      \* share tokens signed so far
          passwords    \* version -> its passwordHash: kept for the properties

rowVars == <<link, passwords>>
visitVars == <<pc, snap>>
vars == <<rowVars, cache, visitVars, seen, change, tokens>>

\* create: any visibility and limit, no password.
Init ==
    /\ link \in {r \in Row : r.accessVersion = 0 /\ r.passwordHash = NoPassword}
    /\ cache = NoSnapshot
    /\ pc = [v \in Visit |-> "idle"]
    /\ snap = [v \in Visit |-> NoSnapshot]
    /\ seen = [u \in Unlocker |-> NoSnapshot]
    /\ change = [e \in Editor |-> NoSnapshot]
    /\ tokens = {}
    /\ passwords = [n \in 0..MaxVersion |-> NoPassword]

(***************************************************************************)
(* setAccess and update                                                    *)
(***************************************************************************)
\* The row is read, and what to write is decided: a new password, for
\* visibility PASSWORD without one the password there is, or none.
DecideAccess(e, visibility, password) ==
    /\ change[e] = NoSnapshot
    /\ visibility = "PASSWORD" /\ password = NoPassword => link.passwordHash # NoPassword
    /\ change' = [change EXCEPT ![e] =
           [visibility |-> visibility,
            passwordHash |-> IF visibility = "PASSWORD" THEN password ELSE NoPassword]]
    /\ cache' \in {NoSnapshot, cache}
    /\ UNCHANGED <<rowVars, visitVars, seen, tokens>>

\* Mutant: the policy changes and its version does not.
SameVersion == link.accessVersion

NextVersion == link.accessVersion + 1

\* Without a new password the hash of a PASSWORD link is not written: it
\* stays what it is now, not what it was when it was checked.
HashAfter(c) ==
    IF c.visibility = "PASSWORD" /\ c.passwordHash = NoPassword
    THEN link.passwordHash ELSE c.passwordHash

SetAccess(e) ==
    /\ change[e] # NoSnapshot
    /\ link.accessVersion < MaxVersion
    /\ link' = [link EXCEPT !.visibility = change[e].visibility,
                            !.passwordHash = HashAfter(change[e]),
                            !.accessVersion = NextVersion]
    /\ passwords' = [passwords EXCEPT ![link'.accessVersion] = link'.passwordHash]
    /\ change' = [change EXCEPT ![e] = NoSnapshot]
    /\ UNCHANGED <<cache, visitVars, seen, tokens>>

\* update: another visibility or limit, the same version and password.
Update(visibility, limited) ==
    /\ link' = [link EXCEPT !.visibility = visibility, !.limited = limited]
    /\ UNCHANGED <<passwords, cache, visitVars, seen, change, tokens>>

\* What setAccess and update do after their write, and expiry.
Invalidate ==
    /\ cache' = NoSnapshot
    /\ UNCHANGED <<rowVars, visitVars, seen, change, tokens>>

(***************************************************************************)
(* unlock                                                                  *)
(***************************************************************************)
\* The row is read; a link without a password hash is unavailable.
ReadToUnlock(u) ==
    /\ seen[u] = NoSnapshot
    /\ link.visibility = "PASSWORD"
    /\ link.passwordHash # NoPassword
    /\ seen' = [seen EXCEPT ![u] = [passwordHash |-> link.passwordHash,
                                    accessVersion |-> link.accessVersion]]
    /\ UNCHANGED <<rowVars, cache, visitVars, change, tokens>>

SignedFor(row) == row.accessVersion

\* The password is verified against what was read, and the token signed.
Unlock(u, password) ==
    /\ seen[u] # NoSnapshot
    /\ tokens' = IF password = seen[u].passwordHash
                 THEN tokens \cup {[ver |-> SignedFor(seen[u]), knew |-> password]}
                 ELSE tokens
    /\ seen' = [seen EXCEPT ![u] = NoSnapshot]
    /\ UNCHANGED <<rowVars, cache, visitVars, change>>

(***************************************************************************)
(* A visit                                                                 *)
(***************************************************************************)
Moves(v, from, to) == pc[v] = from /\ pc' = [pc EXCEPT ![v] = to]

Forgets(v) == snap' = [snap EXCEPT ![v] = NoSnapshot]

Ends(v) == pc' = [pc EXCEPT ![v] = "idle"] /\ Forgets(v)

\* getOrLoad answers from the cache,
Hit(v) ==
    /\ Moves(v, "idle", "resolved")
    /\ cache # NoSnapshot
    /\ snap' = [snap EXCEPT ![v] = cache]
    /\ UNCHANGED <<rowVars, cache, seen, change, tokens>>

\* or reads the row,
Load(v) ==
    /\ Moves(v, "idle", "loaded")
    /\ snap' = [snap EXCEPT ![v] = [visibility |-> link.visibility, limited |-> link.limited,
                                    accessVersion |-> link.accessVersion]]
    /\ UNCHANGED <<rowVars, cache, seen, change, tokens>>

\* which it caches or not, whatever has happened meanwhile.
Resolve(v) ==
    /\ Moves(v, "loaded", "resolved")
    /\ cache' \in {snap[v], cache}
    /\ UNCHANGED <<rowVars, snap, seen, change, tokens>>

\* Mutant: any share token of the link opens it.
OpensAnyVersion(t, s) == TRUE

\* The token is for the version of the snapshot.
Opens(t, s) == t.ver = s.accessVersion

\* A visitor of a PUBLIC link needs nothing, one of a WORKSPACE or a PRIVATE
\* link may be a member or its creator.
Authorized(v) ==
    snap[v].visibility = "PASSWORD" => \E t \in tokens : Opens(t, snap[v])

Authorize(v) ==
    /\ Moves(v, "resolved", "authorized")
    /\ Authorized(v)
    /\ UNCHANGED <<rowVars, cache, snap, seen, change, tokens>>

\* Mutant: the limiting UPDATE does not compare the version.
MatchesAnyPolicy(s) == link.limited

\* What the limiting UPDATE asks of the row besides what is left.
Matches(s) == link.limited /\ link.accessVersion = s.accessVersion

\* The visit is granted: a limited one by the UPDATE, any other as it is.
Grant(v) ==
    /\ Moves(v, "authorized", "granted")
    /\ snap[v].limited => Matches(snap[v])
    /\ Forgets(v)
    /\ UNCHANGED <<rowVars, cache, seen, change, tokens>>

\* The UPDATE finds no row: the cache entry is dropped, or that fails.
DenyLimited(v) ==
    /\ pc[v] = "authorized"
    /\ snap[v].limited
    /\ cache' \in {NoSnapshot, cache}
    /\ Ends(v)
    /\ UNCHANGED <<rowVars, seen, change, tokens>>

\* Answered, not available, not authorised, or failed.
TurnAway(v) ==
    /\ pc[v] \in {"resolved", "granted"}
    /\ Ends(v)
    /\ UNCHANGED <<rowVars, cache, seen, change, tokens>>

Edit(e) ==
    \/ \E visibility \in Visibility, password \in Password \cup {NoPassword} :
          DecideAccess(e, visibility, password)
    \/ SetAccess(e)

VisitStep(v) ==
    \/ Hit(v) \/ Load(v) \/ Resolve(v)
    \/ Authorize(v) \/ Grant(v) \/ DenyLimited(v) \/ TurnAway(v)

Next ==
    \/ \E e \in Editor : Edit(e)
    \/ \E visibility \in Visibility, limited \in BOOLEAN : Update(visibility, limited)
    \/ \E u \in Unlocker : ReadToUnlock(u) \/ \E p \in Password : Unlock(u, p)
    \/ \E v \in Visit : VisitStep(v)
    \/ Invalidate

Spec == Init /\ [][Next]_vars

(***************************************************************************)
(* Properties                                                              *)
(***************************************************************************)
\* The types of the variables; a visit has a snapshot while it is decided on.
TypeOK ==
    /\ link \in Row
    /\ cache \in RedirectSnapshot \cup {NoSnapshot}
    /\ pc \in [Visit -> {"idle", "loaded", "resolved", "authorized", "granted"}]
    /\ snap \in [Visit -> RedirectSnapshot \cup {NoSnapshot}]
    /\ seen \in [Unlocker -> Unlocking \cup {NoSnapshot}]
    /\ change \in [Editor -> Change \cup {NoSnapshot}]
    /\ tokens \in SUBSET Token
    /\ passwords \in [0..MaxVersion -> Password \cup {NoPassword}]
    /\ \A v \in Visit : pc[v] \in {"idle", "granted"} <=> snap[v] = NoSnapshot

\* Whoever is let in to a password link has proved to know the password of the
\* very policy the decision is based on, whatever setAccess changed between
\* the reading of the row, the signing of the token and the visit.
PasswordWasProved ==
    \A v \in Visit :
        pc[v] = "authorized" /\ snap[v].visibility = "PASSWORD" =>
            \E t \in tokens : t.knew = passwords[snap[v].accessVersion]

\* A limited visit is never granted on an outdated version of the policy: who
\* came by a password knows the one the link has now (resolveLimited).
LimitedFollowsPolicy ==
    [][\A v \in Visit :
          pc[v] = "authorized" /\ pc'[v] = "granted" /\ snap[v].limited =>
              /\ snap[v].accessVersion = link.accessVersion
              /\ snap[v].visibility = "PASSWORD" =>
                    \E t \in tokens : t.knew = link.passwordHash]_vars

\* A password link without a hash (created so, or by two setAccess at once)
\* stays shut: no token signed for an earlier password fits it.
StaysShut ==
    link.passwordHash = NoPassword => \A t \in tokens : t.ver # link.accessVersion
=============================================================================
