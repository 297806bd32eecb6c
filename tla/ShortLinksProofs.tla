--------------------------- MODULE ShortLinksProofs ---------------------------
(***************************************************************************)
(* What holds of LinkAccess for any number of visits, unlocks, editors,    *)
(* passwords and versions, and of LinkChanges for any number of calls,     *)
(* links, codes and attempts.                                              *)
(*                                                                         *)
(* The argument for LinkAccess: versions name passwords.  The row, what    *)
(* unlock has read of it and every token agree with passwords, and nothing *)
(* refers to a version that is yet to come.  The argument for LinkChanges  *)
(* stands before its lemmas.                                               *)
(***************************************************************************)
EXTENDS LinkAccess, LinkChanges, SequenceTheorems, TLAPS

\* No snapshot, no reading of the row and no decision is NoSnapshot.
LEMMA RealValues ==
    /\ \A s \in RedirectSnapshot : s # NoSnapshot
    /\ \A s \in Unlocking : s # NoSnapshot
    /\ \A s \in Change : s # NoSnapshot
  BY SnapshotAssumption

\* The types hold for the link as it was created.
LEMMA InitType == Init => TypeOK
  <1> SUFFICES ASSUME Init
               PROVE  TypeOK
    OBVIOUS
  <1>1. link \in Row
    BY DEF Init
  <1>2. pc \in [Visit -> {"idle", "loaded", "resolved", "authorized", "granted"}]
    BY DEF Init
  <1>3. passwords \in [0..MaxVersion -> Password \cup {NoPassword}]
    BY DEF Init
  <1> QED
    BY <1>1, <1>2, <1>3 DEF Init, TypeOK

\* Every step of sharing keeps the types.
LEMMA NextType == TypeOK /\ [Next]_vars => TypeOK'
  <1> SUFFICES ASSUME TypeOK, [Next]_vars
               PROVE  TypeOK'
    OBVIOUS
  <1> USE AccessAssumption
  <1>1. ASSUME NEW e \in Editor, NEW visibility \in Visibility,
               NEW password \in Password \cup {NoPassword},
               DecideAccess(e, visibility, password)
        PROVE  TypeOK'
    <2>1. [visibility |-> visibility,
           passwordHash |-> IF visibility = "PASSWORD" THEN password ELSE NoPassword] \in Change
      BY DEF Change
    <2> QED
      BY <1>1, <2>1 DEF DecideAccess, TypeOK, rowVars, visitVars
  <1>2. ASSUME NEW e \in Editor, SetAccess(e)
        PROVE  TypeOK'
    <2>1. change[e] \in Change /\ link \in Row
      BY <1>2 DEF SetAccess, TypeOK
    <2>2. HashAfter(change[e]) \in Password \cup {NoPassword}
      BY <2>1 DEF HashAfter, Change, Row
    <2>3. NextVersion \in 0..MaxVersion
      BY <1>2, <2>1 DEF NextVersion, SetAccess, Row
    <2>4. link' \in Row
      BY <1>2, <2>1, <2>2, <2>3 DEF SetAccess, Row, Change
    <2>5. passwords' \in [0..MaxVersion -> Password \cup {NoPassword}]
      BY <1>2, <2>4 DEF SetAccess, TypeOK, Row
    <2>6. change' \in [Editor -> Change \cup {NoSnapshot}]
      BY <1>2 DEF SetAccess, TypeOK
    <2> QED
      BY <1>2, <2>4, <2>5, <2>6 DEF SetAccess, TypeOK, visitVars
  <1>3. ASSUME NEW visibility \in Visibility, NEW limited \in BOOLEAN, Update(visibility, limited)
        PROVE  TypeOK'
    <2>1. link' \in Row
      BY <1>3 DEF Update, TypeOK, Row
    <2> QED
      BY <1>3, <2>1 DEF Update, TypeOK, visitVars
  <1>4. ASSUME NEW u \in Unlocker, ReadToUnlock(u)
        PROVE  TypeOK'
    <2>1. [passwordHash |-> link.passwordHash, accessVersion |-> link.accessVersion] \in Unlocking
      BY <1>4 DEF ReadToUnlock, TypeOK, Row, Unlocking
    <2> QED
      BY <1>4, <2>1 DEF ReadToUnlock, TypeOK, rowVars, visitVars
  <1>5. ASSUME NEW u \in Unlocker, NEW p \in Password, Unlock(u, p)
        PROVE  TypeOK'
    <2>1. seen[u] \in Unlocking
      BY <1>5 DEF Unlock, TypeOK
    <2>2. [ver |-> SignedFor(seen[u]), knew |-> p] \in Token
      BY <2>1 DEF Unlocking, SignedFor, Token
    <2> QED
      BY <1>5, <2>2 DEF Unlock, TypeOK, rowVars, visitVars
  <1>6. ASSUME NEW v \in Visit, VisitStep(v)
        PROVE  TypeOK'
    <2>1. CASE Hit(v)
      <3>1. snap' \in [Visit -> RedirectSnapshot \cup {NoSnapshot}]
        BY <2>1 DEF Hit, TypeOK
      <3>2. pc' \in [Visit -> {"idle", "loaded", "resolved", "authorized", "granted"}]
        BY <2>1 DEF Hit, Moves, TypeOK
      <3>3. \A w \in Visit : pc'[w] \in {"idle", "granted"} <=> snap'[w] = NoSnapshot
        BY <2>1 DEF Hit, Moves, TypeOK
      <3> QED
        BY <2>1, <3>1, <3>2, <3>3 DEF Hit, TypeOK, rowVars
    <2>2. CASE Load(v)
      <3>0. [visibility |-> link.visibility, limited |-> link.limited,
             accessVersion |-> link.accessVersion] \in RedirectSnapshot
        BY DEF TypeOK, Row, RedirectSnapshot
      <3>1. snap' \in [Visit -> RedirectSnapshot \cup {NoSnapshot}]
        BY <2>2, <3>0 DEF Load, TypeOK
      <3>2. pc' \in [Visit -> {"idle", "loaded", "resolved", "authorized", "granted"}]
        BY <2>2 DEF Load, Moves, TypeOK
      <3>3. \A w \in Visit : pc'[w] \in {"idle", "granted"} <=> snap'[w] = NoSnapshot
        BY <2>2, <3>0, RealValues DEF Load, Moves, TypeOK
      <3> QED
        BY <2>2, <3>1, <3>2, <3>3 DEF Load, TypeOK, rowVars
    <2>3. CASE Resolve(v)
      BY <2>3 DEF Resolve, Moves, TypeOK, rowVars
    <2>4. CASE Authorize(v)
      BY <2>4 DEF Authorize, Moves, TypeOK, rowVars
    <2>5. CASE Grant(v)
      BY <2>5 DEF Grant, Moves, Forgets, TypeOK, rowVars
    <2>6. CASE DenyLimited(v)
      BY <2>6 DEF DenyLimited, Ends, Forgets, TypeOK, rowVars
    <2>7. CASE TurnAway(v)
      BY <2>7 DEF TurnAway, Ends, Forgets, TypeOK, rowVars
    <2> QED
      BY <1>6, <2>1, <2>2, <2>3, <2>4, <2>5, <2>6, <2>7 DEF VisitStep
  <1>7. CASE Invalidate
    BY <1>7 DEF Invalidate, TypeOK, rowVars, visitVars
  <1>8. CASE UNCHANGED vars
    BY <1>8 DEF vars, rowVars, visitVars, TypeOK
  <1> QED
    BY <1>1, <1>2, <1>3, <1>4, <1>5, <1>6, <1>7, <1>8 DEF Next, Edit

\* Every variable keeps its type, and a visit has a snapshot exactly while it is
\* decided on.
THEOREM AccessTypes == Spec => []TypeOK
  BY InitType, NextType, PTL DEF Spec

\* No snapshot is of a version that is yet to come.
SnapshotsArePast ==
    /\ cache # NoSnapshot => cache.accessVersion <= link.accessVersion
    /\ \A v \in Visit : snap[v] # NoSnapshot => snap[v].accessVersion <= link.accessVersion

\* What is known of the password of a version is the password of that version.
Agrees(ver, password) == ver <= link.accessVersion /\ passwords[ver] = password

VersionsAgree ==
    /\ passwords[link.accessVersion] = link.passwordHash
    /\ \A u \in Unlocker : seen[u] # NoSnapshot => Agrees(seen[u].accessVersion, seen[u].passwordHash)
    /\ \A t \in tokens : Agrees(t.ver, t.knew)

\* Whoever is let in to a password link has a token of the snapshot's version.
TokenWasShown ==
    \A v \in Visit :
        pc[v] = "authorized" /\ snap[v].visibility = "PASSWORD" =>
            \E t \in tokens : t.ver = snap[v].accessVersion

AccessInv == SnapshotsArePast /\ VersionsAgree /\ TokenWasShown

\* Before anything happens there is one version, no token and no visit.
LEMMA InitAccess == Init => AccessInv
  BY AccessAssumption DEF Init, AccessInv, SnapshotsArePast, VersionsAgree, TokenWasShown, Row

\* The version only grows, and the past is not rewritten.
LEMMA PastStays ==
    ASSUME TypeOK, [Next]_vars
    PROVE  /\ link.accessVersion <= link'.accessVersion
           /\ \A n \in 0..MaxVersion : n <= link.accessVersion => passwords'[n] = passwords[n]
  <1>0. link \in Row /\ link.accessVersion \in Nat
    BY DEF TypeOK, Row
  <1>1. ASSUME NEW e \in Editor, SetAccess(e)
        PROVE  /\ link'.accessVersion = link.accessVersion + 1
               /\ \A n \in 0..MaxVersion : n <= link.accessVersion => passwords'[n] = passwords[n]
    <2>1. link'.accessVersion = link.accessVersion + 1
      BY <1>0, <1>1 DEF SetAccess, NextVersion, Row
    <2>2. QED
      BY <1>0, <1>1, <2>1 DEF SetAccess, TypeOK
  <1>2. ASSUME NEW visibility \in Visibility, NEW limited \in BOOLEAN, Update(visibility, limited)
        PROVE  link'.accessVersion = link.accessVersion /\ passwords' = passwords
    BY <1>0, <1>2 DEF Update, Row
  <1>3. ASSUME NEW e \in Editor, NEW visibility \in Visibility,
               NEW password \in Password \cup {NoPassword},
               DecideAccess(e, visibility, password)
        PROVE  link' = link /\ passwords' = passwords
    BY <1>3 DEF DecideAccess, rowVars
  <1>4. ASSUME NEW u \in Unlocker, ReadToUnlock(u) \/ \E p \in Password : Unlock(u, p)
        PROVE  link' = link /\ passwords' = passwords
    BY <1>4 DEF ReadToUnlock, Unlock, rowVars
  <1>5. ASSUME NEW v \in Visit, VisitStep(v)
        PROVE  link' = link /\ passwords' = passwords
    BY <1>5 DEF VisitStep, Hit, Load, Resolve, Authorize, Grant, DenyLimited, TurnAway, rowVars
  <1>6. CASE Invalidate \/ UNCHANGED vars
    BY <1>0, <1>6 DEF Invalidate, vars, rowVars
  <1> QED
    BY <1>0, <1>1, <1>2, <1>3, <1>4, <1>5, <1>6 DEF Next, Edit

\* Snapshots are of the row as it was, and the row goes forward.
LEMMA PastStep == TypeOK /\ SnapshotsArePast /\ [Next]_vars => SnapshotsArePast'
  <1> SUFFICES ASSUME TypeOK, SnapshotsArePast, [Next]_vars
               PROVE  SnapshotsArePast'
    OBVIOUS
  <1>1. link.accessVersion \in Nat /\ link'.accessVersion \in Nat
    BY NextType DEF TypeOK, Row
  <1>2. link.accessVersion <= link'.accessVersion
    BY PastStays
  <1>3. /\ cache' \in {cache, NoSnapshot} \cup {snap[v] : v \in Visit}
        /\ \A v \in Visit : \/ snap'[v] \in {snap[v], cache, NoSnapshot}
                            \/ snap'[v].accessVersion = link.accessVersion
    <2>1. ASSUME NEW v \in Visit, VisitStep(v)
          PROVE  /\ cache' \in {cache, NoSnapshot} \cup {snap[w] : w \in Visit}
                 /\ \A w \in Visit : \/ snap'[w] \in {snap[w], cache, NoSnapshot}
                                     \/ snap'[w].accessVersion = link.accessVersion
      BY <2>1 DEF VisitStep, Hit, Load, Resolve, Authorize, Grant, DenyLimited, TurnAway,
                  Ends, Forgets, TypeOK
    <2>2. CASE UNCHANGED vars
      BY <2>2 DEF vars, visitVars
    <2> QED
      BY <2>1, <2>2 DEF Next, Edit, DecideAccess, SetAccess, Update, Invalidate, ReadToUnlock,
                        Unlock, visitVars
  <1>4. ASSUME cache' # NoSnapshot
        PROVE  cache'.accessVersion <= link'.accessVersion
    <2>1. cache'.accessVersion <= link.accessVersion /\ cache'.accessVersion \in Nat
      BY <1>3, <1>4, NextType DEF SnapshotsArePast, TypeOK, RedirectSnapshot
    <2> QED
      BY <1>1, <1>2, <2>1
  <1>5. ASSUME NEW v \in Visit, snap'[v] # NoSnapshot
        PROVE  snap'[v].accessVersion <= link'.accessVersion
    <2>1. snap'[v].accessVersion <= link.accessVersion /\ snap'[v].accessVersion \in Nat
      BY <1>1, <1>3, <1>5, NextType DEF SnapshotsArePast, TypeOK, RedirectSnapshot
    <2> QED
      BY <1>1, <1>2, <2>1
  <1> QED
    BY <1>4, <1>5 DEF SnapshotsArePast

\* A version's password stays agreed upon.
LEMMA StillAgrees ==
    ASSUME TypeOK, [Next]_vars, NEW n \in 0..MaxVersion, NEW p, Agrees(n, p)
    PROVE  Agrees(n, p)'
  <1>1. link.accessVersion \in Nat /\ link'.accessVersion \in Nat
    BY NextType DEF TypeOK, Row
  <1> QED
    BY <1>1, PastStays DEF Agrees

\* What the row, unlock and the tokens carry goes with one version and its password, as
\* setAccess raises the version with every password it sets.
LEMMA AgreeStep == TypeOK /\ VersionsAgree /\ [Next]_vars => VersionsAgree'
  <1> SUFFICES ASSUME TypeOK, VersionsAgree, [Next]_vars
               PROVE  VersionsAgree'
    OBVIOUS
  <1>0. link \in Row /\ link.accessVersion \in 0..MaxVersion /\ link.accessVersion \in Nat
    BY AccessAssumption DEF TypeOK, Row
  <1>1. passwords'[link'.accessVersion] = link'.passwordHash
    <2>1. ASSUME NEW e \in Editor, SetAccess(e)
          PROVE  passwords'[link'.accessVersion] = link'.passwordHash
      <3>1. link' \in Row
        BY NextType DEF TypeOK
      <3>2. QED
        BY <2>1, <3>1 DEF SetAccess, TypeOK, Row
    <2>2. ASSUME NEW visibility \in Visibility, NEW limited \in BOOLEAN,
                 Update(visibility, limited)
          PROVE  passwords'[link'.accessVersion] = link'.passwordHash
      BY <1>0, <2>2 DEF Update, VersionsAgree, Row
    <2>3. CASE UNCHANGED <<link, passwords>>
      BY <2>3 DEF VersionsAgree
    <2> QED
      BY <2>1, <2>2, <2>3 DEF Next, Edit, DecideAccess, Invalidate, ReadToUnlock, Unlock, VisitStep,
                              Hit, Load, Resolve, Authorize, Grant, DenyLimited, TurnAway,
                              rowVars, vars
  <1>2. ASSUME NEW u \in Unlocker, seen'[u] # NoSnapshot
        PROVE  Agrees(seen[u].accessVersion, seen[u].passwordHash)'
    <2>1. \/ seen'[u] = seen[u]
          \/ seen'[u] = [passwordHash |-> link.passwordHash, accessVersion |-> link.accessVersion]
      <3>1. ASSUME NEW w \in Unlocker, ReadToUnlock(w) \/ \E p \in Password : Unlock(w, p)
            PROVE  seen'[u] \in {seen[u], [passwordHash |-> link.passwordHash,
                                         accessVersion |-> link.accessVersion]}
        BY <1>2, <3>1 DEF ReadToUnlock, Unlock, TypeOK
      <3>2. CASE UNCHANGED seen
        BY <3>2
      <3> QED
        BY <3>1, <3>2 DEF Next, Edit, DecideAccess, SetAccess, Update, Invalidate, VisitStep, Hit,
                          Load, Resolve, Authorize, Grant, DenyLimited, TurnAway, vars
    <2>2. seen'[u].accessVersion \in 0..MaxVersion
      BY <1>2, NextType DEF TypeOK, Unlocking
    <2>3. Agrees(seen'[u].accessVersion, seen'[u].passwordHash)
      BY <1>0, <1>2, <2>1 DEF VersionsAgree, Agrees
    <2> QED
      BY <2>2, <2>3, StillAgrees DEF Agrees
  <1>3. ASSUME NEW t \in tokens'
        PROVE  Agrees(t.ver, t.knew)'
    <2>1. \/ t \in tokens
          \/ \E u \in Unlocker : /\ seen[u] # NoSnapshot
                               /\ t.ver = seen[u].accessVersion /\ t.knew = seen[u].passwordHash
      <3>1. ASSUME NEW u \in Unlocker, NEW p \in Password, Unlock(u, p)
            PROVE  \/ t \in tokens
                   \/ \E w \in Unlocker : /\ seen[w] # NoSnapshot
                                         /\ t.ver = seen[w].accessVersion
                                         /\ t.knew = seen[w].passwordHash
        BY <1>3, <3>1 DEF Unlock, SignedFor
      <3>2. CASE UNCHANGED tokens
        BY <1>3, <3>2
      <3> QED
        BY <3>1, <3>2 DEF Next, Edit, DecideAccess, SetAccess, Update, Invalidate, ReadToUnlock,
                          VisitStep, Hit, Load, Resolve, Authorize, Grant, DenyLimited, TurnAway,
                          vars
    <2>2. t.ver \in 0..MaxVersion
      BY <1>3, NextType DEF TypeOK, Token
    <2>3. Agrees(t.ver, t.knew)
      BY <2>1 DEF VersionsAgree
    <2> QED
      BY <2>2, <2>3, StillAgrees
  <1> QED
    BY <1>1, <1>2, <1>3 DEF VersionsAgree

\* A visit keeps its snapshot once it is authorised, and no token is forgotten.
LEMMA ShownStep == TypeOK /\ TokenWasShown /\ [Next]_vars => TokenWasShown'
  <1> SUFFICES ASSUME TypeOK, TokenWasShown, [Next]_vars,
                      NEW v \in Visit, pc'[v] = "authorized", snap'[v].visibility = "PASSWORD"
               PROVE  \E t \in tokens' : t.ver = snap'[v].accessVersion
    BY DEF TokenWasShown
  <1>1. tokens \subseteq tokens'
    BY DEF Next, Edit, DecideAccess, SetAccess, Update, Invalidate, ReadToUnlock, Unlock, VisitStep,
           Hit, Load, Resolve, Authorize, Grant, DenyLimited, TurnAway, vars
  <1>2. ASSUME NEW w \in Visit, VisitStep(w)
        PROVE  snap'[v] = snap[v] /\ (pc[v] = "authorized" \/ Authorized(v))
    BY <1>2 DEF VisitStep, Hit, Load, Resolve, Authorize, Grant, DenyLimited, TurnAway, Moves,
                Ends, Forgets, TypeOK
  <1>3. CASE UNCHANGED visitVars
    BY <1>1, <1>3 DEF visitVars, TokenWasShown
  <1>4. \/ \E w \in Visit : VisitStep(w)
        \/ UNCHANGED visitVars
    BY DEF Next, Edit, DecideAccess, SetAccess, Update, Invalidate, ReadToUnlock, Unlock, vars
  <1> QED
    BY <1>1, <1>2, <1>3, <1>4 DEF Authorized, Opens, TokenWasShown

\* The invariant of sharing holds in every reachable state.
LEMMA AccessHolds == Spec => [](TypeOK /\ AccessInv)
  <1>1. TypeOK /\ AccessInv /\ [Next]_vars => AccessInv'
    BY PastStep, AgreeStep, ShownStep DEF AccessInv
  <1> QED
    BY <1>1, InitAccess, AccessTypes, PTL DEF Spec

\* The token that was shown tells the password of the snapshot's version.
LEMMA ShownIsKnown ==
    ASSUME TypeOK, AccessInv, NEW v \in Visit, pc[v] = "authorized",
           snap[v].visibility = "PASSWORD"
    PROVE  \E t \in tokens : t.knew = passwords[snap[v].accessVersion]
  BY DEF AccessInv, VersionsAgree, Agrees, TokenWasShown

\* Whoever is let in to a password link has proved to know the password of the
\* policy the decision is based on, for any number of edits, unlocks and visits
\* under way (setAccess, unlock and authorizePassword).
THEOREM EntrantsKnow == Spec => []PasswordWasProved
  <1>1. TypeOK /\ AccessInv => PasswordWasProved
    BY ShownIsKnown DEF PasswordWasProved
  <1> QED
    BY <1>1, AccessHolds, PTL

\* A link without a password hash is opened by no token: whoever holds one of the
\* present version knows a password, and there is none (setAccess, unlock).
THEOREM ShutMeansShut == Spec => []StaysShut
  <1>1. TypeOK /\ AccessInv => StaysShut
    BY AccessAssumption DEF AccessInv, VersionsAgree, Agrees, StaysShut, TypeOK, Token
  <1> QED
    BY <1>1, AccessHolds, PTL

\* A limited visit is granted on the version in force, and by one who knows its
\* password, however old the snapshot is (resolveLimited).
THEOREM LimitedIsCurrent == Spec => LimitedFollowsPolicy
  <1>1. ASSUME TypeOK, AccessInv, [Next]_vars, NEW v \in Visit,
               pc[v] = "authorized", pc'[v] = "granted", snap[v].limited
        PROVE  /\ snap[v].accessVersion = link.accessVersion
               /\ snap[v].visibility = "PASSWORD" => \E t \in tokens : t.knew = link.passwordHash
    <2>1. ASSUME NEW w \in Visit, VisitStep(w)
          PROVE  snap[v].accessVersion = link.accessVersion
      BY <1>1, <2>1 DEF VisitStep, Hit, Load, Resolve, Authorize, Grant, DenyLimited, TurnAway,
                        Moves, Ends, Matches, TypeOK
    <2>2. \E w \in Visit : VisitStep(w)
      BY <1>1 DEF Next, Edit, DecideAccess, SetAccess, Update, Invalidate, ReadToUnlock, Unlock,
                  visitVars, vars
    <2>3. snap[v].accessVersion = link.accessVersion
      BY <2>1, <2>2
    <2> QED
      BY <1>1, <2>3, ShownIsKnown DEF AccessInv, VersionsAgree
  <1>2. TypeOK /\ AccessInv /\ [Next]_vars =>
            [\A v \in Visit :
                pc[v] = "authorized" /\ pc'[v] = "granted" /\ snap[v].limited =>
                    /\ snap[v].accessVersion = link.accessVersion
                    /\ snap[v].visibility = "PASSWORD" =>
                          \E t \in tokens : t.knew = link.passwordHash]_vars
    BY <1>1
  <1> QED
    BY <1>2, AccessHolds, PTL DEF Spec, LimitedFollowsPolicy

(***************************************************************************)
(* LinkChanges: the steps                                                  *)
(*                                                                         *)
(* Most steps are of one call and change neither tables nor histories; an  *)
(* insert, a commit, the removal of the workspace and the relay do.        *)
(***************************************************************************)

\* A call does not move.
Rests(d) ==
    /\ step'[d] = step[d] /\ op'[d] = op[d] /\ target'[d] = target[d]
    /\ pending'[d] = pending[d] /\ at'[d] = at[d] /\ answer'[d] = answer[d]

CallTypes ==
    /\ step \in [Call -> {"idle", "allocate", "find", "found", "uncache", "audit", "outbox",
                          "commit", "committed", "done"}]
    /\ op \in [Call -> Op \cup {"none"}]
    /\ target \in [Call -> Link \cup {None}]
    /\ attempt \in [Call -> 0..MaxAttempts]
    /\ pending \in [Call -> SUBSET {"row", "audit", "outbox"}]
    /\ at \in [Call -> Nat]
    /\ answer \in [Call -> {"none", "ok", "refused", "error"}]
    /\ clock \in Nat

TableTypes ==
    /\ workspace \in BOOLEAN
    /\ row \in [Link -> Code \cup {Unused, Gone}]
    /\ audit \subseteq AuditRow
    /\ phase \in [Call -> {"none", "waiting", "published", "dead"}]
    /\ delivered \subseteq Call

HistoryTypes == done \in [Link -> Seq([call : Call, op : Op])]

CodesUnique == \A l, m \in Rows : row[l] = row[m] => l = m

\* ChangesTypeOK in these parts.
LEMMA ChangesTypesInParts ==
    ChangesTypeOK <=> CallTypes /\ TableTypes /\ HistoryTypes /\ CodesUnique
  BY Zenon DEF ChangesTypeOK, CallTypes, TableTypes, HistoryTypes, CodesUnique

\* What Answer does.
LEMMA AnswerStep ==
    ASSUME CallTypes, NEW c \in Call, NEW a \in {"ok", "refused", "error"}, Answer(c, a)
    PROVE  /\ CallTypes'
           /\ step'[c] = "done" /\ answer'[c] = a /\ pending'[c] = {}
           /\ \A d \in Call \ {c} : Rests(d)
  <1> USE DEF Answer, GoTo
  <1>1. /\ step' = [step EXCEPT ![c] = "done"] /\ answer' = [answer EXCEPT ![c] = a]
        /\ pending' = [pending EXCEPT ![c] = {}] /\ op' = [op EXCEPT ![c] = "none"]
        /\ target' = [target EXCEPT ![c] = None] /\ attempt' = [attempt EXCEPT ![c] = 0]
        /\ at' = [at EXCEPT ![c] = 0] /\ clock' = clock
    OBVIOUS
  <1>2. attempt' \in [Call -> 0..MaxAttempts] /\ at' \in [Call -> Nat]
    BY <1>1, LinkChangesAssumption DEF CallTypes
  <1>3. CallTypes'
    BY <1>1, <1>2 DEF CallTypes
  <1>4. step'[c] = "done" /\ answer'[c] = a /\ pending'[c] = {}
    BY <1>1 DEF CallTypes
  <1>5. ASSUME NEW d \in Call \ {c}
        PROVE  Rests(d)
    BY <1>1 DEF CallTypes, Rests
  <1>6. QED
    BY <1>3, <1>4, <1>5

\* A call gets from one place to the next.
Advances(c, from, to) ==
    /\ step[c] = from /\ step'[c] = to
    /\ op'[c] = op[c] /\ target'[c] = target[c] /\ answer'[c] = answer[c]

\* A call ends without having changed anything in this step.
EndsWith(c, a) == step'[c] = "done" /\ pending'[c] = {} /\ answer'[c] = a

\* The steps of a call that leave tables and histories alone.
LocalStep(c) ==
    \/ CodeTaken(c) \/ NoCodeLeft(c) \/ NoWorkspace(c) \/ Find(c) \/ Refuse(c)
    \/ ChangeRow(c) \/ RowGone(c) \/ Uncache(c) \/ InsertAudit(c) \/ InsertEvent(c)
    \/ AnswerOk(c) \/ Fail(c)
    \/ \E o \in Op, l \in Link \cup {None} : Start(c, o, l)

\* What such a step does.
LocalMove(c) ==
    \/ /\ step[c] = "idle" /\ pending'[c] = pending[c] /\ answer'[c] = answer[c]
       /\ \/ step'[c] = "allocate" /\ op'[c] = "create"
          \/ step'[c] = "find" /\ op'[c] \in {"update", "remove"} /\ target'[c] \in Link
    \/ step[c] \notin {"idle", "done"} /\ EndsWith(c, "error")
    \/ step[c] \in {"allocate", "find", "found"} /\ EndsWith(c, "refused")
    \/ step[c] = "committed" /\ EndsWith(c, "ok")
    \/ Rests(c)
    \/ Advances(c, "find", "found") /\ pending'[c] = pending[c]
    \/ /\ Advances(c, "found", "uncache") \/ Advances(c, "found", "audit")
       /\ pending'[c] = {"row"} /\ MayLock(c) /\ OneRow(c)
    \/ Advances(c, "uncache", "audit") /\ pending'[c] = pending[c]
    \/ /\ Advances(c, "audit", "outbox") /\ pending'[c] = pending[c] \cup {"audit"}
       /\ clock' = clock + 1 /\ at'[c] = clock + 1
    \/ /\ Advances(c, "outbox", "commit") /\ pending'[c] = pending[c] \cup {"outbox"}
       /\ at'[c] = at[c]

\* The steps of the system in these classes.
LEMMA StepsInClasses ==
    ASSUME ChangesNext
    PROVE  \/ \E c \in Call : LocalStep(c)
           \/ \E c \in Call, k \in Code : Created(c, k) \/ CreatedUnheard(c, k)
           \/ \E c \in Call : Commit(c) \/ CommitUnheard(c)
           \/ RemoveWorkspace
           \/ \E c \in Call : Relay(c)
  BY DEF ChangesNext, CallStep, CreateStep, ChangeStep, LocalStep

\* A local step moves one call as LocalMove says.
LEMMA LocalSteps ==
    ASSUME CallTypes, NEW c \in Call, LocalStep(c)
    PROVE  /\ UNCHANGED <<tables, done>> /\ CallTypes' /\ clock <= clock'
           /\ LocalMove(c)
           /\ \A d \in Call \ {c} : Rests(d)
  <1> USE DEF callVars
  <1> DEFINE Goal == /\ UNCHANGED <<tables, done>> /\ CallTypes' /\ clock <= clock'
                     /\ LocalMove(c)
                     /\ \A d \in Call \ {c} : Rests(d)
  <1>0. clock \in Nat
    BY DEF CallTypes
  <1>1. ASSUME NEW a \in {"ok", "refused", "error"}, Answer(c, a), UNCHANGED <<tables, done>>,
               \/ a = "error" /\ step[c] \notin {"idle", "done"}
               \/ a = "refused" /\ step[c] \in {"allocate", "find", "found"}
               \/ a = "ok" /\ step[c] = "committed"
        PROVE  Goal
    <2>1. CallTypes' /\ EndsWith(c, a) /\ \A d \in Call \ {c} : Rests(d)
      BY <1>1, AnswerStep DEF EndsWith
    <2>2. clock' = clock
      BY <1>1 DEF Answer
    <2>3. LocalMove(c)
      BY <1>1, <2>1 DEF LocalMove
    <2>4. QED
      BY <1>0, <1>1, <2>1, <2>2, <2>3
  <1>2. CASE NoCodeLeft(c) \/ NoWorkspace(c) \/ Refuse(c) \/ AnswerOk(c) \/ Fail(c)
    BY <1>1, <1>2 DEF NoCodeLeft, NoWorkspace, Refuse, AnswerOk, Fail
  <1>3. CASE RowGone(c)
    <2>1. CASE op[c] = "remove"
      BY <1>1, <1>3, <2>1 DEF RowGone
    <2>2. CASE op[c] # "remove"
      BY <1>1, <1>3, <2>2 DEF RowGone
    <2>3. QED
      BY <2>1, <2>2
  <1>4. CASE CodeTaken(c)
    <2>1. UNCHANGED <<tables, done>> /\ clock' = clock
      BY <1>4 DEF CodeTaken
    <2>2. \A d \in Call : Rests(d)
      BY <1>4 DEF CodeTaken, Rests
    <2>3. attempt' \in [Call -> 0..MaxAttempts]
      BY <1>4, LinkChangesAssumption DEF CodeTaken, CallTypes
    <2>4. CallTypes'
      BY <1>4, <2>3 DEF CodeTaken, CallTypes
    <2>5. QED
      BY <1>0, <2>1, <2>2, <2>4 DEF LocalMove
  <1>5. CASE Find(c)
    <2>1. UNCHANGED <<tables, done>> /\ clock' = clock
      BY <1>5 DEF Find
    <2>2. CallTypes' /\ \A d \in Call \ {c} : Rests(d)
      BY <1>5 DEF Find, GoTo, CallTypes, Rests
    <2>3. LocalMove(c)
      BY <1>5 DEF Find, GoTo, CallTypes, LocalMove, Advances
    <2>4. QED
      BY <1>0, <2>1, <2>2, <2>3
  <1>6. CASE ChangeRow(c)
    <2>1. UNCHANGED <<tables, done>> /\ clock' = clock
      BY <1>6 DEF ChangeRow
    <2>2. CallTypes' /\ \A d \in Call \ {c} : Rests(d)
      BY <1>6 DEF ChangeRow, GoTo, CallTypes, Rests
    <2>3. LocalMove(c)
      BY <1>6 DEF ChangeRow, GoTo, CallTypes, LocalMove, Advances
    <2>4. QED
      BY <1>0, <2>1, <2>2, <2>3
  <1>7. CASE Uncache(c)
    <2>1. UNCHANGED <<tables, done>> /\ clock' = clock
      BY <1>7 DEF Uncache
    <2>2. CallTypes' /\ \A d \in Call \ {c} : Rests(d)
      BY <1>7 DEF Uncache, GoTo, CallTypes, Rests
    <2>3. LocalMove(c)
      BY <1>7 DEF Uncache, GoTo, CallTypes, LocalMove, Advances
    <2>4. QED
      BY <1>0, <2>1, <2>2, <2>3
  <1>8. CASE InsertAudit(c)
    <2>1. UNCHANGED <<tables, done>> /\ clock' = clock + 1
      BY <1>8 DEF InsertAudit
    <2>2. CallTypes' /\ \A d \in Call \ {c} : Rests(d)
      BY <1>0, <1>8 DEF InsertAudit, GoTo, CallTypes, Rests
    <2>3. LocalMove(c)
      BY <1>8 DEF InsertAudit, GoTo, CallTypes, LocalMove, Advances
    <2>4. QED
      BY <1>0, <2>1, <2>2, <2>3
  <1>9. CASE InsertEvent(c)
    <2>1. UNCHANGED <<tables, done>> /\ clock' = clock
      BY <1>9 DEF InsertEvent
    <2>2. CallTypes' /\ \A d \in Call \ {c} : Rests(d)
      BY <1>9 DEF InsertEvent, GoTo, CallTypes, Rests
    <2>3. LocalMove(c)
      BY <1>9 DEF InsertEvent, GoTo, CallTypes, LocalMove, Advances
    <2>4. QED
      BY <1>0, <2>1, <2>2, <2>3
  <1>10. ASSUME NEW o \in Op, NEW l \in Link \cup {None}, Start(c, o, l)
         PROVE  Goal
    <2>1. UNCHANGED <<tables, done>> /\ clock' = clock
      BY <1>10 DEF Start
    <2>2. CallTypes' /\ \A d \in Call \ {c} : Rests(d)
      BY <1>10 DEF Start, GoTo, CallTypes, Rests
    <2>3. LocalMove(c)
      BY <1>10 DEF Start, GoTo, CallTypes, LocalMove, Op
    <2>4. QED
      BY <1>0, <2>1, <2>2, <2>3
  <1>11. QED
    BY <1>2, <1>3, <1>4, <1>5, <1>6, <1>7, <1>8, <1>9, <1>10 DEF LocalStep

\* What an insert does: a new row, with a free code, and the beginning of its history.
LEMMA InsertSteps ==
    ASSUME CallTypes, NEW c \in Call, NEW k \in Code, Created(c, k) \/ CreatedUnheard(c, k)
    PROVE  /\ CallTypes' /\ clock' = clock /\ UNCHANGED <<workspace, audit, phase, delivered>>
           /\ Fresh \in Link /\ row[Fresh] = Unused /\ ~Taken(k) /\ step[c] = "allocate"
           /\ row' = [row EXCEPT ![Fresh] = k] /\ Committed(Fresh, c, "create")
           /\ \A d \in Call \ {c} : Rests(d)
           /\ \/ Advances(c, "allocate", "committed") /\ pending'[c] = pending[c]
              \/ EndsWith(c, "error")
  <1>1. /\ UNCHANGED <<workspace, audit, phase, delivered>> /\ step[c] = "allocate"
        /\ ~Taken(k) /\ row' = [row EXCEPT ![Fresh] = k] /\ Committed(Fresh, c, "create")
    BY DEF Created, CreatedUnheard, Insert
  <1>2. Fresh \in Link /\ row[Fresh] = Unused
    BY DEF Created, CreatedUnheard, Insert, Fresh
  <1>3. CASE Created(c, k)
    <2>1. clock' = clock
      BY <1>3 DEF Created
    <2>2. CallTypes' /\ \A d \in Call \ {c} : Rests(d)
      BY <1>3 DEF Created, GoTo, CallTypes, Rests, callVars
    <2>3. Advances(c, "allocate", "committed") /\ pending'[c] = pending[c]
      BY <1>3 DEF Created, Insert, GoTo, CallTypes, Advances, callVars
    <2>4. QED
      BY <1>1, <1>2, <2>1, <2>2, <2>3
  <1>4. CASE CreatedUnheard(c, k)
    <2>1. clock' = clock
      BY <1>4 DEF CreatedUnheard, Answer
    <2>2. CallTypes' /\ EndsWith(c, "error") /\ \A d \in Call \ {c} : Rests(d)
      BY <1>4, AnswerStep DEF CreatedUnheard, EndsWith
    <2>3. QED
      BY <1>1, <1>2, <2>1, <2>2
  <1>5. QED
    BY <1>3, <1>4

\* What a commit does.
LEMMA CommitSteps ==
    ASSUME CallTypes, NEW c \in Call, Commit(c) \/ CommitUnheard(c)
    PROVE  /\ CallTypes' /\ clock' = clock /\ Apply(c) /\ step[c] = "commit"
           /\ \A d \in Call \ {c} : Rests(d)
           /\ pending'[c] = {}
           /\ Advances(c, "commit", "committed") \/ EndsWith(c, "error")
  <1>1. Apply(c) /\ step[c] = "commit"
    BY DEF Commit, CommitUnheard, Apply
  <1>2. CASE Commit(c)
    <2>1. clock' = clock
      BY <1>2 DEF Commit
    <2>2. CallTypes' /\ \A d \in Call \ {c} : Rests(d)
      BY <1>2 DEF Commit, GoTo, CallTypes, Rests
    <2>3. Advances(c, "commit", "committed") /\ pending'[c] = {}
      BY <1>1, <1>2 DEF Commit, GoTo, CallTypes, Advances
    <2>4. QED
      BY <1>1, <2>1, <2>2, <2>3
  <1>3. CASE CommitUnheard(c)
    <2>1. clock' = clock
      BY <1>3 DEF CommitUnheard, Answer
    <2>2. CallTypes' /\ EndsWith(c, "error") /\ \A d \in Call \ {c} : Rests(d)
      BY <1>3, AnswerStep DEF CommitUnheard, EndsWith
    <2>3. QED
      BY <1>1, <2>1, <2>2 DEF EndsWith
  <1>4. QED
    BY <1>2, <1>3

\* Every other step leaves the calls and the histories as they are.
LEMMA OtherSteps ==
    ASSUME CallTypes,
           RemoveWorkspace \/ (\E c \in Call : Relay(c)) \/ UNCHANGED changesVars
    PROVE  CallTypes' /\ UNCHANGED <<audit, clock, done>> /\ \A d \in Call : Rests(d)
  <1>1. UNCHANGED <<audit, clock, step, callVars, done>>
    BY DEF RemoveWorkspace, Relay, changesVars, tables
  <1>2. QED
    BY <1>1 DEF callVars, CallTypes, Rests

(***************************************************************************)
(* LinkChanges: calls and types                                            *)
(***************************************************************************)

\* What the transaction of a call has written, from how far the call is.
Written(c) ==
    CASE step[c] \in {"uncache", "audit"} -> {"row"}
      [] step[c] = "outbox"               -> {"row", "audit"}
      [] step[c] = "commit"               -> {"row", "audit", "outbox"}
      [] OTHER                            -> {}

CallInOrder(c) ==
    /\ pending[c] = Written(c)
    /\ step[c] \in {"find", "found", "uncache", "audit", "outbox", "commit"} =>
          op[c] \in {"update", "remove"} /\ target[c] \in Link
    /\ step[c] # "done" => answer[c] = "none"

\* Each call is where its transaction has written what it has.
CallsInOrder == \A c \in Call : CallInOrder(c)

\* A call that rests stays in order.
LEMMA RestsInOrder ==
    ASSUME NEW c \in Call, CallInOrder(c), Rests(c)
    PROVE  CallInOrder(c)'
  BY DEF CallInOrder, Rests, Written

\* Every call goes through its steps in order, and its transaction writes as it goes.
LEMMA CallsGoInOrder == ChangesSpec => [](CallTypes /\ CallsInOrder)
  <1>1. ChangesInit => CallTypes /\ CallsInOrder
    <2> SUFFICES ASSUME ChangesInit
                 PROVE  CallTypes /\ CallsInOrder
      OBVIOUS
    <2>1. attempt \in [Call -> 0..MaxAttempts] /\ at \in [Call -> Nat] /\ clock \in Nat
      BY LinkChangesAssumption DEF ChangesInit
    <2>2. CallTypes
      BY <2>1 DEF ChangesInit, CallTypes
    <2>3. CallsInOrder
      BY DEF ChangesInit, CallsInOrder, CallInOrder, Written
    <2>4. QED
      BY <2>2, <2>3
  <1>2. CallTypes /\ CallsInOrder /\ [ChangesNext]_changesVars => (CallTypes /\ CallsInOrder)'
    <2> SUFFICES ASSUME CallTypes, CallsInOrder, [ChangesNext]_changesVars
                 PROVE  CallTypes' /\ CallsInOrder'
      OBVIOUS
    <2>1. ASSUME NEW c \in Call, \A d \in Call \ {c} : Rests(d), CallInOrder(c)'
          PROVE  CallsInOrder'
      BY <2>1, RestsInOrder DEF CallsInOrder
    <2>2. ASSUME NEW c \in Call, EndsWith(c, "ok") \/ EndsWith(c, "refused") \/ EndsWith(c, "error")
          PROVE  CallInOrder(c)'
      BY <2>2 DEF EndsWith, CallInOrder, Written
    <2>3. ASSUME NEW c \in Call, LocalStep(c)
          PROVE  CallTypes' /\ CallsInOrder'
      <3>1. CallTypes' /\ LocalMove(c) /\ \A d \in Call \ {c} : Rests(d)
        BY <2>3, LocalSteps
      <3>2. CallInOrder(c)
        BY DEF CallsInOrder
      <3>3. CallInOrder(c)'
        <4>1. CASE Rests(c)
          BY <4>1, <3>2, RestsInOrder
        <4>2. CASE EndsWith(c, "ok") \/ EndsWith(c, "refused") \/ EndsWith(c, "error")
          BY <4>2, <2>2
        <4>3. CASE ~Rests(c) /\ ~(EndsWith(c, "ok") \/ EndsWith(c, "refused") \/ EndsWith(c, "error"))
          BY <4>3, <3>1, <3>2 DEF LocalMove, CallInOrder, Written, Advances
        <4>4. QED
          BY <4>1, <4>2, <4>3
      <3>4. QED
        BY <3>1, <3>3, <2>1
    <2>4. ASSUME NEW c \in Call, NEW k \in Code, Created(c, k) \/ CreatedUnheard(c, k)
          PROVE  CallTypes' /\ CallsInOrder'
      <3>1. CallTypes' /\ \A d \in Call \ {c} : Rests(d)
        BY <2>4, InsertSteps
      <3>2. CASE Advances(c, "allocate", "committed") /\ pending'[c] = pending[c]
        BY <3>2, <3>1, <2>1 DEF CallsInOrder, CallInOrder, Written, Advances
      <3>3. CASE EndsWith(c, "error")
        BY <3>3, <3>1, <2>1, <2>2
      <3>4. QED
        BY <3>2, <3>3, <2>4, InsertSteps
    <2>5. ASSUME NEW c \in Call, Commit(c) \/ CommitUnheard(c)
          PROVE  CallTypes' /\ CallsInOrder'
      <3>1. CallTypes' /\ \A d \in Call \ {c} : Rests(d)
        BY <2>5, CommitSteps
      <3>2. CASE Advances(c, "commit", "committed") /\ pending'[c] = {}
        BY <3>2, <3>1, <2>1 DEF CallsInOrder, CallInOrder, Written, Advances
      <3>3. CASE EndsWith(c, "error")
        BY <3>3, <3>1, <2>1, <2>2
      <3>4. QED
        BY <3>2, <3>3, <2>5, CommitSteps
    <2>6. CASE RemoveWorkspace \/ (\E c \in Call : Relay(c)) \/ UNCHANGED changesVars
      BY <2>6, OtherSteps, RestsInOrder DEF CallsInOrder
    <2>7. QED
      BY <2>3, <2>4, <2>5, <2>6, StepsInClasses
  <1>3. QED
    BY <1>1, <1>2, PTL DEF ChangesSpec

\* What a commit writes.
LEMMA ApplySteps ==
    ASSUME CallTypes, CallsInOrder, NEW c \in Call, Apply(c), step[c] = "commit"
    PROVE  /\ op[c] \in {"update", "remove"} /\ target[c] \in Link /\ workspace' = workspace
           /\ row' = IF op[c] = "remove" THEN [row EXCEPT ![target[c]] = Gone] ELSE row
           /\ audit' = audit \cup {[event |-> c, link |-> target[c], action |-> op[c], at |-> at[c]]}
           /\ phase' = [phase EXCEPT ![c] = "waiting"] /\ delivered' = delivered
           /\ Committed(target[c], c, op[c])
  <1>1. pending[c] = {"row", "audit", "outbox"} /\ op[c] \in {"update", "remove"} /\ target[c] \in Link
    BY DEF CallsInOrder, CallInOrder, Written
  <1>2. "audit" \in pending[c] /\ "outbox" \in pending[c]
    BY <1>1
  <1>3. QED
    BY <1>1, <1>2 DEF Apply, Recorded

\* What the relay does to an event: one that is recorded stays recorded.
LEMMA RelaySteps ==
    ASSUME TableTypes, NEW c \in Call, Relay(c)
    PROVE  /\ UNCHANGED <<workspace, row, audit>>
           /\ phase' \in [Call -> {"none", "waiting", "published", "dead"}] /\ delivered' \subseteq Call
           /\ \A d \in Call : phase'[d] = "none" <=> phase[d] = "none"
  BY DEF Relay, Settle, Outbox!Deliver, Outbox!Publish, Outbox!GiveUp, TableTypes

\* Every variable keeps its type, and no two links share a code: an insert is refused
\* a code that a row has, and a row gets its code nowhere else.
THEOREM ChangesTypes == ChangesSpec => []ChangesTypeOK
  <1>0. Unused \notin Code /\ Gone \notin Code /\ Old \in Link /\ OldCode \in Code
    BY LinkChangesAssumption
  <1>1. ChangesInit => TableTypes /\ HistoryTypes /\ CodesUnique
    <2> SUFFICES ASSUME ChangesInit
                 PROVE  TableTypes /\ HistoryTypes /\ CodesUnique
      OBVIOUS
    <2>1. TableTypes
      BY <1>0 DEF ChangesInit, TableTypes, Outbox!Init
    <2>2. HistoryTypes
      BY DEF ChangesInit, HistoryTypes
    <2>3. Rows = {Old}
      BY <1>0 DEF ChangesInit, Rows
    <2>4. QED
      BY <2>1, <2>2, <2>3 DEF CodesUnique
  <1>2. CallTypes /\ CallsInOrder /\ TableTypes /\ HistoryTypes /\ CodesUnique
        /\ [ChangesNext]_changesVars => (TableTypes /\ HistoryTypes /\ CodesUnique)'
    <2> SUFFICES ASSUME CallTypes, CallsInOrder, TableTypes, HistoryTypes, CodesUnique,
                        [ChangesNext]_changesVars
                 PROVE  TableTypes' /\ HistoryTypes' /\ CodesUnique'
      OBVIOUS
    <2>1. ASSUME UNCHANGED row
          PROVE  CodesUnique'
      BY <2>1 DEF CodesUnique, Rows
    <2>2. ASSUME NEW l \in Link, NEW c \in Call, NEW o \in Op, Committed(l, c, o)
          PROVE  HistoryTypes'
      <3> DEFINE Entry == [call : Call, op : Op]
                 new == [call |-> c, op |-> o]
      <3>1. new \in Entry /\ done \in [Link -> Seq(Entry)]
        BY DEF HistoryTypes
      <3>2. done' = [done EXCEPT ![l] = Append(done[l], new)]
        BY <2>2 DEF Committed
      <3>3. HistoryTypes' <=> done' \in [Link -> Seq(Entry)]
        BY DEF HistoryTypes
      <3> HIDE DEF Entry, new
      <3>4. Append(done[l], new) \in Seq(Entry)
        BY <3>1, AppendProperties
      <3>5. QED
        BY <3>1, <3>2, <3>3, <3>4
    <2>3. ASSUME NEW c \in Call, LocalStep(c)
          PROVE  TableTypes' /\ HistoryTypes' /\ CodesUnique'
      <3>1. UNCHANGED <<tables, done>>
        BY <2>3, LocalSteps
      <3>2. QED
        BY <3>1, <2>1 DEF tables, TableTypes, HistoryTypes
    <2>4. ASSUME NEW c \in Call, NEW k \in Code, Created(c, k) \/ CreatedUnheard(c, k)
          PROVE  TableTypes' /\ HistoryTypes' /\ CodesUnique'
      <3>1. /\ UNCHANGED <<workspace, audit, phase, delivered>>
            /\ Fresh \in Link /\ row[Fresh] = Unused /\ ~Taken(k)
            /\ row' = [row EXCEPT ![Fresh] = k] /\ Committed(Fresh, c, "create")
        BY <2>4, InsertSteps
      <3>2. TableTypes'
        BY <3>1 DEF TableTypes
      <3>3. HistoryTypes'
        BY <3>1, <2>2 DEF Op
      <3>4. ASSUME NEW l \in Rows', NEW m \in Rows', row'[l] = row'[m], l # m
            PROVE  FALSE
        <4>1. \A n \in Rows' : n = Fresh \/ (n \in Rows /\ row'[n] = row[n] /\ row[n] # k)
          BY <3>1 DEF Rows, TableTypes, Taken
        <4>2. row'[Fresh] = k
          BY <3>1 DEF TableTypes
        <4>3. QED
          BY <3>4, <4>1, <4>2 DEF CodesUnique
      <3>5. QED
        BY <3>2, <3>3, <3>4 DEF CodesUnique
    <2>5. ASSUME NEW c \in Call, Commit(c) \/ CommitUnheard(c)
          PROVE  TableTypes' /\ HistoryTypes' /\ CodesUnique'
      <3>1. Apply(c) /\ step[c] = "commit" /\ at[c] \in Nat
        BY <2>5, CommitSteps DEF CallTypes
      <3> DEFINE new == [event |-> c, link |-> target[c], action |-> op[c], at |-> at[c]]
      <3>2. /\ op[c] \in {"update", "remove"} /\ target[c] \in Link /\ workspace' = workspace
            /\ row' = IF op[c] = "remove" THEN [row EXCEPT ![target[c]] = Gone] ELSE row
            /\ audit' = audit \cup {new}
            /\ phase' = [phase EXCEPT ![c] = "waiting"] /\ delivered' = delivered
            /\ Committed(target[c], c, op[c])
        BY <3>1, ApplySteps
      <3>3. new \in AuditRow
        BY <3>1, <3>2 DEF AuditRow
      <3> HIDE DEF new
      <3>4. row' \in [Link -> Code \cup {Unused, Gone}]
        BY <3>2 DEF TableTypes
      <3>5. TableTypes'
        BY <3>2, <3>3, <3>4 DEF TableTypes
      <3>6. HistoryTypes'
        BY <3>2, <2>2 DEF Op
      <3>7. \A n \in Rows' : n \in Rows /\ row'[n] = row[n]
        BY <1>0, <3>2 DEF Rows, TableTypes
      <3>8. QED
        BY <3>5, <3>6, <3>7 DEF CodesUnique
    <2>6. ASSUME NEW c \in Call, Relay(c)
          PROVE  TableTypes' /\ HistoryTypes' /\ CodesUnique'
      <3>1. TableTypes'
        BY <2>6, RelaySteps DEF TableTypes
      <3>2. UNCHANGED row /\ UNCHANGED done
        BY <2>6 DEF Relay
      <3>3. QED
        BY <3>1, <3>2, <2>1 DEF HistoryTypes
    <2>7. CASE RemoveWorkspace
      <3>1. TableTypes' /\ HistoryTypes'
        BY <2>7 DEF RemoveWorkspace, TableTypes, HistoryTypes
      <3>2. Rows' = {}
        BY <1>0, <2>7 DEF RemoveWorkspace, Rows, TableTypes
      <3>3. QED
        BY <3>1, <3>2 DEF CodesUnique
    <2>8. CASE UNCHANGED changesVars
      BY <2>8, <2>1 DEF changesVars, tables, TableTypes, HistoryTypes
    <2>9. QED
      BY <2>3, <2>4, <2>5, <2>6, <2>7, <2>8, StepsInClasses
  <1>3. QED
    BY <1>1, <1>2, CallsGoInOrder, ChangesTypesInParts, PTL DEF ChangesSpec

(***************************************************************************)
(* LinkChanges: locks and histories                                        *)
(*                                                                         *)
(* The argument: a row is locked by one transaction at a time, from before *)
(* its audit row gets its time until the commit, and cannot go meanwhile.  *)
(* So the changes of a link are committed in the order of their times, and *)
(* nothing is committed after its removal.                                 *)
(***************************************************************************)

\* A row that is locked is there, and locked once.
LocksExclude ==
    \A c \in Call, l \in Link : Locks(c, l) =>
        l \in Rows /\ \A d \in Call \ {c} : ~Locks(d, l)

\* A call that rests keeps its locks and gets no other.
LEMMA RestsLocks ==
    ASSUME NEW c, Rests(c), NEW l
    PROVE  Locks(c, l)' <=> Locks(c, l)
  BY DEF Rests, Locks

\* No two transactions hold the same row, and the row a transaction holds is there.
LEMMA LocksDoExclude == ChangesSpec => []LocksExclude
  <1>0. Unused \notin Code /\ Gone \notin Code
    BY LinkChangesAssumption
  <1>1. ChangesInit => LocksExclude
    BY DEF ChangesInit, LocksExclude, Locks
  <1>2. CallTypes /\ CallsInOrder /\ TableTypes /\ LocksExclude /\ [ChangesNext]_changesVars
        => LocksExclude'
    <2> SUFFICES ASSUME CallTypes, CallsInOrder, TableTypes, LocksExclude, [ChangesNext]_changesVars
                 PROVE  LocksExclude'
      OBVIOUS
    \* Nobody gets a lock, and no locked row goes.
    <2>1. ASSUME \A d \in Call, l \in Link : Locks(d, l)' => Locks(d, l) /\ (l \in Rows => l \in Rows')
          PROVE  LocksExclude'
      BY <2>1 DEF LocksExclude
    <2>2. ASSUME NEW c \in Call, LocalStep(c)
          PROVE  LocksExclude'
      <3>1. /\ Rows' = Rows /\ LocalMove(c) /\ CallInOrder(c)
            /\ \A d \in Call \ {c}, l \in Link : Locks(d, l)' <=> Locks(d, l)
        BY <2>2, LocalSteps, RestsLocks DEF tables, Rows, CallsInOrder
      <3>2. ASSUME NEW l \in Link, Locks(c, l)'
            PROVE  Locks(c, l) \/ (target[c] = l /\ MayLock(c) /\ OneRow(c))
        BY <3>1, <3>2 DEF LocalMove, CallInOrder, Written, Advances, EndsWith, Rests, Locks
      <3>3. ASSUME NEW l \in Link, Locks(c, l)'
            PROVE  l \in Rows' /\ \A d \in Call \ {c} : ~Locks(d, l)'
        <4>1. CASE Locks(c, l)
          BY <4>1, <3>1 DEF LocksExclude
        <4>2. CASE target[c] = l /\ MayLock(c) /\ OneRow(c)
          BY <4>2, <3>1 DEF MayLock, OneRow
        <4>3. QED
          BY <4>1, <4>2, <3>2, <3>3
      <3>4. ASSUME NEW d \in Call \ {c}, NEW l \in Link, Locks(d, l)'
            PROVE  l \in Rows' /\ \A e \in Call \ {d} : ~Locks(e, l)'
        BY <3>1, <3>3, <3>4 DEF LocksExclude
      <3>5. QED
        BY <3>3, <3>4 DEF LocksExclude
    <2>3. ASSUME NEW c \in Call, NEW k \in Code, Created(c, k) \/ CreatedUnheard(c, k)
          PROVE  LocksExclude'
      <3>1. \A d \in Call \ {c}, l \in Link : Locks(d, l)' <=> Locks(d, l)
        BY <2>3, InsertSteps, RestsLocks
      <3>2. pending'[c] = {}
        BY <2>3, InsertSteps DEF EndsWith, CallsInOrder, CallInOrder, Written, Advances
      <3>3. Fresh \in Link /\ row' = [row EXCEPT ![Fresh] = k]
        BY <2>3, InsertSteps
      <3>4. Rows \subseteq Rows'
        BY <3>3 DEF Rows, TableTypes
      <3>5. QED
        BY <3>1, <3>2, <3>4, <2>1 DEF Locks
    <2>4. ASSUME NEW c \in Call, Commit(c) \/ CommitUnheard(c)
          PROVE  LocksExclude'
      <3>1. /\ Apply(c) /\ step[c] = "commit" /\ pending'[c] = {}
            /\ \A d \in Call \ {c}, l \in Link : Locks(d, l)' <=> Locks(d, l)
        BY <2>4, CommitSteps, RestsLocks
      <3>2. Locks(c, target[c]) /\ target[c] \in Link
        BY <3>1 DEF CallsInOrder, CallInOrder, Written, Locks
      <3>3. \A l \in Rows \ {target[c]} : l \in Rows'
        BY <3>1, ApplySteps DEF Rows, TableTypes
      <3>4. \A d \in Call \ {c} : ~Locks(d, target[c])
        BY <3>2 DEF LocksExclude
      <3>5. ASSUME NEW d \in Call, NEW l \in Link, Locks(d, l)'
            PROVE  Locks(d, l) /\ (l \in Rows => l \in Rows')
        <4>1. d # c
          BY <3>1, <3>5 DEF Locks
        <4>2. Locks(d, l) /\ l # target[c]
          BY <3>1, <3>4, <3>5, <4>1
        <4>3. QED
          BY <3>3, <4>2
      <3>6. QED
        BY <3>5, <2>1
    <2>5. CASE RemoveWorkspace
      <3>1. \A l \in Link, d \in Call : ~Locks(d, l)
        BY <2>5 DEF RemoveWorkspace, Locked
      <3>2. \A d \in Call, l \in Link : Locks(d, l)' <=> Locks(d, l)
        BY <2>5, OtherSteps, RestsLocks
      <3>3. QED
        BY <3>1, <3>2, <2>1
    <2>6. CASE (\E c \in Call : Relay(c)) \/ UNCHANGED changesVars
      <3>1. \A d \in Call, l \in Link : Locks(d, l)' <=> Locks(d, l)
        BY <2>6, OtherSteps, RestsLocks
      <3>2. Rows' = Rows
        BY <2>6 DEF Relay, changesVars, tables, Rows
      <3>3. QED
        BY <3>1, <3>2, <2>1
    <2>7. QED
      BY <2>2, <2>3, <2>4, <2>5, <2>6, StepsInClasses
  <1>3. QED
    BY <1>1, <1>2, CallsGoInOrder, ChangesTypes, ChangesTypesInParts, PTL DEF ChangesSpec

\* What Committed does to the histories.
LEMMA HistoryGrows ==
    ASSUME HistoryTypes, NEW l \in Link, NEW c, NEW o, Committed(l, c, o)
    PROVE  /\ \A m \in Link \ {l} : done'[m] = done[m]
           /\ Len(done[l]) \in Nat /\ DOMAIN done[l] = 1..Len(done[l])
           /\ DOMAIN done'[l] = DOMAIN done[l] \cup {Len(done[l]) + 1}
           /\ Len(done'[l]) = Len(done[l]) + 1
           /\ \A i \in DOMAIN done[l] : done'[l][i] = done[l][i]
           /\ done'[l][Len(done[l]) + 1] = [call |-> c, op |-> o]
  <1> DEFINE Entry == [call : Call, op : Op]
             new == [call |-> c, op |-> o]
             h == done[l]
             g == Append(h, new)
  <1>1. h \in Seq(Entry) /\ \A m \in Link \ {l} : done'[m] = done[m]
    BY DEF HistoryTypes, Committed
  <1>2. done'[l] = g
    BY DEF HistoryTypes, Committed
  <1>3. h \in Seq(Entry \cup {new}) /\ new \in Entry \cup {new}
    <2> HIDE DEF Entry, new, h
    <2>1. QED
      BY <1>1
  <1> HIDE DEF Entry, new, h
  <1>4. /\ g \in Seq(Entry \cup {new}) /\ Len(g) = Len(h) + 1
        /\ \A i \in 1..Len(h) : g[i] = h[i]
        /\ g[Len(h) + 1] = new
    BY <1>3, AppendProperties
  <1>5. Len(h) \in Nat /\ DOMAIN h = 1..Len(h) /\ DOMAIN g = 1..Len(g)
    BY <1>3, <1>4
  <1>6. DOMAIN g = DOMAIN h \cup {Len(h) + 1}
    BY <1>4, <1>5
  <1> HIDE DEF g
  <1>7. QED
    BY <1>1, <1>2, <1>4, <1>5, <1>6 DEF h, new

\* A call has made a change.
Made(c) == \E l \in Link : \E i \in DOMAIN done[l] : done[l][i].call = c

\* A call makes one change at most, and has made it when it says so.
ChangesOnce ==
    /\ \A l, m \in Link : \A i \in DOMAIN done[l], j \in DOMAIN done[m] :
          done[l][i].call = done[m][j].call => l = m /\ i = j
    /\ \A c \in Call : Made(c) => step[c] \in {"committed", "done"}
    /\ \A c \in Call : step[c] = "committed" \/ answer[c] = "ok" => Made(c)
    /\ \A c \in Call : answer[c] = "refused" => ~Made(c)

\* A call that has made no change yet makes one, and is over or about to be.
LEMMA OneMoreChange ==
    ASSUME HistoryTypes, ChangesOnce, NEW l \in Link, NEW c \in Call, NEW o, Committed(l, c, o),
           step[c] \notin {"committed", "done"}, step'[c] \in {"committed", "done"},
           answer'[c] \notin {"ok", "refused"}, \A d \in Call \ {c} : Rests(d)
    PROVE  ChangesOnce'
  <1> DEFINE n == Len(done[l]) + 1
  <1>1. /\ \A m \in Link \ {l} : done'[m] = done[m]
        /\ DOMAIN done'[l] = DOMAIN done[l] \cup {n}
        /\ \A i \in DOMAIN done[l] : done'[l][i] = done[l][i]
        /\ done'[l][n].call = c
    <2>1. /\ \A m \in Link \ {l} : done'[m] = done[m]
          /\ DOMAIN done'[l] = DOMAIN done[l] \cup {n}
          /\ \A i \in DOMAIN done[l] : done'[l][i] = done[l][i]
      BY HistoryGrows
    <2>2. done'[l][n] = [call |-> c, op |-> o]
      BY HistoryGrows
    <2>3. QED
      BY <2>1, <2>2
  <1> HIDE DEF n
  <1>2. ~Made(c)
    BY DEF ChangesOnce
  <1>3. \A m \in Link : \A i \in DOMAIN done'[m] :
           \/ m = l /\ i = n /\ done'[m][i].call = c
           \/ i \in DOMAIN done[m] /\ done'[m][i] = done[m][i] /\ done[m][i].call # c
    BY <1>1, <1>2 DEF Made
  <1>4. \A d \in Call \ {c} : Made(d)' <=> Made(d)
    <2>1. \A m \in Link : \A i \in DOMAIN done[m] : i \in DOMAIN done'[m] /\ done'[m][i] = done[m][i]
      BY <1>1
    <2>2. QED
      BY <1>3, <2>1 DEF Made
  <1>5. Made(c)'
    BY <1>1 DEF Made
  <1>6. \A p, m \in Link : \A i \in DOMAIN done'[p], j \in DOMAIN done'[m] :
          done'[p][i].call = done'[m][j].call => p = m /\ i = j
    BY <1>3 DEF ChangesOnce
  <1>7. \A d \in Call : Made(d)' => step'[d] \in {"committed", "done"}
    BY <1>4 DEF ChangesOnce, Rests
  <1>8. \A d \in Call : step'[d] = "committed" \/ answer'[d] = "ok" => Made(d)'
    BY <1>4, <1>5 DEF ChangesOnce, Rests
  <1>9. \A d \in Call : answer'[d] = "refused" => ~Made(d)'
    BY <1>4 DEF ChangesOnce, Rests
  <1>10. QED
    BY <1>6, <1>7, <1>8, <1>9 DEF ChangesOnce

\* Every call changes one link at most, once, and answers accordingly.
LEMMA ChangesAreMadeOnce == ChangesSpec => []ChangesOnce
  <1>1. ChangesInit => ChangesOnce
    BY DEF ChangesInit, ChangesOnce, Made
  <1>2. CallTypes /\ CallsInOrder /\ HistoryTypes /\ ChangesOnce /\ [ChangesNext]_changesVars
        => ChangesOnce'
    <2> SUFFICES ASSUME CallTypes, CallsInOrder, HistoryTypes, ChangesOnce, [ChangesNext]_changesVars
                 PROVE  ChangesOnce'
      OBVIOUS
    <2>1. ASSUME NEW c \in Call, LocalStep(c)
          PROVE  ChangesOnce'
      <3>1. done' = done /\ LocalMove(c) /\ CallInOrder(c) /\ \A d \in Call \ {c} : Rests(d)
        BY <2>1, LocalSteps DEF CallsInOrder
      <3>2. \A d \in Call : Made(d)' <=> Made(d)
        BY <3>1 DEF Made
      <3>3. Made(c) => step'[c] \in {"committed", "done"}
        BY <3>1 DEF ChangesOnce, LocalMove, Advances, EndsWith, Rests
      <3>4. step'[c] = "committed" \/ answer'[c] = "ok" => Made(c)
        BY <3>1 DEF ChangesOnce, LocalMove, Advances, EndsWith, Rests, CallInOrder
      <3>5. answer'[c] = "refused" => ~Made(c)
        BY <3>1 DEF ChangesOnce, LocalMove, Advances, EndsWith, Rests, CallInOrder
      <3>6. QED
        BY <3>1, <3>2, <3>3, <3>4, <3>5 DEF ChangesOnce, Rests
    <2>2. ASSUME NEW c \in Call, NEW k \in Code, Created(c, k) \/ CreatedUnheard(c, k)
          PROVE  ChangesOnce'
      <3>1. /\ Fresh \in Link /\ Committed(Fresh, c, "create") /\ step[c] = "allocate"
            /\ \A d \in Call \ {c} : Rests(d)
            /\ \/ Advances(c, "allocate", "committed") /\ pending'[c] = pending[c]
               \/ EndsWith(c, "error")
        BY <2>2, InsertSteps
      <3>2. step'[c] \in {"committed", "done"} /\ answer'[c] \notin {"ok", "refused"}
        BY <3>1 DEF Advances, EndsWith, CallsInOrder, CallInOrder
      <3>3. QED
        BY <3>1, <3>2, OneMoreChange
    <2>3. ASSUME NEW c \in Call, Commit(c) \/ CommitUnheard(c)
          PROVE  ChangesOnce'
      <3>1. /\ Apply(c) /\ step[c] = "commit" /\ \A d \in Call \ {c} : Rests(d)
            /\ Advances(c, "commit", "committed") \/ EndsWith(c, "error")
        BY <2>3, CommitSteps
      <3>2. step'[c] \in {"committed", "done"} /\ answer'[c] \notin {"ok", "refused"}
        BY <3>1 DEF Advances, EndsWith, CallsInOrder, CallInOrder
      <3>3. target[c] \in Link /\ Committed(target[c], c, op[c])
        BY <3>1, ApplySteps
      <3>4. QED
        BY <3>1, <3>2, <3>3, OneMoreChange
    <2>4. CASE RemoveWorkspace \/ (\E c \in Call : Relay(c)) \/ UNCHANGED changesVars
      <3>1. done' = done /\ \A d \in Call : Rests(d)
        BY <2>4, OtherSteps
      <3>2. \A d \in Call : Made(d)' <=> Made(d)
        BY <3>1 DEF Made
      <3>3. QED
        BY <3>1, <3>2 DEF ChangesOnce, Rests
    <2>5. QED
      BY <2>1, <2>2, <2>3, <2>4, StepsInClasses
  <1>3. QED
    BY <1>1, <1>2, CallsGoInOrder, ChangesTypes, ChangesTypesInParts, PTL DEF ChangesSpec

\* Answers are true: a success has made its one change, a refusal none, and an error
\* one at most.
THEOREM AnswersTellTheTruth == ChangesSpec => []AnswersAreTrue
  <1>1. ChangesOnce => AnswersAreTrue
    <2> SUFFICES ASSUME ChangesOnce, NEW c \in Call
                 PROVE  CASE answer[c] = "ok"      -> \E x \in Changed(c) : Changed(c) = {x}
                          [] answer[c] = "refused" -> Changed(c) = {}
                          [] OTHER                 -> \A x, y \in Changed(c) : x = y
      BY DEF AnswersAreTrue
    <2>1. \A x \in Changed(c) : \E l \in Link : \E i \in DOMAIN done[l] :
             x = <<l, i>> /\ done[l][i].call = c
      BY DEF Changed
    <2>2. \A x, y \in Changed(c) : x = y
      BY <2>1 DEF ChangesOnce
    <2>3. Made(c) => Changed(c) # {}
      <3> SUFFICES ASSUME NEW l \in Link, NEW i \in DOMAIN done[l], done[l][i].call = c
                   PROVE  \E x : x \in Changed(c)
        BY DEF Made
      <3>1. <<l, i>> \in Changed(c)
        BY DEF Changed
      <3>2. QED
        BY <3>1
    <2>4. ~Made(c) => Changed(c) = {}
      BY <2>1 DEF Made
    <2>5. QED
      BY <2>2, <2>3, <2>4 DEF ChangesOnce
  <1>2. QED
    BY <1>1, ChangesAreMadeOnce, PTL

(***************************************************************************)
(* LinkChanges: the audit log                                              *)
(***************************************************************************)

\* A link without a row has no history, and a removal is the end of one.
HistoryEnds ==
    \A l \in Link :
        /\ row[l] = Unused => done[l] = <<>>
        /\ \A i \in DOMAIN done[l] :
              done[l][i].op = "remove" => row[l] = Gone /\ i = Len(done[l])

\* A commit locks a row that is there.
LEMMA CommitHoldsLock ==
    ASSUME CallsInOrder, LocksExclude, NEW c \in Call, step[c] = "commit"
    PROVE  /\ target[c] \in Rows /\ target[c] \in Link
           /\ "audit" \in pending[c]
           /\ \A d \in Call \ {c} : pending[d] # {} => target[d] # target[c]
  <1>1. pending[c] = {"row", "audit", "outbox"} /\ target[c] \in Link
    BY DEF CallsInOrder, CallInOrder, Written
  <1>2. Locks(c, target[c])
    BY <1>1 DEF Locks
  <1>3. ASSUME NEW d \in Call \ {c}, pending[d] # {}, target[d] = target[c]
        PROVE  FALSE
    <2>1. "row" \in pending[d]
      BY <1>3 DEF CallsInOrder, CallInOrder, Written
    <2>2. Locks(d, target[c])
      BY <2>1, <1>3 DEF Locks
    <2>3. QED
      BY <2>2, <1>1, <1>2 DEF LocksExclude
  <1>4. QED
    BY <1>1, <1>2, <1>3 DEF LocksExclude

\* Histories begin with a row and end with its removal.
LEMMA HistoriesEnd == ChangesSpec => []HistoryEnds
  <1>0. Unused \notin Code /\ Gone \notin Code /\ Unused # Gone
    BY LinkChangesAssumption
  <1>1. ChangesInit => HistoryEnds
    BY DEF ChangesInit, HistoryEnds
  <1>2. CallTypes /\ CallsInOrder /\ TableTypes /\ HistoryTypes /\ LocksExclude /\ HistoryEnds
        /\ [ChangesNext]_changesVars => HistoryEnds'
    <2> SUFFICES ASSUME CallTypes, CallsInOrder, TableTypes, HistoryTypes, LocksExclude,
                        HistoryEnds, [ChangesNext]_changesVars
                 PROVE  HistoryEnds'
      OBVIOUS
    <2>1. ASSUME NEW c \in Call, LocalStep(c)
          PROVE  HistoryEnds'
      <3>1. UNCHANGED <<row, done>>
        BY <2>1, LocalSteps DEF tables
      <3>2. QED
        BY <3>1 DEF HistoryEnds
    <2>2. ASSUME NEW c \in Call, NEW k \in Code, Created(c, k) \/ CreatedUnheard(c, k)
          PROVE  HistoryEnds'
      <3>1. /\ Fresh \in Link /\ row[Fresh] = Unused /\ row' = [row EXCEPT ![Fresh] = k]
            /\ Committed(Fresh, c, "create")
        BY <2>2, InsertSteps
      <3>2. row'[Fresh] = k /\ \A l \in Link \ {Fresh} : row'[l] = row[l] /\ done'[l] = done[l]
        <4>1. row'[Fresh] = k /\ \A l \in Link \ {Fresh} : row'[l] = row[l]
          BY <3>1 DEF TableTypes
        <4>2. QED
          BY <4>1, <3>1, HistoryGrows
      <3>3. done[Fresh] = <<>>
        BY <3>1 DEF HistoryEnds
      <3>4. \A i \in DOMAIN done'[Fresh] : done'[Fresh][i].op # "remove"
        <4>1. DOMAIN done'[Fresh] = DOMAIN done[Fresh] \cup {Len(done[Fresh]) + 1}
          BY <3>1, HistoryGrows
        <4>2. done'[Fresh][Len(done[Fresh]) + 1] = [call |-> c, op |-> "create"]
          BY <3>1, HistoryGrows
        <4>3. DOMAIN done[Fresh] = {}
          BY <3>3
        <4>4. QED
          BY <4>1, <4>2, <4>3
      <3>5. QED
        BY <1>0, <3>2, <3>4 DEF HistoryEnds
    <2>3. ASSUME NEW c \in Call, Commit(c) \/ CommitUnheard(c)
          PROVE  HistoryEnds'
      <3> DEFINE l == target[c]
                 n == Len(done[l]) + 1
      <3>1. Apply(c) /\ step[c] = "commit"
        BY <2>3, CommitSteps
      <3>2. l \in Rows /\ l \in Link
        BY <3>1, CommitHoldsLock
      <3>3. /\ row' = IF op[c] = "remove" THEN [row EXCEPT ![l] = Gone] ELSE row
            /\ Committed(l, c, op[c])
        BY <3>1, ApplySteps
      <3>4. \A m \in Link \ {l} : row'[m] = row[m] /\ done'[m] = done[m]
        <4>1. \A m \in Link \ {l} : row'[m] = row[m]
          BY <3>3 DEF TableTypes
        <4>2. QED
          BY <4>1, <3>2, <3>3, HistoryGrows
      <3>5. row'[l] # Unused /\ (op[c] = "remove" => row'[l] = Gone)
        BY <1>0, <3>2, <3>3 DEF TableTypes, Rows
      <3>6. /\ DOMAIN done'[l] = DOMAIN done[l] \cup {n} /\ Len(done'[l]) = n
            /\ \A i \in DOMAIN done[l] : done'[l][i] = done[l][i]
        BY <3>2, <3>3, HistoryGrows
      <3>7. done'[l][n] = [call |-> c, op |-> op[c]]
        BY <3>2, <3>3, HistoryGrows
      <3>8. \A i \in DOMAIN done[l] : done[l][i].op # "remove"
        BY <1>0, <3>2 DEF HistoryEnds, Rows
      <3> HIDE DEF n
      <3>9. \A i \in DOMAIN done'[l] : done'[l][i].op = "remove" => row'[l] = Gone /\ i = Len(done'[l])
        BY <3>5, <3>6, <3>7, <3>8
      <3>10. QED
        BY <3>4, <3>5, <3>9 DEF HistoryEnds
    <2>4. CASE RemoveWorkspace
      <3>1. done' = done /\ \A l \in Link : row'[l] = IF l \in Rows THEN Gone ELSE row[l]
        BY <2>4 DEF RemoveWorkspace
      <3>2. \A l \in Rows : row[l] # Gone /\ row[l] # Unused
        BY <1>0 DEF Rows
      <3>3. QED
        BY <1>0, <3>1, <3>2 DEF HistoryEnds
    <2>5. CASE (\E c \in Call : Relay(c)) \/ UNCHANGED changesVars
      BY <2>5 DEF Relay, changesVars, tables, HistoryEnds
    <2>6. QED
      BY <2>1, <2>2, <2>3, <2>4, <2>5, StepsInClasses
  <1>3. QED
    BY <1>1, <1>2, CallsGoInOrder, ChangesTypes, ChangesTypesInParts, LocksDoExclude, PTL
       DEF ChangesSpec

\* The log tells of each change that is recorded, and of nothing else.
AuditMatches ==
    /\ \A a, b \in audit : a.event = b.event => a = b
    /\ {a.event : a \in audit} = {c \in Call : phase[c] # "none"}
    /\ \A l \in Link : \A i \in Audited(l) : \E a \in AuditOf(l) : TellsOf(a, done[l][i])
    /\ \A a \in audit : \E i \in Audited(a.link) : TellsOf(a, done[a.link][i])

\* The audit rows of a link tell of its changes in the order of their times.
InOrder(l) ==
    \A i, j \in Audited(l) : i < j =>
        \A a, b \in AuditOf(l) : TellsOf(a, done[l][i]) /\ TellsOf(b, done[l][j]) => a.at < b.at

\* Times in the log are past, a change under way has a later one than those of its link
\* before it, and the log of a link is in their order.
TimesInOrder ==
    /\ \A a \in audit : a.at <= clock
    /\ \A c \in Call : "audit" \in pending[c] =>
          at[c] <= clock /\ \A a \in audit : a.link = target[c] => a.at < at[c]
    /\ \A l \in Link : InOrder(l)

\* An audit row tells of a call that has made its change.
LEMMA AuditedIsMade ==
    ASSUME TableTypes, ChangesOnce, AuditMatches, NEW a \in audit
    PROVE  a.event \in Call /\ step[a.event] \in {"committed", "done"}
  <1>1. a.event \in Call /\ a.link \in Link
    BY DEF TableTypes, AuditRow
  <1>2. PICK i \in Audited(a.link) : TellsOf(a, done[a.link][i])
    BY DEF AuditMatches
  <1>3. i \in DOMAIN done[a.link] /\ done[a.link][i].call = a.event
    BY <1>2 DEF Audited, TellsOf
  <1>4. Made(a.event)
    BY <1>1, <1>3 DEF Made
  <1>5. QED
    BY <1>1, <1>4 DEF ChangesOnce

\* A creation adds nothing the audit log is to tell of.
LEMMA CreationIsNotAudited ==
    ASSUME HistoryTypes, NEW l \in Link, NEW c, Committed(l, c, "create"), UNCHANGED audit
    PROVE  \A m \in Link : /\ Audited(m)' = Audited(m) /\ AuditOf(m)' = AuditOf(m)
                            /\ \A i \in Audited(m) : done'[m][i] = done[m][i]
  <1>1. /\ \A m \in Link \ {l} : done'[m] = done[m]
        /\ DOMAIN done'[l] = DOMAIN done[l] \cup {Len(done[l]) + 1}
        /\ \A i \in DOMAIN done[l] : done'[l][i] = done[l][i]
    BY HistoryGrows
  <1>2. done'[l][Len(done[l]) + 1] = [call |-> c, op |-> "create"]
    BY HistoryGrows
  <1>3. done'[l][Len(done[l]) + 1].op = "create"
    BY <1>2
  <1>4. \A m \in Link : AuditOf(m)' = AuditOf(m)
    BY DEF AuditOf
  <1>5. \A i \in Audited(l) : done'[l][i] = done[l][i]
    BY <1>1 DEF Audited
  <1>6. Audited(l)' = Audited(l)
    BY <1>1, <1>3 DEF Audited
  <1>7. QED
    BY <1>1, <1>4, <1>5, <1>6 DEF Audited

\* If nothing changes that the audit log tells of, it stays as it is.
LEMMA AuditKeeps ==
    ASSUME TableTypes, AuditMatches, TimesInOrder, UNCHANGED audit, clock \in Nat, clock' \in Nat,
           \A d \in Call : phase'[d] = "none" <=> phase[d] = "none",
           \A m \in Link : /\ Audited(m)' = Audited(m)
                           /\ \A i \in Audited(m) : done'[m][i] = done[m][i],
           clock <= clock',
           \A d \in Call : "audit" \in pending'[d] =>
              \/ "audit" \in pending[d] /\ at'[d] = at[d] /\ target'[d] = target[d] /\ at[d] \in Nat
              \/ clock' = clock + 1 /\ at'[d] = clock'
    PROVE  AuditMatches' /\ TimesInOrder'
  <1>1. \A m \in Link : AuditOf(m)' = AuditOf(m)
    BY DEF AuditOf
  <1>2. \A a \in audit : a.link \in Link /\ a.at \in Nat
    BY DEF TableTypes, AuditRow
  <1>3. (\A a, b \in audit : a.event = b.event => a = b)'
    BY DEF AuditMatches
  <1>4. ({a.event : a \in audit} = {c \in Call : phase[c] # "none"})'
    BY DEF AuditMatches
  <1>5. (\A l \in Link : \A i \in Audited(l) : \E a \in AuditOf(l) : TellsOf(a, done[l][i]))'
    BY <1>1 DEF AuditMatches, TellsOf
  <1>6. (\A a \in audit : \E i \in Audited(a.link) : TellsOf(a, done[a.link][i]))'
    BY <1>2 DEF AuditMatches, TellsOf
  <1>7. (\A l \in Link : InOrder(l))'
    BY <1>1 DEF TimesInOrder, InOrder, TellsOf
  <1>8. (\A a \in audit : a.at <= clock)'
    BY <1>2 DEF TimesInOrder
  <1>9. ASSUME NEW d \in Call, "audit" \in pending'[d]
        PROVE  at'[d] <= clock' /\ \A a \in audit : a.link = target'[d] => a.at < at'[d]
    BY <1>2, <1>9 DEF TimesInOrder
  <1>10. QED
    BY <1>3, <1>4, <1>5, <1>6, <1>7, <1>8, <1>9 DEF AuditMatches, TimesInOrder

\* A commit adds one change to the history of a link, the last and latest, and one
\* audit row that tells of it.
LEMMA CommitAudits ==
    ASSUME CallTypes, CallsInOrder, TableTypes, HistoryTypes, LocksExclude, ChangesOnce, HistoryEnds,
           AuditMatches, TimesInOrder, NEW c \in Call, Commit(c) \/ CommitUnheard(c)
    PROVE  AuditMatches' /\ TimesInOrder'
  <1>0. PICK l, n, r : /\ l = target[c] /\ n = Len(done[l]) + 1
                       /\ r = [event |-> c, link |-> l, action |-> op[c], at |-> at[c]]
    OBVIOUS
  <1>1. /\ Apply(c) /\ step[c] = "commit" /\ clock' = clock /\ pending'[c] = {}
        /\ \A d \in Call \ {c} : Rests(d)
    BY CommitSteps
  <1>2. /\ l \in Rows /\ l \in Link /\ "audit" \in pending[c]
        /\ \A d \in Call \ {c} : pending[d] # {} => target[d] # l
    BY <1>0, <1>1, CommitHoldsLock
  <1>3. /\ op[c] \in {"update", "remove"} /\ audit' = audit \cup {r}
        /\ phase' = [phase EXCEPT ![c] = "waiting"] /\ Committed(l, c, op[c])
    BY <1>0, <1>1, ApplySteps
  <1>4. /\ \A m \in Link \ {l} : done'[m] = done[m]
        /\ DOMAIN done'[l] = DOMAIN done[l] \cup {n}
        /\ \A i \in DOMAIN done[l] : done'[l][i] = done[l][i]
    BY <1>0, <1>2, <1>3, HistoryGrows
  <1>5. done'[l][n].call = c /\ done'[l][n].op = op[c]
    <2>1. done'[l][n] = [call |-> c, op |-> op[c]]
      BY <1>0, <1>2, <1>3, HistoryGrows
    <2>2. QED
      BY <2>1
  <1>6. n \in Nat /\ \A i \in DOMAIN done[l] : i \in Nat /\ i < n
    <2>1. Len(done[l]) \in Nat /\ DOMAIN done[l] = 1..Len(done[l])
      BY <1>2, <1>3, HistoryGrows
    <2>2. QED
      BY <1>0, <2>1
  <1>7. r.event = c /\ r.link = l /\ r.action = op[c] /\ r.at = at[c]
    BY <1>0
  <1>8. at[c] \in Nat /\ clock \in Nat
    BY DEF CallTypes
  <1>9. \A a \in audit : a.event \in Call /\ a.event # c
    BY <1>1, AuditedIsMade
  <1>10. \A i \in DOMAIN done[l] : done[l][i].call # c /\ done[l][i].op # "remove"
    <2>1. ~Made(c)
      BY <1>1 DEF ChangesOnce
    <2>2. row[l] # Gone
      BY <1>2, LinkChangesAssumption DEF Rows
    <2>3. QED
      BY <2>1, <2>2, <1>2 DEF Made, HistoryEnds
  <1>11. /\ Audited(l)' = Audited(l) \cup {n}
         /\ \A i \in Audited(l) : i \in DOMAIN done[l] /\ done'[l][i] = done[l][i]
         /\ \A m \in Link \ {l} : Audited(m)' = Audited(m)
    BY <1>3, <1>4, <1>5 DEF Audited
  <1>12. /\ AuditOf(l)' = AuditOf(l) \cup {r}
         /\ \A m \in Link \ {l} : AuditOf(m)' = AuditOf(m)
    BY <1>3, <1>7 DEF AuditOf
  <1>13. TellsOf(r, done'[l][n])
    BY <1>5, <1>7 DEF TellsOf
  <1>14. AuditMatches'
    <2>1. (\A a, b \in audit : a.event = b.event => a = b)'
      BY <1>3, <1>7, <1>9 DEF AuditMatches
    <2>2. ({a.event : a \in audit} = {d \in Call : phase[d] # "none"})'
      <3>1. {a.event : a \in audit'} = {a.event : a \in audit} \cup {c}
        BY <1>3, <1>7
      <3>2. {d \in Call : phase'[d] # "none"} = {d \in Call : phase[d] # "none"} \cup {c}
        BY <1>3 DEF TableTypes
      <3>3. QED
        BY <3>1, <3>2 DEF AuditMatches
    <2>3. (\A m \in Link : \A i \in Audited(m) : \E a \in AuditOf(m) : TellsOf(a, done[m][i]))'
      <3>1. ASSUME NEW m \in Link \ {l}, NEW i \in Audited(m)'
            PROVE  \E a \in AuditOf(m)' : TellsOf(a, done'[m][i])
        BY <3>1, <1>4, <1>11, <1>12 DEF AuditMatches
      <3>2. ASSUME NEW i \in Audited(l)'
            PROVE  \E a \in AuditOf(l)' : TellsOf(a, done'[l][i])
        BY <3>2, <1>2, <1>11, <1>12, <1>13 DEF AuditMatches
      <3>3. QED
        BY <3>1, <3>2 DEF TellsOf
    <2>4. (\A a \in audit : \E i \in Audited(a.link) : TellsOf(a, done[a.link][i]))'
      <3>1. ASSUME NEW a \in audit
            PROVE  \E i \in Audited(a.link)' : TellsOf(a, done'[a.link][i])
        <4>1. a.link \in Link
          BY DEF TableTypes, AuditRow
        <4>2. PICK i \in Audited(a.link) : TellsOf(a, done[a.link][i])
          BY DEF AuditMatches
        <4>3. CASE a.link = l
          BY <4>2, <4>3, <1>11
        <4>4. CASE a.link # l
          BY <4>1, <4>2, <4>4, <1>4, <1>11
        <4>5. QED
          BY <4>3, <4>4
      <3>2. \E i \in Audited(r.link)' : TellsOf(r, done'[r.link][i])
        BY <1>7, <1>11, <1>13
      <3>3. QED
        BY <1>3, <3>1, <3>2 DEF TellsOf, Audited
    <2>5. QED
      BY <2>1, <2>2, <2>3, <2>4 DEF AuditMatches
  <1>15. TimesInOrder'
    <2>1. "audit" \in pending[c] => at[c] <= clock /\ \A a \in audit : a.link = l => a.at < at[c]
      BY <1>0 DEF TimesInOrder
    <2>2. (\A a \in audit : a.at <= clock)'
      BY <1>1, <1>2, <1>3, <1>7, <2>1 DEF TimesInOrder
    <2>3. ASSUME NEW d \in Call, "audit" \in pending'[d]
          PROVE  at'[d] <= clock' /\ \A a \in audit' : a.link = target'[d] => a.at < at'[d]
      <3>1. d # c /\ Rests(d)
        BY <1>1, <2>3
      <3>2. "audit" \in pending[d] /\ target'[d] = target[d] /\ at'[d] = at[d]
        BY <2>3, <3>1 DEF Rests
      <3>3. target[d] # l
        BY <1>2, <3>1, <3>2
      <3>4. QED
        BY <1>1, <1>3, <1>7, <3>2, <3>3 DEF TimesInOrder
    <2>4. InOrder(l)'
      <3> SUFFICES ASSUME NEW i \in Audited(l)', NEW j \in Audited(l)', i < j,
                          NEW a \in AuditOf(l)', NEW b \in AuditOf(l)',
                          TellsOf(a, done'[l][i]), TellsOf(b, done'[l][j])
                   PROVE  a.at < b.at
        BY DEF InOrder, TellsOf
      <3>1. i \in Audited(l) /\ done'[l][i] = done[l][i]
        BY <1>6, <1>11
      <3>2. a \in AuditOf(l)
        BY <1>7, <1>10, <1>11, <1>12, <3>1 DEF TellsOf
      <3>3. CASE j = n
        <4>1. b.event = c
          BY <1>5, <3>3 DEF TellsOf
        <4>2. b = r
          BY <1>9, <1>12, <4>1 DEF AuditOf
        <4>3. QED
          BY <1>2, <1>7, <2>1, <3>2, <4>2 DEF AuditOf
      <3>4. CASE j # n
        <4>1. j \in Audited(l) /\ done'[l][j] = done[l][j]
          BY <1>11, <3>4
        <4>2. b \in AuditOf(l)
          BY <1>7, <1>10, <1>11, <1>12, <4>1 DEF TellsOf
        <4>3. QED
          BY <1>2, <3>1, <3>2, <4>1, <4>2 DEF TimesInOrder, InOrder
      <3>5. QED
        BY <3>3, <3>4
    <2>5. ASSUME NEW m \in Link \ {l}
          PROVE  InOrder(m)'
      <3>1. done'[m] = done[m] /\ Audited(m)' = Audited(m) /\ AuditOf(m)' = AuditOf(m)
        BY <1>4, <1>11, <1>12
      <3>2. InOrder(m)
        BY DEF TimesInOrder
      <3>3. QED
        BY <3>1, <3>2 DEF InOrder, TellsOf
    <2>6. (\A m \in Link : InOrder(m))'
      BY <2>4, <2>5
    <2>7. QED
      BY <2>2, <2>3, <2>6 DEF TimesInOrder
  <1>16. QED
    BY <1>14, <1>15

\* Audit log, outbox and histories go together, and times go with them.
LEMMA AuditGoesWithHistory == ChangesSpec => [](AuditMatches /\ TimesInOrder)
  <1>1. ChangesInit => AuditMatches /\ TimesInOrder
    BY DEF ChangesInit, Outbox!Init, AuditMatches, TimesInOrder, InOrder, Audited, AuditOf
  <1>2. CallTypes /\ CallTypes' /\ CallsInOrder /\ TableTypes /\ HistoryTypes /\ LocksExclude
        /\ ChangesOnce /\ HistoryEnds /\ AuditMatches /\ TimesInOrder /\ [ChangesNext]_changesVars
        => (AuditMatches /\ TimesInOrder)'
    <2> SUFFICES ASSUME CallTypes, CallTypes', CallsInOrder, TableTypes, HistoryTypes, LocksExclude,
                        ChangesOnce, HistoryEnds, AuditMatches, TimesInOrder,
                        [ChangesNext]_changesVars
                 PROVE  AuditMatches' /\ TimesInOrder'
      OBVIOUS
    <2>0. clock \in Nat /\ clock' \in Nat /\ \A d \in Call : at[d] \in Nat
      BY DEF CallTypes
    <2>1. ASSUME done' = done
          PROVE  \A m \in Link : /\ Audited(m)' = Audited(m)
                                 /\ \A i \in Audited(m) : done'[m][i] = done[m][i]
      BY <2>1 DEF Audited
    <2>2. ASSUME NEW c \in Call, LocalStep(c)
          PROVE  AuditMatches' /\ TimesInOrder'
      <3>1. /\ UNCHANGED audit /\ UNCHANGED phase /\ UNCHANGED done /\ clock <= clock'
            /\ LocalMove(c) /\ CallInOrder(c) /\ \A d \in Call \ {c} : Rests(d)
        BY <2>2, LocalSteps DEF tables, CallsInOrder
      <3>2. ASSUME NEW d \in Call, "audit" \in pending'[d]
            PROVE  \/ "audit" \in pending[d] /\ at'[d] = at[d] /\ target'[d] = target[d]
                   \/ clock' = clock + 1 /\ at'[d] = clock'
        <4>1. CASE d # c \/ Rests(c)
          BY <3>1, <3>2, <4>1 DEF Rests
        <4>2. CASE d = c /\ ~Rests(c)
          BY <3>1, <3>2, <4>2 DEF LocalMove, CallInOrder, Written, Advances, EndsWith
        <4>3. QED
          BY <4>1, <4>2
      <3>3. QED
        BY <2>0, <2>1, <3>1, <3>2, AuditKeeps
    <2>3. ASSUME NEW c \in Call, NEW k \in Code, Created(c, k) \/ CreatedUnheard(c, k)
          PROVE  AuditMatches' /\ TimesInOrder'
      <3>1. /\ UNCHANGED audit /\ UNCHANGED phase /\ clock' = clock
            /\ Fresh \in Link /\ Committed(Fresh, c, "create")
            /\ \A d \in Call \ {c} : Rests(d)
            /\ \/ Advances(c, "allocate", "committed") /\ pending'[c] = pending[c]
               \/ EndsWith(c, "error")
        BY <2>3, InsertSteps
      <3>2. \A m \in Link : /\ Audited(m)' = Audited(m)
                            /\ \A i \in Audited(m) : done'[m][i] = done[m][i]
        BY <3>1, CreationIsNotAudited
      <3>3. "audit" \notin pending'[c]
        BY <3>1 DEF EndsWith, Advances, CallsInOrder, CallInOrder, Written
      <3>4. ASSUME NEW d \in Call, "audit" \in pending'[d]
            PROVE  "audit" \in pending[d] /\ at'[d] = at[d] /\ target'[d] = target[d]
        BY <3>1, <3>3, <3>4 DEF Rests
      <3>5. QED
        BY <2>0, <3>1, <3>2, <3>4, AuditKeeps
    <2>4. ASSUME NEW c \in Call, Commit(c) \/ CommitUnheard(c)
          PROVE  AuditMatches' /\ TimesInOrder'
      BY <2>4, CommitAudits
    <2>5. CASE RemoveWorkspace \/ (\E c \in Call : Relay(c)) \/ UNCHANGED changesVars
      <3>1. /\ UNCHANGED audit /\ clock' = clock /\ UNCHANGED done /\ \A d \in Call : Rests(d)
        BY <2>5, OtherSteps
      <3>2. \A d \in Call : phase'[d] = "none" <=> phase[d] = "none"
        BY <2>5, RelaySteps DEF RemoveWorkspace, changesVars, tables
      <3>3. \A d \in Call : "audit" \in pending'[d] =>
               "audit" \in pending[d] /\ at'[d] = at[d] /\ target'[d] = target[d]
        BY <3>1 DEF Rests
      <3>4. QED
        BY <2>0, <2>1, <3>1, <3>2, <3>3, AuditKeeps
    <2>6. QED
      BY <2>2, <2>3, <2>4, <2>5, StepsInClasses
  <1>3. QED
    BY <1>1, <1>2, CallsGoInOrder, ChangesTypes, ChangesTypesInParts, LocksDoExclude,
       ChangesAreMadeOnce, HistoriesEnd, PTL DEF ChangesSpec

\* The audit log tells the history of every link, in order and completely.
THEOREM AuditLogIsTrue == ChangesSpec => []AuditTellsTheHistory
  <1>1. ChangesTypeOK /\ ChangesOnce /\ HistoryEnds /\ AuditMatches /\ TimesInOrder
        => AuditTellsTheHistory
    <2> SUFFICES ASSUME HistoryTypes, ChangesOnce, HistoryEnds, AuditMatches, TimesInOrder, NEW l \in Link
                 PROVE  /\ \A i \in Audited(l) : \E a \in AuditOf(l) :
                              TellsOf(a, done[l][i]) /\ \A b \in AuditOf(l) : TellsOf(b, done[l][i]) => b = a
                        /\ \A a \in AuditOf(l) : \E i \in Audited(l) :
                              TellsOf(a, done[l][i]) /\ \A j \in Audited(l) : TellsOf(a, done[l][j]) => j = i
                        /\ \A i, j \in Audited(l) : i < j =>
                              /\ done[l][i].op # "remove"
                              /\ \A a, b \in AuditOf(l) :
                                    TellsOf(a, done[l][i]) /\ TellsOf(b, done[l][j]) => a.at < b.at
      BY ChangesTypesInParts DEF AuditTellsTheHistory, AuditMatches
    <2>1. ASSUME NEW i \in Audited(l)
          PROVE  \E a \in AuditOf(l) :
                    TellsOf(a, done[l][i]) /\ \A b \in AuditOf(l) : TellsOf(b, done[l][i]) => b = a
      BY DEF AuditMatches, TellsOf, AuditOf
    <2>2. ASSUME NEW a \in AuditOf(l)
          PROVE  \E i \in Audited(l) :
                    TellsOf(a, done[l][i]) /\ \A j \in Audited(l) : TellsOf(a, done[l][j]) => j = i
      <3>1. a \in audit /\ a.link = l
        BY DEF AuditOf
      <3>2. PICK i \in Audited(l) : TellsOf(a, done[l][i])
        BY <3>1 DEF AuditMatches
      <3>3. \A h, j \in DOMAIN done[l] : done[l][h].call = done[l][j].call => h = j
        BY DEF ChangesOnce
      <3>4. \A j \in Audited(l) : TellsOf(a, done[l][j]) => j = i
        BY <3>2, <3>3 DEF TellsOf, Audited
      <3>5. QED
        BY <3>2, <3>4
    <2>3. ASSUME NEW i \in Audited(l), NEW j \in Audited(l), i < j
          PROVE  done[l][i].op # "remove"
      <3>1. done[l] \in Seq([call : Call, op : Op])
        BY DEF HistoryTypes
      <3>2. i \in DOMAIN done[l] /\ j \in 1..Len(done[l]) /\ Len(done[l]) \in Nat /\ i \in Nat
        BY <3>1 DEF Audited
      <3>3. i # Len(done[l])
        BY <2>3, <3>2
      <3>4. QED
        BY <3>2, <3>3 DEF HistoryEnds
    <2>4. QED
      BY <2>1, <2>2, <2>3 DEF TimesInOrder, InOrder
  <1>2. QED
    BY <1>1, ChangesTypes, ChangesAreMadeOnce, HistoriesEnd, AuditGoesWithHistory, PTL

(***************************************************************************)
(* LinkChanges: the outbox                                                 *)
(***************************************************************************)
\* No event is recorded before the commit of its call.
RecordedByCommit == \A c \in Call : phase[c] # "none" => step[c] \in {"committed", "done"}

\* From a commit a call only goes on to its answer.
LEMMA RecordedStep ==
    ASSUME CallTypes, TableTypes, RecordedByCommit, [ChangesNext]_changesVars
    PROVE  RecordedByCommit'
  <1>1. ASSUME NEW c \in Call, LocalStep(c)
        PROVE  RecordedByCommit'
    <2>1. phase' = phase /\ LocalMove(c) /\ \A d \in Call \ {c} : Rests(d)
      BY <1>1, LocalSteps DEF tables
    <2>2. phase[c] # "none" => step'[c] \in {"committed", "done"}
      BY <2>1 DEF RecordedByCommit, LocalMove, Rests, Advances, EndsWith
    <2>3. QED
      BY <2>1, <2>2 DEF RecordedByCommit, Rests
  <1>2. ASSUME NEW c \in Call, NEW k \in Code, Created(c, k) \/ CreatedUnheard(c, k)
        PROVE  RecordedByCommit'
    <2>1. /\ phase' = phase /\ \A d \in Call \ {c} : Rests(d)
          /\ step'[c] \in {"committed", "done"}
      BY <1>2, InsertSteps DEF Advances, EndsWith
    <2>2. QED
      BY <2>1 DEF RecordedByCommit, Rests
  <1>3. ASSUME NEW c \in Call, Commit(c) \/ CommitUnheard(c)
        PROVE  RecordedByCommit'
    <2>1. /\ Apply(c) /\ \A d \in Call \ {c} : Rests(d)
          /\ step'[c] \in {"committed", "done"}
      BY <1>3, CommitSteps DEF Advances, EndsWith
    <2>2. \A d \in Call \ {c} : phase'[d] = phase[d]
      BY <2>1 DEF Apply, Recorded, TableTypes
    <2>3. QED
      BY <2>1, <2>2 DEF RecordedByCommit, Rests
  <1>4. CASE RemoveWorkspace \/ (\E c \in Call : Relay(c)) \/ UNCHANGED changesVars
    <2>1. \A d \in Call : Rests(d)
      BY <1>4, OtherSteps
    <2>2. \A d \in Call : phase'[d] # "none" => phase[d] # "none"
      BY <1>4 DEF RemoveWorkspace, Relay, Settle, Outbox!Deliver, Outbox!Publish,
                  Outbox!GiveUp, changesVars, tables, TableTypes
    <2>3. QED
      BY <2>1, <2>2 DEF RecordedByCommit, Rests
  <1>5. QED
    BY <1>1, <1>2, <1>3, <1>4, StepsInClasses

\* In every reachable state.
LEMMA RecordedHolds == ChangesSpec => []RecordedByCommit
  <1>1. ChangesInit => RecordedByCommit
    BY DEF ChangesInit, Outbox!Init, RecordedByCommit
  <1>2. ChangesTypeOK => CallTypes /\ TableTypes
    BY ChangesTypesInParts
  <1>3. QED
    BY <1>1, <1>2, RecordedStep, ChangesTypes, PTL DEF ChangesSpec

\* Changes and relay together implement OutboxDelivery.  A commit writes its event whatever
\* is there; that it meets no event of its call, which the relay may have settled, is
\* because a call commits once (RecordedByCommit), and that no other step touches a phase
\* but the relay's (AuditOutboxService.record).
THEOREM OutboxIsKept == ChangesSpec => RecordsOnce
  <1>1. ChangesInit => Outbox!Init
    BY DEF ChangesInit, Outbox!Init
  <1>2. CallTypes /\ CallsInOrder /\ RecordedByCommit /\ [ChangesNext]_changesVars
        => [Outbox!Next]_(Outbox!vars)
    <2> SUFFICES ASSUME CallTypes, CallsInOrder, RecordedByCommit, [ChangesNext]_changesVars
                 PROVE  [Outbox!Next]_(Outbox!vars)
      OBVIOUS
    <2>1. ASSUME NEW c \in Call, LocalStep(c)
          PROVE  UNCHANGED Outbox!vars
      BY <2>1, LocalSteps DEF tables, Outbox!vars
    <2>2. ASSUME NEW c \in Call, NEW k \in Code, Created(c, k) \/ CreatedUnheard(c, k)
          PROVE  UNCHANGED Outbox!vars
      BY <2>2, InsertSteps DEF Outbox!vars
    <2>3. ASSUME NEW c \in Call, Commit(c) \/ CommitUnheard(c)
          PROVE  Outbox!Record(c)
      <3>1. Apply(c) /\ step[c] = "commit"
        BY <2>3, CommitSteps
      <3>2. phase' = [phase EXCEPT ![c] = "waiting"] /\ delivered' = delivered
        BY <3>1, ApplySteps
      <3>3. phase[c] = "none"
        BY <3>1 DEF RecordedByCommit
      <3>4. QED
        BY <3>2, <3>3 DEF Outbox!Record
    <2>4. CASE RemoveWorkspace \/ UNCHANGED changesVars
      BY <2>4 DEF RemoveWorkspace, changesVars, tables, Outbox!vars
    <2>5. ASSUME NEW c \in Call, Relay(c)
          PROVE  Outbox!Deliver(c) \/ Outbox!Publish(c) \/ Outbox!GiveUp(c)
      BY <2>5 DEF Relay, Settle
    <2>6. QED
      BY <2>1, <2>2, <2>3, <2>4, <2>5, StepsInClasses DEF Outbox!Next
  <1>3. QED
    BY <1>1, <1>2, CallsGoInOrder, RecordedHolds, PTL DEF ChangesSpec, RecordsOnce, Outbox!Safety

\* Whoever hears of a change hears of one that was committed: no event of a transaction
\* that was rolled back, or of a call that was refused, ever reaches the broker.
AnnouncedWasCommitted ==
    \A c \in delivered : \E l \in Link : \E i \in Audited(l) : done[l][i].call = c

\* What the broker has was recorded.
LEMMA AnnouncedWasRecorded == Outbox!Safety => [](\A c \in delivered : c \in Call /\ phase[c] # "none")
  <1> DEFINE Inv == /\ phase \in [Call -> {"none", "waiting", "published", "dead"}]
                    /\ \A c \in delivered : c \in Call /\ phase[c] # "none"
  <1>1. Outbox!Init => Inv
    BY DEF Outbox!Init
  <1>2. Inv /\ [Outbox!Next]_(Outbox!vars) => Inv'
    BY DEF Outbox!Next, Outbox!vars, Outbox!Record, Outbox!Deliver, Outbox!Publish, Outbox!GiveUp
  <1>3. Inv => \A c \in delivered : c \in Call /\ phase[c] # "none"
    OBVIOUS
  <1>4. QED
    BY <1>1, <1>2, <1>3, PTL DEF Outbox!Safety

\* In every reachable state, what is announced was committed and has its row in the log.
THEOREM AnnouncementsAreTrue == ChangesSpec => []AnnouncedWasCommitted
  <1>1. ChangesTypeOK /\ AuditMatches /\ (\A c \in delivered : c \in Call /\ phase[c] # "none")
        => AnnouncedWasCommitted
    <2> SUFFICES ASSUME TableTypes, AuditMatches, NEW c \in delivered, c \in Call, phase[c] # "none"
                 PROVE  \E l \in Link : \E i \in Audited(l) : done[l][i].call = c
      BY ChangesTypesInParts DEF AnnouncedWasCommitted
    <2>1. PICK a \in audit : a.event = c
      BY DEF AuditMatches
    <2>2. a.link \in Link
      BY DEF TableTypes, AuditRow
    <2>3. QED
      BY <2>1, <2>2 DEF AuditMatches, TellsOf
  <1>2. QED
    BY <1>1, ChangesTypes, AuditGoesWithHistory, OutboxIsKept, AnnouncedWasRecorded, PTL DEF RecordsOnce

(***************************************************************************)
(* LinkChanges: progress                                                   *)
(***************************************************************************)
\* Whoever is waited for waits for nobody: a transaction that has locked a row is
\* past its only statement that waits, and its commit finds its eventId unused.
\* (MayLock, CodeBusy and RemoveWorkspace are the waits.)
LockHoldersGoOn ==
    \A c \in Call, l \in Link :
        Locks(c, l) => step[c] \in {"uncache", "audit", "outbox", "commit"} /\ phase[c] = "none"

\* So there is no deadlock, in every reachable state.
THEOREM NobodyWaitsForAWaiter == ChangesSpec => []LockHoldersGoOn
  <1>1. CallTypes /\ CallsInOrder /\ RecordedByCommit => LockHoldersGoOn
    <2> SUFFICES ASSUME CallTypes, CallsInOrder, RecordedByCommit,
                        NEW c \in Call, NEW l \in Link, Locks(c, l)
                 PROVE  step[c] \in {"uncache", "audit", "outbox", "commit"} /\ phase[c] = "none"
      BY DEF LockHoldersGoOn
    <2>1. step[c] \in {"uncache", "audit", "outbox", "commit"}
      BY DEF Locks, CallsInOrder, CallInOrder, Written
    <2>2. QED
      BY <2>1 DEF RecordedByCommit
  <1>2. QED
    BY <1>1, CallsGoInOrder, RecordedHolds, PTL

\* How far a call is from its end.
Distance == [allocate |-> 7, find |-> 7, found |-> 6, uncache |-> 5, audit |-> 4, outbox |-> 3,
             commit |-> 2, committed |-> 1, done |-> 0]

\* What a call that has begun does in a step: it comes nearer to its end, or it stays
\* where it is and has not tried fewer codes, of which MaxAttempts is the limit.
Approaches(c) ==
    \/ Distance[step'[c]] < Distance[step[c]]
    \/ step'[c] = step[c] /\ attempt[c] <= attempt'[c]

\* A code is only ever added to those that were tried, until the call ends.
LEMMA TriesAreCounted ==
    ASSUME CallTypes, [ChangesNext]_changesVars, NEW c \in Call, step'[c] = step[c]
    PROVE  attempt[c] <= attempt'[c]
  <1>1. attempt \in [Call -> 0..MaxAttempts] /\ MaxAttempts \in Nat
    BY LinkChangesAssumption DEF CallTypes
  <1>2. ASSUME NEW d \in Call, NEW a, Answer(d, a), step[d] # "done"
        PROVE  attempt'[c] = attempt[c]
    <2>1. step'[d] = "done"
      BY <1>2 DEF Answer, GoTo, CallTypes
    <2>2. QED
      BY <1>1, <1>2, <2>1 DEF Answer
  <1>3. ASSUME NEW d \in Call, CodeTaken(d)
        PROVE  attempt[c] <= attempt'[c]
    BY <1>1, <1>3 DEF CodeTaken
  <1>4. ASSUME NEW d \in Call,
               \/ NoCodeLeft(d) \/ NoWorkspace(d) \/ Refuse(d) \/ RowGone(d)
               \/ AnswerOk(d) \/ Fail(d) \/ CommitUnheard(d)
               \/ \E k \in Code : CreatedUnheard(d, k)
        PROVE  attempt'[c] = attempt[c]
    <2>1. /\ step[d] # "done"
          /\ Answer(d, "ok") \/ Answer(d, "refused") \/ Answer(d, "error")
      BY <1>4 DEF NoCodeLeft, NoWorkspace, Refuse, RowGone, AnswerOk, Fail, CommitUnheard,
                  CreatedUnheard, Insert, Apply
    <2>2. QED
      BY <1>2, <2>1
  <1>5. ASSUME NEW d \in Call,
               \/ Find(d) \/ ChangeRow(d) \/ Uncache(d) \/ InsertAudit(d) \/ InsertEvent(d)
               \/ Commit(d) \/ Relay(d)
               \/ \E k \in Code : Created(d, k)
               \/ \E o \in Op, l \in Link \cup {None} : Start(d, o, l)
        PROVE  attempt' = attempt
    BY <1>5 DEF Find, ChangeRow, Uncache, InsertAudit, InsertEvent, Commit, Relay, Created,
                Start, callVars
  <1>6. CASE RemoveWorkspace \/ UNCHANGED changesVars
    BY <1>1, <1>6 DEF RemoveWorkspace, changesVars, callVars
  <1>7. QED
    BY <1>1, <1>3, <1>4, <1>5, <1>6 DEF ChangesNext, CallStep, CreateStep, ChangeStep

\* Every call comes nearer to its end by each of its steps, and no step of another
\* puts it back, whatever fails and however often its codes are taken: it loops
\* over codes only.  (The variant EverythingSettles rests on.)
THEOREM CallsDrawNearTheirEnd ==
    ChangesSpec => [][\A c \in Call : step[c] # "idle" => Approaches(c)]_changesVars
  <1>1. ASSUME CallTypes, [ChangesNext]_changesVars, NEW c \in Call, step[c] # "idle"
        PROVE  Approaches(c)
    <2>1. CASE step'[c] = step[c]
      BY <1>1, <2>1, TriesAreCounted DEF Approaches
    <2>2. CASE step'[c] # step[c]
      <3>1. ~Rests(c)
        BY <2>2 DEF Rests
      <3>2. ASSUME NEW d \in Call, LocalStep(d)
            PROVE  LocalMove(c)
        BY <1>1, <3>1, <3>2, LocalSteps
      <3>3. ASSUME NEW d \in Call, NEW k \in Code, Created(d, k) \/ CreatedUnheard(d, k)
            PROVE  step[c] = "allocate" /\ step'[c] \in {"committed", "done"}
        BY <1>1, <3>1, <3>3, InsertSteps DEF Advances, EndsWith
      <3>4. ASSUME NEW d \in Call, Commit(d) \/ CommitUnheard(d)
            PROVE  step[c] = "commit" /\ step'[c] \in {"committed", "done"}
        BY <1>1, <3>1, <3>4, CommitSteps DEF Advances, EndsWith
      <3>5. ~ (RemoveWorkspace \/ (\E d \in Call : Relay(d)) \/ UNCHANGED changesVars)
        BY <1>1, <3>1, OtherSteps
      <3>6. CASE LocalMove(c)
        BY <1>1, <2>2, <3>1, <3>6 DEF LocalMove, Advances, EndsWith, Distance, Approaches, CallTypes
      <3>7. CASE step[c] \in {"allocate", "commit"} /\ step'[c] \in {"committed", "done"}
        BY <3>7 DEF Distance, Approaches
      <3>8. QED
        BY <1>1, <3>2, <3>3, <3>4, <3>5, <3>6, <3>7, StepsInClasses
    <2>3. QED
      BY <2>1, <2>2
  <1>2. CallTypes /\ [ChangesNext]_changesVars
        => [\A c \in Call : step[c] # "idle" => Approaches(c)]_changesVars
    BY <1>1
  <1>3. QED
    BY <1>2, CallsGoInOrder, PTL DEF ChangesSpec
=============================================================================
