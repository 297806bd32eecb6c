------------------------------ MODULE AuthSession ------------------------------
(***************************************************************************)
(* The login sessions of one user: login, rotation of the refresh token,   *)
(* the guard of authenticated requests, logout of one session or of all,   *)
(* and removal of the user (src/auth, src/users).                          *)
(*                                                                         *)
(* A refresh token is its session, its version and the tick in which it    *)
(* was signed; its hash stands for it.  The access token that is signed    *)
(* and handed out with it has the same session and tick, and is            *)
(* represented by it.  Requests race with each other in any number of API  *)
(* processes; the statements they send to the database are atomic.         *)
(***************************************************************************)
EXTENDS Naturals

CONSTANTS Session,     \* the random ids logins may draw
          Request,     \* concurrent requests
          NoToken,
          AccessTTL, RefreshTTL,  \* lifetimes of the tokens, in ticks
          MaxTime,     \* bound on the clock
          MaxVersion   \* bound on the rotations of one session

ASSUME AuthAssumption ==
    /\ AccessTTL \in Nat \ {0} /\ RefreshTTL \in Nat \ {0}
    /\ AccessTTL <= RefreshTTL
    /\ MaxTime \in Nat /\ MaxVersion \in Nat

Token == [sid : Session, ver : 0..MaxVersion, iat : 0..MaxTime]
ASSUME NoTokenAssumption == NoToken \notin Token

VARIABLES now,
          hasUser,    \* the user's row exists
          rows,       \* sessions whose row exists
          hash,       \* session -> the token whose hash and version its row holds
          expiresAt,
          revoked,    \* sessions whose row has a revokedAt
          step,       \* request -> how far it is
          old, new,   \* request -> the token it presented, and the one it signed
          sentAt,     \* request -> when it built its statement
          issued,     \* tokens some row was given
          known,      \* tokens the client was given
          lost        \* sessions a reply of which never arrived

rowVars == <<rows, hash, expiresAt, revoked>>
requestVars == <<step, old, new, sentAt>>
clientVars == <<issued, known, lost>>
vars == <<now, hasUser, rowVars, requestVars, clientVars>>

Init ==
    /\ now = 0
    /\ hasUser = TRUE
    /\ rows = {} /\ revoked = {}
    /\ hash = [s \in Session |-> NoToken]
    /\ expiresAt = [s \in Session |-> 0]
    /\ step = [r \in Request |-> "idle"]
    /\ old = [r \in Request |-> NoToken]
    /\ new = [r \in Request |-> NoToken]
    /\ sentAt = [r \in Request |-> 0]
    /\ issued = {} /\ known = {} /\ lost = {}

GoTo(r, label) == step' = [step EXCEPT ![r] = label]

Ends(r) ==
    /\ GoTo(r, "idle")
    /\ old' = [old EXCEPT ![r] = NoToken]
    /\ new' = [new EXCEPT ![r] = NoToken]
    /\ sentAt' = [sentAt EXCEPT ![r] = 0]

Drawn(s) == \E r \in Request : new[r] # NoToken /\ new[r].sid = s

(***************************************************************************)
(* login and refresh                                                       *)
(***************************************************************************)
\* The password matches; the tokens of a new session are signed.
Login(r, s) ==
    /\ step[r] = "idle"
    /\ hasUser
    /\ s \notin rows /\ ~Drawn(s) /\ \A t \in issued : t.sid # s
    /\ GoTo(r, "loggingIn")
    /\ new' = [new EXCEPT ![r] = [sid |-> s, ver |-> 0, iat |-> now]]
    /\ UNCHANGED <<now, hasUser, rowVars, old, sentAt, clientVars>>

Alive(t) == now < t.iat + RefreshTTL

\* The refresh token is verified and the next pair is signed.
Refresh(r, t) ==
    /\ step[r] = "idle"
    /\ t \in known
    /\ Alive(t)
    /\ t.ver < MaxVersion
    /\ GoTo(r, "refreshing")
    /\ old' = [old EXCEPT ![r] = t]
    /\ new' = [new EXCEPT ![r] = [sid |-> t.sid, ver |-> t.ver + 1, iat |-> now]]
    /\ UNCHANGED <<now, hasUser, rowVars, sentAt, clientVars>>

\* The statement is built, and sent: it compares and sets times of this tick.
Send(r) ==
    /\ \/ step[r] = "loggingIn" /\ GoTo(r, "creating")
       \/ step[r] = "refreshing" /\ GoTo(r, "rotating")
    /\ sentAt' = [sentAt EXCEPT ![r] = now]
    /\ UNCHANGED <<now, hasUser, rowVars, old, new, clientVars>>

NewExpiry(r) == sentAt[r] + RefreshTTL

Stores(r) ==
    LET s == new[r].sid IN
    /\ rows' = rows \cup {s}
    /\ hash' = [hash EXCEPT ![s] = new[r]]
    /\ expiresAt' = [expiresAt EXCEPT ![s] = NewExpiry(r)]
    /\ issued' = issued \cup {new[r]}
    /\ GoTo(r, "answering")

\* Mutant: the row of a user who is gone is created all the same.
NobodyNeeded == TRUE

\* The foreign key of the row.
OwnerExists == hasUser

\* The new session's row.
Create(r) ==
    /\ step[r] = "creating"
    /\ OwnerExists
    /\ Stores(r)
    /\ UNCHANGED <<now, hasUser, revoked, old, new, sentAt, known, lost>>

\* Mutant: version and hash are not compared.
MatchesAnyVersion(r) ==
    /\ old[r].sid \in rows \ revoked
    /\ sentAt[r] < expiresAt[old[r].sid]

\* Mutant: a revoked session is refreshed.
MatchesRevoked(r) ==
    /\ old[r].sid \in rows
    /\ hash[old[r].sid] = old[r]
    /\ sentAt[r] < expiresAt[old[r].sid]

\* The row's condition in the update of refresh.
Matches(r) ==
    /\ old[r].sid \in rows \ revoked
    /\ hash[old[r].sid] = old[r]
    /\ sentAt[r] < expiresAt[old[r].sid]

\* The update hits the row: whoever comes later with the same token misses it.
Rotate(r) ==
    /\ step[r] = "rotating"
    /\ Matches(r)
    /\ Stores(r)
    /\ UNCHANGED <<now, hasUser, revoked, old, new, sentAt, known, lost>>

\* Mutant: the client is answered with the token it came with.
SameToken(r) == IF old[r] = NoToken THEN new[r] ELSE old[r]

Answered(r) == new[r]

Answer(r) ==
    /\ step[r] = "answering"
    /\ known' = known \cup {Answered(r)}
    /\ Ends(r)
    /\ UNCHANGED <<now, hasUser, rowVars, issued, lost>>

\* The request fails: its update misses the row, the owner is gone, Redis,
\* the database or the process fails, or the answer is lost.
Fail(r) ==
    /\ step[r] # "idle"
    /\ Ends(r)
    /\ lost' = IF step[r] = "answering" THEN lost \cup {new[r].sid} ELSE lost
    /\ UNCHANGED <<now, hasUser, rowVars, issued, known>>

(***************************************************************************)
(* The guard, and what is done behind it                                   *)
(***************************************************************************)
\* The access token is valid and its session is neither revoked nor expired.
Enter(r, t) ==
    /\ step[r] = "idle"
    /\ t \in known
    /\ now < t.iat + AccessTTL
    /\ t.sid \in rows \ revoked
    /\ now < expiresAt[t.sid]
    /\ GoTo(r, "inside")
    /\ old' = [old EXCEPT ![r] = t]
    /\ UNCHANGED <<now, hasUser, rowVars, new, sentAt, clientVars>>

Revokes(r, S) ==
    /\ step[r] = "inside"
    /\ Ends(r)
    /\ revoked' = revoked \cup (S \cap rows)
    /\ UNCHANGED <<now, hasUser, rows, hash, expiresAt, clientVars>>

Logout(r) == Revokes(r, {old[r].sid})

LogoutAll(r) == Revokes(r, Session)

\* The sessions go with the user.
RemoveUser ==
    /\ hasUser
    /\ hasUser' = FALSE
    /\ rows' = {} /\ revoked' = {}
    /\ UNCHANGED <<now, hash, expiresAt, requestVars, clientVars>>

Tick ==
    /\ now < MaxTime
    /\ now' = now + 1
    /\ UNCHANGED <<hasUser, rowVars, requestVars, clientVars>>

Next ==
    \/ \E r \in Request :
          \/ \E s \in Session : Login(r, s)
          \/ \E t \in known : Refresh(r, t) \/ Enter(r, t)
          \/ Send(r) \/ Create(r) \/ Rotate(r) \/ Answer(r) \/ Fail(r)
          \/ Logout(r) \/ LogoutAll(r)
    \/ RemoveUser
    \/ Tick

Spec == Init /\ [][Next]_vars

(***************************************************************************)
(* Properties                                                              *)
(***************************************************************************)
Steps == {"idle", "loggingIn", "refreshing", "creating", "rotating", "answering", "inside"}

TypeOK ==
    /\ now \in 0..MaxTime
    /\ hasUser \in BOOLEAN
    /\ rows \in SUBSET Session /\ revoked \in SUBSET rows
    /\ hash \in [Session -> Token \cup {NoToken}]
    /\ expiresAt \in [Session -> 0..(MaxTime + RefreshTTL)]
    /\ step \in [Request -> Steps]
    /\ old \in [Request -> Token \cup {NoToken}]
    /\ new \in [Request -> Token \cup {NoToken}]
    /\ sentAt \in [Request -> 0..MaxTime]
    /\ issued \in SUBSET Token /\ known \in SUBSET Token
    /\ lost \in SUBSET Session

\* A refresh token has one successor, however many requests present it at the
\* same time or again.
OneSuccessor ==
    \A t, u \in issued : t.sid = u.sid /\ t.ver = u.ver => t = u

\* The row of a session outlives its tokens: an expired row never turns away a
\* token that has not expired.
RowOutlivesTokens ==
    \A t \in issued : t.sid \in rows => t.iat + RefreshTTL <= expiresAt[t.sid]

\* The client can go on with a session as long as no answer was lost or is
\* still under way: it has the token the row has.
ClientKeepsUp ==
    \A s \in rows \ lost :
        \/ hash[s] \in known
        \/ \E r \in Request : step[r] = "answering" /\ new[r] = hash[s]

\* A revoked session stays revoked, and none of the requests under way gives
\* it another token.
RevokedForGood ==
    [][\A s \in revoked :
          /\ s \in rows' => s \in revoked'
          /\ \A t \in issued' \ issued : t.sid # s]_vars

\* No login that was under way leaves a session to a user who is gone.
NoOrphanSession == ~hasUser => rows = {}
=============================================================================
