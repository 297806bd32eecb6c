--------------------------- MODULE AuthSessionProofs ---------------------------
(***************************************************************************)
(* What holds of AuthSession for any number of sessions and requests and   *)
(* all lifetimes of the tokens.                                            *)
(***************************************************************************)
EXTENDS AuthSession, TLAPS

\* The fields of a token, and how one is made.
LEMMA TokenFields ==
    /\ \A t \in Token : t.sid \in Session /\ t.ver \in 0..MaxVersion /\ t.iat \in 0..MaxTime
    /\ \A s \in Session, v \in 0..MaxVersion, i \in 0..MaxTime :
          [sid |-> s, ver |-> v, iat |-> i] \in Token
  BY DEF Token

\* A request past the signing has its token, and one behind the guard the
\* token it came with.
Signed ==
    \A r \in Request :
        /\ step[r] \notin {"idle", "inside"} => new[r] \in Token
        /\ step[r] \in {"inside", "refreshing", "rotating"} => old[r] \in Token

TypeInv == TypeOK /\ Signed

\* At first no session exists and no request is under way.
LEMMA InitType == AuthAssumption /\ Init => TypeInv
  <1> SUFFICES ASSUME AuthAssumption, Init
               PROVE  TypeInv
    OBVIOUS
  <1>1. 0 \in 0..MaxTime /\ 0 \in 0..(MaxTime + RefreshTTL)
    BY DEF AuthAssumption
  <1>2. QED
    BY <1>1, Zenon DEF Init, TypeInv, TypeOK, Signed, Steps

\* Every step keeps the types, and a request under way has its tokens.
LEMMA NextType ==
    AuthAssumption /\ NoTokenAssumption /\ TypeInv /\ [Next]_vars => TypeInv'
  <1> SUFFICES ASSUME AuthAssumption, NoTokenAssumption, TypeInv, [Next]_vars
               PROVE  TypeInv'
    OBVIOUS
  <1> USE DEF AuthAssumption, TypeInv, TypeOK, Signed, rowVars, requestVars, clientVars, GoTo, Steps
  <1>1. ASSUME NEW r \in Request, NEW s \in Session, Login(r, s)
        PROVE  TypeInv'
    <2>0. 0 \in 0..MaxVersion
      OBVIOUS
    <2>1. [sid |-> s, ver |-> 0, iat |-> now] \in Token
      BY <2>0, TokenFields, Zenon
    <2>2. QED
      BY <1>1, <2>1 DEF Login
  <1>2. ASSUME NEW r \in Request, NEW t \in known, Refresh(r, t)
        PROVE  TypeInv'
    <2>1. t \in Token /\ t.sid \in Session /\ t.ver + 1 \in 0..MaxVersion
      BY <1>2, TokenFields DEF Refresh
    <2>2. [sid |-> t.sid, ver |-> t.ver + 1, iat |-> now] \in Token
      BY <2>1, TokenFields, Zenon
    <2>3. QED
      BY <1>2, <2>1, <2>2 DEF Refresh
  <1>3. ASSUME NEW r \in Request, NEW t \in known, Enter(r, t)
        PROVE  TypeInv'
    BY <1>3 DEF Enter
  <1>4. ASSUME NEW r \in Request, Send(r)
        PROVE  TypeInv'
    BY <1>4 DEF Send
  <1>5. ASSUME NEW r \in Request, Create(r) \/ Rotate(r)
        PROVE  TypeInv'
    <2>1. step[r] \in {"creating", "rotating"} /\ Stores(r)
      BY <1>5 DEF Create, Rotate
    <2>2. new[r] \in Token /\ new[r].sid \in Session /\ NewExpiry(r) \in 0..(MaxTime + RefreshTTL)
      BY <2>1, TokenFields DEF NewExpiry
    <2>3. UNCHANGED <<now, hasUser, revoked, old, new, sentAt, known, lost>>
      BY <1>5 DEF Create, Rotate
    <2>4. TypeOK'
      BY <2>1, <2>2, <2>3 DEF Stores
    <2>5. QED
      BY <2>1, <2>2, <2>3, <2>4 DEF Stores
  <1>6. ASSUME NEW r \in Request, Answer(r)
        PROVE  TypeInv'
    BY <1>6 DEF Answer, Ends, Answered
  <1>7. ASSUME NEW r \in Request, Fail(r)
        PROVE  TypeInv'
    <2>1. step[r] = "answering" => new[r].sid \in Session
      BY TokenFields
    <2>2. lost' \in SUBSET Session
      BY <1>7, <2>1 DEF Fail
    <2>3. QED
      BY <1>7, <2>2 DEF Fail, Ends
  <1>8. ASSUME NEW r \in Request, Logout(r) \/ LogoutAll(r)
        PROVE  TypeInv'
    BY <1>8 DEF Logout, LogoutAll, Revokes, Ends
  <1>9. CASE RemoveUser
    BY <1>9 DEF RemoveUser
  <1>10. CASE Tick
    BY <1>10 DEF Tick
  <1>11. CASE UNCHANGED vars
    BY <1>11 DEF vars
  <1>12. QED
    BY <1>1, <1>2, <1>3, <1>4, <1>5, <1>6, <1>7, <1>8, <1>9, <1>10, <1>11 DEF Next

\* Values are within their types.
THEOREM SessionTypes == Spec => []TypeOK
  <1>1. TypeInv => TypeOK
    BY DEF TypeInv
  <1>2. QED
    BY <1>1, InitType, NextType, AuthAssumption, NoTokenAssumption, PTL DEF Spec

\* Types and signed tokens hold in every reachable state.
LEMMA TypeInvHolds == Spec => []TypeInv
  BY InitType, NextType, AuthAssumption, NoTokenAssumption, PTL DEF Spec

(***************************************************************************)
(* One successor per token                                                 *)
(***************************************************************************)
LoggingIn(r) == step[r] \in {"loggingIn", "creating"}

Refreshing(r) == step[r] \in {"refreshing", "rotating"}

\* A request that is signing or storing a token: a rotation makes the next
\* version of a token some row was given.
RequestInv ==
    \A r \in Request :
        /\ LoggingIn(r) => new[r].ver = 0
        /\ Refreshing(r) =>
              /\ old[r] \in issued
              /\ new[r].sid = old[r].sid /\ new[r].ver = old[r].ver + 1
              /\ old[r].iat <= new[r].iat
        /\ LoggingIn(r) \/ Refreshing(r) => new[r].iat <= now
        /\ step[r] = "answering" => new[r] \in issued
        /\ step[r] \in {"creating", "rotating"} => new[r].iat <= sentAt[r]

\* The session of a login is nobody else's.
FreshInv ==
    \A r \in Request : LoggingIn(r) =>
        /\ \A t \in issued : t.sid # new[r].sid
        /\ \A q \in Request : LoggingIn(q) /\ new[q].sid = new[r].sid => q = r

\* A row has the newest of the tokens its session was given.
RowInv ==
    /\ known \subseteq issued
    /\ \A t \in issued : t.iat <= now
    /\ \A s \in rows : hash[s] \in issued /\ hash[s].sid = s
    /\ \A t \in issued : t.sid \in rows =>
          /\ t.ver <= hash[t.sid].ver
          /\ t.iat <= hash[t.sid].iat
    /\ OneSuccessor

SessionInv == RequestInv /\ FreshInv /\ RowInv

\* What the statements of login and refresh do: a new session's row is
\* created, or that of a session some row had is given its next token.
LEMMA StoreStep ==
    ASSUME AuthAssumption, TypeInv, SessionInv,
           NEW r \in Request, Create(r) \/ Rotate(r)
    PROVE  /\ new[r] \in Token
           /\ rows' = rows \cup {new[r].sid}
           /\ issued' = issued \cup {new[r]}
           /\ \A s \in Session : hash'[s] = IF s = new[r].sid THEN new[r] ELSE hash[s]
           /\ \A s \in Session : expiresAt'[s] = IF s = new[r].sid THEN sentAt[r] + RefreshTTL
                                                                   ELSE expiresAt[s]
           /\ \A q \in Request : step'[q] = IF q = r THEN "answering" ELSE step[q]
           /\ UNCHANGED <<now, hasUser, revoked, old, new, sentAt, known, lost>>
           /\ new[r].iat <= sentAt[r] /\ new[r].iat <= now
           /\ new[r].sid \notin revoked
           /\ \A t \in issued : t.sid = new[r].sid => t.ver < new[r].ver /\ t.iat <= new[r].iat
  <1> USE DEF TypeInv, TypeOK, Signed
  <1>1. step[r] \in {"creating", "rotating"} /\ Stores(r)
        /\ UNCHANGED <<now, hasUser, revoked, old, new, sentAt, known, lost>>
    BY DEF Create, Rotate
  <1>2. new[r] \in Token /\ new[r].sid \in Session /\ new[r].iat \in Nat /\ new[r].ver \in Nat
    BY <1>1, TokenFields
  <1>3. new[r].iat <= sentAt[r] /\ new[r].iat <= now
    BY <1>1 DEF SessionInv, RequestInv, LoggingIn, Refreshing
  <1>4. /\ new[r].sid \notin revoked
        /\ \A t \in issued : t.sid = new[r].sid => t.ver < new[r].ver /\ t.iat <= new[r].iat
    <2>1. CASE step[r] = "creating"
      BY <2>1 DEF SessionInv, FreshInv, RowInv, LoggingIn
    <2>2. CASE step[r] = "rotating"
      <3>1. /\ old[r].sid \in rows \ revoked /\ hash[old[r].sid] = old[r]
            /\ new[r].sid = old[r].sid /\ new[r].ver = old[r].ver + 1 /\ old[r].iat <= new[r].iat
        BY <2>2 DEF Create, Rotate, Matches, SessionInv, RequestInv, Refreshing
      <3>2. ASSUME NEW t \in issued, t.sid = new[r].sid
            PROVE  t.ver < new[r].ver /\ t.iat <= new[r].iat
        <4>1. t.ver <= old[r].ver /\ t.iat <= old[r].iat
          BY <3>1, <3>2 DEF SessionInv, RowInv
        <4>2. t \in Token /\ old[r] \in Token
          BY <2>2
        <4>3. t.ver \in Nat /\ t.iat \in Nat /\ old[r].ver \in Nat /\ old[r].iat \in Nat
          BY <4>2, TokenFields
        <4>4. QED
          BY <3>1, <4>1, <4>3, <1>2
      <3>3. QED
        BY <3>1, <3>2
    <2>3. QED
      BY <1>1, <2>1, <2>2
  <1>5. \A s \in Session : hash'[s] = IF s = new[r].sid THEN new[r] ELSE hash[s]
    BY <1>1, <1>2 DEF Stores
  <1>6. \A s \in Session : expiresAt'[s] = IF s = new[r].sid THEN sentAt[r] + RefreshTTL
                                                             ELSE expiresAt[s]
    BY <1>1, <1>2 DEF Stores, NewExpiry
  <1>7. \A q \in Request : step'[q] = IF q = r THEN "answering" ELSE step[q]
    BY <1>1 DEF Stores, GoTo
  <1>8. rows' = rows \cup {new[r].sid} /\ issued' = issued \cup {new[r]}
    BY <1>1 DEF Stores
  <1>9. QED
    BY <1>1, <1>2, <1>3, <1>4, <1>5, <1>6, <1>7, <1>8
\* A step that stores no token leaves the rows it leaves as they are, and a
\* request that goes on has signed, sent, or done nothing.
Quiet ==
    /\ UNCHANGED <<hash, expiresAt, issued>>
    /\ rows' = rows \/ rows' = {}
    /\ now <= now'
    /\ known' \subseteq issued
    /\ \A r \in Request :
          \/ UNCHANGED <<step[r], old[r], new[r], sentAt[r]>>
          \/ \E s \in Session : Login(r, s)
          \/ \E t \in known : Refresh(r, t)
          \/ Send(r)
          \/ step'[r] \in {"idle", "inside"}

\* Only the statements of a login and of a rotation store a token.
LEMMA QuietSteps ==
    ASSUME AuthAssumption, TypeInv, SessionInv, [Next]_vars,
           \A r \in Request : ~Create(r) /\ ~Rotate(r)
    PROVE  Quiet
  <1> USE DEF AuthAssumption, TypeInv, TypeOK, SessionInv, RowInv, rowVars, requestVars,
              clientVars, GoTo, Quiet
  <1>1. ASSUME NEW r \in Request, NEW s \in Session, Login(r, s)
        PROVE  Quiet
    <2>1. \A q \in Request : q # r => UNCHANGED <<step[q], old[q], new[q], sentAt[q]>>
      BY <1>1 DEF Login
    <2>2. UNCHANGED <<hash, expiresAt, issued, rows, now, known>>
      BY <1>1 DEF Login
    <2>3. QED
      BY <1>1, <2>1, <2>2
  <1>2. ASSUME NEW r \in Request, NEW t \in known, Refresh(r, t)
        PROVE  Quiet
    <2>1. \A q \in Request : q # r => UNCHANGED <<step[q], old[q], new[q], sentAt[q]>>
      BY <1>2 DEF Refresh
    <2>2. UNCHANGED <<hash, expiresAt, issued, rows, now, known>>
      BY <1>2 DEF Refresh
    <2>3. QED
      BY <1>2, <2>1, <2>2
  <1>3. ASSUME NEW r \in Request, NEW t \in known, Enter(r, t)
        PROVE  Quiet
    BY <1>3 DEF Enter
  <1>4. ASSUME NEW r \in Request, Send(r)
        PROVE  Quiet
    <2>1. \A q \in Request : q # r => UNCHANGED <<step[q], old[q], new[q], sentAt[q]>>
      BY <1>4 DEF Send
    <2>2. UNCHANGED <<hash, expiresAt, issued, rows, now, known>>
      BY <1>4 DEF Send
    <2>3. QED
      BY <1>4, <2>1, <2>2
  <1>5. ASSUME NEW r \in Request, Answer(r)
        PROVE  Quiet
    <2>1. step[r] = "answering" /\ new[r] \in issued
      BY <1>5 DEF Answer, RequestInv
    <2>2. \A q \in Request : q # r => UNCHANGED <<step[q], old[q], new[q], sentAt[q]>>
      BY <1>5 DEF Answer, Ends
    <2>3. step'[r] = "idle"
      BY <1>5 DEF Answer, Ends
    <2>4. known' \subseteq issued /\ UNCHANGED <<hash, expiresAt, issued, rows, now>>
      BY <1>5, <2>1 DEF Answer, Answered
    <2>5. QED
      BY <2>2, <2>3, <2>4
  <1>6. ASSUME NEW r \in Request, Fail(r)
        PROVE  Quiet
    BY <1>6 DEF Fail, Ends
  <1>7. ASSUME NEW r \in Request, Logout(r) \/ LogoutAll(r)
        PROVE  Quiet
    BY <1>7 DEF Logout, LogoutAll, Revokes, Ends
  <1>8. CASE RemoveUser
    BY <1>8 DEF RemoveUser
  <1>9. CASE Tick
    BY <1>9 DEF Tick
  <1>10. CASE UNCHANGED vars
    BY <1>10 DEF vars
  <1>11. QED
    BY <1>1, <1>2, <1>3, <1>4, <1>5, <1>6, <1>7, <1>8, <1>9, <1>10 DEF Next

\* A request signs a token that follows the one it has verified (refresh).
LEMMA RequestStep ==
    ASSUME AuthAssumption, TypeInv, TypeInv', SessionInv, [Next]_vars
    PROVE  RequestInv'
  <1> USE DEF AuthAssumption, SessionInv, RequestInv, LoggingIn, Refreshing
  <1>1. ASSUME NEW r \in Request, Create(r) \/ Rotate(r)
        PROVE  RequestInv'
    BY <1>1, StoreStep
  <1>2. CASE \A r \in Request : ~Create(r) /\ ~Rotate(r)
    <2>1. Quiet
      BY <1>2, QuietSteps
    <2>2. now \in Nat /\ now' \in Nat /\ now <= now'
      BY <2>1 DEF Quiet, TypeInv, TypeOK
    <2> SUFFICES ASSUME NEW r \in Request
                 PROVE  /\ LoggingIn(r)' => new'[r].ver = 0
                        /\ Refreshing(r)' =>
                              /\ old'[r] \in issued'
                              /\ new'[r].sid = old'[r].sid /\ new'[r].ver = old'[r].ver + 1
                              /\ old'[r].iat <= new'[r].iat
                        /\ LoggingIn(r)' \/ Refreshing(r)' => new'[r].iat <= now'
                        /\ step'[r] = "answering" => new'[r] \in issued'
                        /\ step'[r] \in {"creating", "rotating"} => new'[r].iat <= sentAt'[r]
      BY Zenon
    <2>3. CASE UNCHANGED <<step[r], old[r], new[r], sentAt[r]>>
      <3>1. LoggingIn(r) \/ Refreshing(r) => new[r].iat \in Nat
        BY TokenFields DEF TypeInv, Signed
      <3>2. QED
        BY <2>1, <2>2, <2>3, <3>1 DEF Quiet
    <2>4. ASSUME NEW s \in Session, Login(r, s)
          PROVE  /\ step'[r] = "loggingIn" /\ new'[r].ver = 0 /\ new'[r].iat = now
      BY <2>4 DEF Login, GoTo, TypeInv, TypeOK
    <2>5. ASSUME NEW t \in known, Refresh(r, t)
          PROVE  /\ step'[r] = "refreshing" /\ old'[r] = t /\ t \in issued
                 /\ new'[r].sid = t.sid /\ new'[r].ver = t.ver + 1 /\ new'[r].iat = now
                 /\ t.iat <= now
      BY <2>5 DEF Refresh, GoTo, TypeInv, TypeOK, RowInv
    <2>6. CASE Send(r)
      BY <2>1, <2>2, <2>6 DEF Send, GoTo, TypeInv, TypeOK, Quiet
    <2>7. CASE step'[r] \in {"idle", "inside"}
      BY <2>7
    <2>8. CASE \E s \in Session : Login(r, s)
      BY <2>2, <2>4, <2>8
    <2>9. CASE \E t \in known : Refresh(r, t)
      BY <2>1, <2>2, <2>5, <2>9 DEF Quiet
    <2>10. QED
      BY <2>1, <2>3, <2>6, <2>7, <2>8, <2>9 DEF Quiet
  <1>3. QED
    BY <1>1, <1>2

\* A login has the id of its session to itself until it stores it (randomUUID).
LEMMA FreshStep ==
    ASSUME AuthAssumption, NoTokenAssumption, TypeInv, SessionInv, [Next]_vars
    PROVE  FreshInv'
  <1> USE DEF SessionInv, FreshInv, LoggingIn
  <1>1. ASSUME NEW r \in Request, Create(r) \/ Rotate(r)
        PROVE  FreshInv'
    <2>1. \A q \in Request : LoggingIn(q)' => q # r /\ LoggingIn(q) /\ new'[q] = new[q]
      BY <1>1, StoreStep
    <2>2. \A q \in Request : LoggingIn(q) /\ q # r => new[r].sid # new[q].sid
      <3>1. CASE Create(r)
        BY <3>1 DEF Create
      <3>2. CASE Rotate(r)
        BY <3>2 DEF Rotate, RequestInv, Refreshing
      <3>3. QED
        BY <1>1, <3>1, <3>2
    <2>3. issued' = issued \cup {new[r]}
      BY <1>1, StoreStep
    <2>4. QED
      BY <2>1, <2>2, <2>3
  <1>2. ASSUME NEW r \in Request, NEW s \in Session, Login(r, s)
        PROVE  FreshInv'
    <2>1. /\ new'[r].sid = s
          /\ \A q \in Request : q # r => step'[q] = step[q] /\ new'[q] = new[q]
          /\ issued' = issued /\ \A t \in issued : t.sid # s
      BY <1>2 DEF Login, GoTo, clientVars, TypeInv, TypeOK
    <2>2. \A q \in Request : LoggingIn(q) => new[q].sid # s
      BY <1>2 DEF Login, Drawn, TypeInv, Signed, NoTokenAssumption
    <2>3. QED
      BY <2>1, <2>2
  <1>3. CASE /\ \A r \in Request : ~Create(r) /\ ~Rotate(r)
             /\ \A r \in Request, s \in Session : ~Login(r, s)
    <2>1. Quiet
      BY <1>3, QuietSteps
    <2>2. \A q \in Request : LoggingIn(q)' => LoggingIn(q) /\ new'[q] = new[q]
      <3> SUFFICES ASSUME NEW q \in Request, LoggingIn(q)'
                   PROVE  LoggingIn(q) /\ new'[q] = new[q]
        OBVIOUS
      <3>1. CASE UNCHANGED <<step[q], old[q], new[q], sentAt[q]>>
        BY <3>1
      <3>2. CASE Send(q)
        BY <3>2 DEF Send, GoTo, TypeInv, TypeOK
      <3>3. CASE \E t \in known : Refresh(q, t)
        BY <3>3 DEF Refresh, GoTo, TypeInv, TypeOK
      <3>4. QED
        BY <1>3, <2>1, <3>1, <3>2, <3>3 DEF Quiet
    <2>3. QED
      BY <2>1, <2>2 DEF Quiet
  <1>4. QED
    BY <1>1, <1>2, <1>3

\* A rotation replaces the newest token of its session by a newer one.
LEMMA RowStep ==
    ASSUME AuthAssumption, TypeInv, SessionInv, [Next]_vars
    PROVE  RowInv'
  <1> USE DEF SessionInv, RowInv
  <1>1. ASSUME NEW r \in Request, Create(r) \/ Rotate(r)
        PROVE  RowInv'
    <2>1. /\ new[r] \in Token /\ new[r].sid \in Session /\ new[r].ver \in Nat /\ new[r].iat \in Nat
          /\ \A t \in issued : t \in Token /\ t.sid \in Session /\ t.ver \in Nat /\ t.iat \in Nat
      BY <1>1, StoreStep, TokenFields DEF TypeInv, TypeOK
    <2>2. /\ issued' = issued \cup {new[r]} /\ rows' = rows \cup {new[r].sid}
          /\ now' = now /\ known' = known /\ new[r].iat <= now
          /\ \A s \in Session : hash'[s] = IF s = new[r].sid THEN new[r] ELSE hash[s]
          /\ \A t \in issued : t.sid = new[r].sid => t.ver < new[r].ver /\ t.iat <= new[r].iat
      BY <1>1, StoreStep
    <2>3. OneSuccessor'
      BY <2>1, <2>2 DEF OneSuccessor
    <2>4. \A s \in rows' : hash'[s] \in issued' /\ hash'[s].sid = s
      BY <2>1, <2>2 DEF TypeInv, TypeOK
    <2>5. \A t \in issued' : t.sid \in rows' =>
             t.ver <= hash'[t.sid].ver /\ t.iat <= hash'[t.sid].iat
      BY <2>1, <2>2
    <2>6. QED
      BY <2>2, <2>3, <2>4, <2>5
  <1>2. CASE \A r \in Request : ~Create(r) /\ ~Rotate(r)
    <2>1. Quiet
      BY <1>2, QuietSteps
    <2>2. \A t \in issued : t.iat \in Nat
      BY TokenFields DEF TypeInv, TypeOK
    <2>3. now \in Nat /\ now' \in Nat
      BY <1>2, NextType, NoTokenAssumption DEF TypeInv, TypeOK, AuthAssumption
    <2>4. QED
      BY <2>1, <2>2, <2>3 DEF Quiet, OneSuccessor
  <1>3. QED
    BY <1>1, <1>2

\* The three parts hold together in every reachable state.
LEMMA SessionInvHolds == Spec => [](TypeInv /\ SessionInv)
  <1>1. AuthAssumption /\ Init => SessionInv
    BY DEF Init, SessionInv, RequestInv, FreshInv, RowInv, OneSuccessor, LoggingIn, Refreshing
  <1>2. AuthAssumption /\ NoTokenAssumption /\ TypeInv /\ SessionInv /\ [Next]_vars
            => (TypeInv /\ SessionInv)'
    BY NextType, RequestStep, FreshStep, RowStep DEF SessionInv
  <1>3. QED
    BY <1>1, <1>2, InitType, AuthAssumption, NoTokenAssumption, PTL DEF Spec

\* A refresh token is exchanged once, whatever requests present it at the same
\* time or again: the tokens of a session form one chain, version by version.
THEOREM TokensFormAChain == Spec => []OneSuccessor
  <1>1. SessionInv => OneSuccessor
    BY DEF SessionInv, RowInv
  <1>2. QED
    BY <1>1, SessionInvHolds, PTL

(***************************************************************************)
(* Expiry, revocation and the client                                       *)
(***************************************************************************)
\* An expired row never turns away a token that has not expired.
THEOREM ExpiryCoversTokens == Spec => []RowOutlivesTokens
  <1>1. Init => RowOutlivesTokens
    BY DEF Init, RowOutlivesTokens
  <1>2. AuthAssumption /\ TypeInv /\ SessionInv /\ RowOutlivesTokens /\ [Next]_vars
            => RowOutlivesTokens'
    <2> SUFFICES ASSUME AuthAssumption, TypeInv, SessionInv, RowOutlivesTokens, [Next]_vars
                 PROVE  RowOutlivesTokens'
      OBVIOUS
    <2>1. ASSUME NEW r \in Request, Create(r) \/ Rotate(r)
          PROVE  RowOutlivesTokens'
      <3>1. /\ new[r].sid \in Session /\ new[r].iat \in Nat
            /\ \A t \in issued : t.sid \in Session /\ t.iat \in Nat
            /\ sentAt[r] \in Nat /\ RefreshTTL \in Nat
        BY <2>1, StoreStep, TokenFields DEF TypeInv, TypeOK, AuthAssumption
      <3>2. /\ issued' = issued \cup {new[r]} /\ rows' = rows \cup {new[r].sid}
            /\ new[r].iat <= sentAt[r]
            /\ \A s \in Session : expiresAt'[s] = IF s = new[r].sid THEN sentAt[r] + RefreshTTL
                                                                    ELSE expiresAt[s]
            /\ \A t \in issued : t.sid = new[r].sid => t.iat <= new[r].iat
        BY <2>1, StoreStep
      <3>3. ASSUME NEW t \in issued', t.sid \in rows'
            PROVE  t.iat + RefreshTTL <= expiresAt'[t.sid]
        <4>1. CASE t.sid = new[r].sid
          <5>1. t.iat <= sentAt[r] /\ t.iat \in Nat
            BY <3>1, <3>2, <4>1
          <5>2. expiresAt'[t.sid] = sentAt[r] + RefreshTTL
            BY <3>1, <3>2, <4>1
          <5>3. QED
            BY <5>1, <5>2, <3>1
        <4>2. CASE t.sid # new[r].sid
          BY <3>1, <3>2, <3>3, <4>2 DEF RowOutlivesTokens
        <4>3. QED
          BY <4>1, <4>2
      <3>4. QED
        BY <3>3 DEF RowOutlivesTokens
    <2>2. CASE \A r \in Request : ~Create(r) /\ ~Rotate(r)
      BY <2>2, QuietSteps DEF Quiet, RowOutlivesTokens
    <2>3. QED
      BY <2>1, <2>2
  <1>3. QED
    BY <1>1, <1>2, SessionInvHolds, AuthAssumption, PTL DEF Spec
\* A revoked session stays revoked and gets no more tokens, whatever refresh
\* was under way.
THEOREM RevocationIsFinal == Spec => RevokedForGood
  <1>1. ASSUME AuthAssumption, TypeInv, SessionInv, [Next]_vars, NEW s \in revoked
        PROVE  /\ s \in rows' => s \in revoked'
               /\ \A t \in issued' \ issued : t.sid # s
    <2>1. ASSUME NEW r \in Request, Create(r) \/ Rotate(r)
          PROVE  revoked' = revoked /\ \A t \in issued' \ issued : t.sid # s
      BY <1>1, <2>1, StoreStep
    <2>2. CASE \A r \in Request : ~Create(r) /\ ~Rotate(r)
      <3>1. issued' = issued
        BY <1>1, <2>2, QuietSteps DEF Quiet
      <3>2. s \in rows' => s \in revoked'
        BY <1>1, <2>2 DEF Next, vars, rowVars, Login, Refresh, Enter, Send, Answer, Fail, Logout,
                    LogoutAll, Revokes, RemoveUser, Tick
      <3>3. QED
        BY <3>1, <3>2
    <2>3. QED
      BY <2>1, <2>2
  <1>2. AuthAssumption /\ TypeInv /\ SessionInv /\ [Next]_vars
           => [\A s \in revoked :
                 /\ s \in rows' => s \in revoked'
                 /\ \A t \in issued' \ issued : t.sid # s]_vars
    BY <1>1
  <1>3. QED
    BY <1>2, SessionInvHolds, AuthAssumption, PTL DEF Spec, RevokedForGood

\* The client has the token its session's row has, unless an answer was lost
\* or is under way.
THEOREM ClientStaysInStep == Spec => []ClientKeepsUp
  <1> DEFINE Held(s) == \/ hash[s] \in known
                        \/ \E r \in Request : step[r] = "answering" /\ new[r] = hash[s]
  <1>1. Init => ClientKeepsUp
    BY DEF Init, ClientKeepsUp
  <1>2. AuthAssumption /\ TypeInv /\ SessionInv /\ ClientKeepsUp /\ [Next]_vars
            => ClientKeepsUp'
    <2> SUFFICES ASSUME AuthAssumption, TypeInv, SessionInv, ClientKeepsUp, [Next]_vars,
                        NEW s \in (rows \ lost)'
                 PROVE  Held(s)'
      BY DEF ClientKeepsUp
    <2> USE DEF TypeInv, TypeOK, rowVars, requestVars, clientVars, GoTo
    <2>1. ASSUME NEW r \in Request, Create(r) \/ Rotate(r)
          PROVE  Held(s)'
      <3>1. /\ rows' = rows \cup {new[r].sid} /\ lost' = lost /\ known' = known /\ new' = new
            /\ hash'[s] = IF s = new[r].sid THEN new[r] ELSE hash[s]
            /\ step'[r] = "answering"
            /\ \A q \in Request : step[q] = "answering" => step'[q] = "answering"
        BY <2>1, StoreStep, NextType, NoTokenAssumption
      <3>2. CASE s = new[r].sid
        BY <3>1, <3>2
      <3>3. CASE s # new[r].sid
        <4>1. Held(s)
          BY <3>1, <3>3 DEF ClientKeepsUp
        <4>2. QED
          BY <3>1, <3>3, <4>1
      <3>4. QED
        BY <3>2, <3>3
    <2>2. CASE /\ \A r \in Request : ~Create(r) /\ ~Rotate(r)
               /\ \A r \in Request : ~Answer(r) /\ ~Fail(r)
      <3>1. Held(s) /\ hash' = hash
        BY <2>2, QuietSteps DEF Quiet, ClientKeepsUp, Next, vars, Login, Refresh, Enter, Send,
                  Logout, LogoutAll, Revokes, RemoveUser, Tick
      <3>2. /\ known' = known
            /\ \A q \in Request : step[q] = "answering" =>
                  step'[q] = "answering" /\ new'[q] = new[q]
        BY <2>2 DEF Next, vars, Login, Refresh, Enter, Send, Logout, LogoutAll, Revokes, Ends,
                    RemoveUser, Tick
      <3>3. QED
        BY <3>1, <3>2
    <2>3. ASSUME NEW r \in Request, Answer(r)
          PROVE  Held(s)'
      <3>1. /\ rows' = rows /\ lost' = lost /\ hash' = hash /\ known' = known \cup {new[r]}
            /\ \A q \in Request : q # r => step'[q] = step[q] /\ new'[q] = new[q]
        BY <2>3 DEF Answer, Ends, Answered
      <3>2. Held(s)
        BY <3>1 DEF ClientKeepsUp
      <3>3. QED
        BY <3>1, <3>2
    <2>4. ASSUME NEW r \in Request, Fail(r)
          PROVE  Held(s)'
      <3>1. /\ rows' = rows /\ hash' = hash /\ known' = known
            /\ lost' = IF step[r] = "answering" THEN lost \cup {new[r].sid} ELSE lost
            /\ \A q \in Request : q # r => step'[q] = step[q] /\ new'[q] = new[q]
        BY <2>4 DEF Fail, Ends
      <3>2. Held(s) /\ hash[s].sid = s
        BY <3>1 DEF ClientKeepsUp, SessionInv, RowInv
      <3>3. QED
        BY <3>1, <3>2
    <2>5. QED
      BY <2>1, <2>2, <2>3, <2>4
  <1>3. QED
    BY <1>1, <1>2, SessionInvHolds, AuthAssumption, PTL DEF Spec

\* A user who is gone has no sessions, also when a login was under way.
THEOREM SessionsGoWithUser == Spec => []NoOrphanSession
  <1>1. Init => NoOrphanSession
    BY DEF Init, NoOrphanSession
  <1>2. NoOrphanSession /\ [Next]_vars => NoOrphanSession'
    <2> SUFFICES ASSUME NoOrphanSession, [Next]_vars
                 PROVE  NoOrphanSession'
      OBVIOUS
    <2> USE DEF NoOrphanSession, rowVars
    <2>1. ASSUME NEW r \in Request, Create(r)
          PROVE  NoOrphanSession'
      BY <2>1 DEF Create, OwnerExists
    <2>2. ASSUME NEW r \in Request, Rotate(r)
          PROVE  NoOrphanSession'
      BY <2>2 DEF Rotate, Matches
    <2>3. CASE \A r \in Request : ~Create(r) /\ ~Rotate(r)
      BY <2>3 DEF Next, vars, Login, Refresh, Enter, Send, Answer, Fail, Logout, LogoutAll,
                  Revokes, RemoveUser, Tick
    <2>4. QED
      BY <2>1, <2>2, <2>3
  <1>3. QED
    BY <1>1, <1>2, PTL DEF Spec
=============================================================================
