--------------------------- MODULE SessionsProofs ---------------------------
(***************************************************************************)
(* Proofs about Sessions, for any number of accounts, sessions, browsers   *)
(* and requests and any lifetimes of the tokens.                           *)
(***************************************************************************)
EXTENDS Sessions, TLAPS

-----------------------------------------------------------------------------
(* The inductive invariant, conjunct by conjunct *)

(* At each of its program points a request knows what its next step relies on. *)
RegisteringOK(r) ==
  /\ At(r, "insert") \/ At(r, "commit") => req[r].name \in Names
  /\ At(r, "commit") => req[r].account \in Accounts

KnownAccountOK(r) ==
  At(r, "signin") \/ At(r, "bearer") =>
    /\ req[r].account \in Accounts
    /\ users[req[r].account] # Null

KnownSessionOK(r) ==
  req[r].pc \in {"welcome", "signout", "cleared", "refresh", "issue"} =>
    /\ req[r].session \in SessionIds
    /\ refreshTokens[req[r].session] # Null

BrowserOK(r) ==
  req[r].pc \in {"signin", "welcome", "signout", "cleared"} => req[r].browser \in Browsers

(* The cookie is cleared only for a session that has ended or counts as abandoned. *)
ClearedOK(r) ==
  At(r, "cleared") => Ended(req[r].session) \/ req[r].session \in abandoned

(* What was read was true when it was read, and an account does not become active
   again. *)
FreshOK(r) ==
  /\ At(r, "issue") \/ At(r, "serving") => req[r].fresh
  /\ At(r, "bearer") => (users[req[r].account].active => req[r].fresh)

RequestOK(r) ==
  /\ RegisteringOK(r) /\ KnownAccountOK(r) /\ KnownSessionOK(r)
  /\ BrowserOK(r) /\ ClearedOK(r) /\ FreshOK(r)

(* The id that a transaction has inserted is nobody else's. *)
CommitsOK ==
  \A r \in Requests : At(r, "commit") =>
    /\ users[req[r].account] = Null
    /\ \A q \in Requests : q # r /\ At(q, "commit") => req[q].account # req[r].account

RowsOK ==
  \A s \in SessionIds : refreshTokens[s] # Null => users[refreshTokens[s].account] # Null

EndedOK ==
  \A s \in SessionIds : endedFor[s] > 0 => refreshTokens[s] # Null /\ Ended(s)

(* What an access token still has to live and the time since its session has ended
   are together never more than AccessTTL. *)
AccessRunsOut ==
  \A s \in SessionIds \ straggled : \A n \in access[s] : n + endedFor[s] <= AccessTTL

IInv ==
  /\ TypeOK
  /\ \A r \in Requests : RequestOK(r)
  /\ CommitsOK
  /\ RowsOK
  /\ NoSessionWithoutRow
  /\ AccountsAreWhole
  /\ EndedOK
  /\ AccessRunsOut
  /\ LiveSessionsAreHeld

-----------------------------------------------------------------------------
(* Nothing has happened yet *)

(* There are no accounts, sessions or requests. *)
LEMMA InitOK == Init => IInv
  <1> SUFFICES ASSUME Init PROVE IInv OBVIOUS
  <1> USE SessionAssumption DEF Init
  <1>1. \A r \in Requests : req[r] = Idle BY Zenon
  <1>2. Idle \in Request BY DEF Idle, Request, PCs
  <1>3. TypeOK BY <1>1, <1>2 DEF TypeOK
  <1>4. \A r \in Requests : RequestOK(r)
    BY <1>1 DEF RequestOK, RegisteringOK, KnownAccountOK, KnownSessionOK, BrowserOK, ClearedOK,
                FreshOK, At, Idle
  <1>5. CommitsOK BY <1>1 DEF CommitsOK, At, Idle
  <1>6. RowsOK /\ EndedOK BY DEF RowsOK, EndedOK
  <1>7. NoSessionWithoutRow /\ AccountsAreWhole BY DEF NoSessionWithoutRow, AccountsAreWhole
  <1>8. AccessRunsOut /\ LiveSessionsAreHeld BY DEF AccessRunsOut, LiveSessionsAreHeld
  <1> QED BY <1>3, <1>4, <1>5, <1>6, <1>7, <1>8 DEF IInv

-----------------------------------------------------------------------------
(* The requests that a step does not move *)

(* What no step takes back. *)
Monotone ==
  /\ \A a \in Accounts : users[a] # Null =>
       users'[a] # Null /\ (users'[a].active => users[a].active)
  /\ \A s \in SessionIds : refreshTokens[s] # Null =>
       refreshTokens'[s] # Null /\ (Ended(s) => Ended(s)')
  /\ abandoned \subseteq abandoned'

(* What a request relies on survives the steps of the others. *)
LEMMA OthersKeep ==
  ASSUME IInv, Monotone, NEW q \in Requests, req'[q] = req[q]
  PROVE  RequestOK(q)'
  <1>1. RequestOK(q) BY DEF IInv
  <1>2. RegisteringOK(q)' BY <1>1 DEF RequestOK, RegisteringOK, At
  <1>3. KnownAccountOK(q)' BY <1>1 DEF RequestOK, KnownAccountOK, At, Monotone
  <1>4. KnownSessionOK(q)' BY <1>1 DEF RequestOK, KnownSessionOK, Monotone
  <1>5. BrowserOK(q)' BY <1>1 DEF RequestOK, BrowserOK
  <1>6. ClearedOK(q)'
    <2> SUFFICES ASSUME At(q, "cleared")'
                 PROVE  Ended(req[q].session)' \/ req[q].session \in abandoned'
      BY DEF ClearedOK, Ended
    <2>1. At(q, "cleared") BY DEF At
    <2>2. req[q].session \in SessionIds /\ refreshTokens[req[q].session] # Null
      BY <1>1, <2>1 DEF RequestOK, KnownSessionOK, At
    <2>3. Ended(req[q].session) \/ req[q].session \in abandoned
      BY <1>1, <2>1 DEF RequestOK, ClearedOK
    <2> QED BY <2>2, <2>3 DEF Monotone
  <1>7. FreshOK(q)'
    BY <1>1 DEF RequestOK, FreshOK, KnownAccountOK, At, Monotone
  <1> QED BY <1>2, <1>3, <1>4, <1>5, <1>6, <1>7 DEF RequestOK

(* A step that writes no row takes nothing back. *)
LEMMA SameRowsAreMonotone ==
  ASSUME UNCHANGED <<users, refreshTokens>>, abandoned \subseteq abandoned'
  PROVE  Monotone
  BY DEF Monotone, Ended

(* A request that is over knows nothing. *)
LEMMA IdleOK ==
  ASSUME NEW r \in Requests, TypeOK, Answer(r)
  PROVE  req'[r] = Idle /\ RequestOK(r)' /\ req' \in [Requests -> Request]
  <1>1. req'[r] = Idle BY DEF TypeOK, Answer, Become
  <1>2. Idle \in Request BY DEF Idle, Request, PCs
  <1>3. req' \in [Requests -> Request] BY <1>2 DEF TypeOK, Answer, Become
  <1>4. RequestOK(r)'
    BY <1>1 DEF RequestOK, RegisteringOK, KnownAccountOK, KnownSessionOK, BrowserOK, ClearedOK,
                FreshOK, At, Idle
  <1> QED BY <1>1, <1>3, <1>4

(* Ids that are being inserted stay different when no request begins an insert. *)
LEMMA CommitsKeep ==
  ASSUME IInv, NEW r \in Requests, NEW new, Become(r, new), new.pc # "commit", UNCHANGED users
  PROVE  CommitsOK'
  <1>1. \A q \in Requests : q # r => req'[q] = req[q]
    BY DEF IInv, TypeOK, Become
  <1>2. req'[r].pc # "commit" BY DEF IInv, TypeOK, Become
  <1> QED BY <1>1, <1>2 DEF IInv, CommitsOK, At

-----------------------------------------------------------------------------
(* Steps that move one request and write nothing *)

(* Such a step keeps the invariant, when it keeps what is said of its request. *)
LEMMA MoveKeeps ==
  ASSUME IInv, NEW r \in Requests, NEW new \in Request, Become(r, new),
         UNCHANGED <<users, refreshTokens, cookie, access, history>>,
         ~ At(r, "welcome"), new.pc # "commit", RequestOK(r)'
  PROVE  IInv'
  <1>1. /\ \A q \in Requests : q # r => req'[q] = req[q]
        /\ req'[r] = new /\ req' \in [Requests -> Request]
    BY DEF IInv, TypeOK, Become
  <1>2. TypeOK' BY <1>1 DEF IInv, TypeOK, history
  <1>3. \A q \in Requests : RequestOK(q)'
    BY <1>1, OthersKeep, SameRowsAreMonotone DEF history
  <1>4. CommitsOK' BY CommitsKeep
  <1>5. (RowsOK /\ EndedOK /\ AccessRunsOut)'
    BY DEF IInv, RowsOK, EndedOK, AccessRunsOut, Ended, history
  <1>6. (NoSessionWithoutRow /\ AccountsAreWhole)'
    BY DEF IInv, NoSessionWithoutRow, AccountsAreWhole
  <1>7. LiveSessionsAreHeld'
    BY <1>1 DEF IInv, LiveSessionsAreHeld, Ended, At, history
  <1> QED BY <1>2, <1>3, <1>4, <1>5, <1>6, <1>7 DEF IInv

(* An answer that no browser waits for changes nothing. *)
LEMMA AnswerKeeps ==
  ASSUME IInv, NEW r \in Requests, Answer(r), ~ At(r, "welcome"),
         UNCHANGED <<users, refreshTokens, cookie, access, history>>
  PROVE  IInv'
  <1>1. Idle \in Request /\ Idle.pc # "commit" BY DEF Idle, Request, PCs
  <1>2. RequestOK(r)' BY IdleOK DEF IInv
  <1> QED BY <1>1, <1>2, MoveKeeps DEF Answer

(* A name has been found free. *)
LEMMA RegisterCheckOK ==
  ASSUME IInv, NEW r \in Requests, NEW name \in Names, RegisterCheck(r, name)
  PROVE  IInv'
  <1> DEFINE new == [Idle EXCEPT !.pc = "insert", !.name = name]
  <1>1. new \in Request /\ new.pc = "insert" /\ new.name = name
    BY DEF Idle, Request, PCs
  <1> HIDE DEF new
  <1>2. Become(r, new) /\ ~ At(r, "welcome") BY DEF RegisterCheck, At, new
  <1>3. req'[r] = new BY <1>2 DEF IInv, TypeOK, Become
  <1>4. RequestOK(r)'
    BY <1>1, <1>3 DEF RequestOK, RegisteringOK, KnownAccountOK, KnownSessionOK, BrowserOK,
                      ClearedOK, FreshOK, At
  <1> QED BY <1>1, <1>2, <1>4, MoveKeeps DEF RegisterCheck

(* An account has been found. *)
LEMMA SignInLookOK ==
  ASSUME IInv, NEW r \in Requests, NEW b \in Browsers, NEW a \in Accounts, SignInLook(r, b, a)
  PROVE  IInv'
  <1> DEFINE new == [Idle EXCEPT !.pc = "signin", !.browser = b, !.account = a]
  <1>1. new \in Request /\ new.pc = "signin" /\ new.browser = b /\ new.account = a
    BY DEF Idle, Request, PCs
  <1> HIDE DEF new
  <1>2. Become(r, new) /\ ~ At(r, "welcome") BY DEF SignInLook, At, new
  <1>3. req'[r] = new BY <1>2 DEF IInv, TypeOK, Become
  <1>4. users'[a] # Null BY DEF SignInLook
  <1>5. RequestOK(r)'
    BY <1>1, <1>3, <1>4 DEF RequestOK, RegisteringOK, KnownAccountOK, KnownSessionOK,
                            BrowserOK, ClearedOK, FreshOK, At
  <1> QED BY <1>1, <1>2, <1>5, MoveKeeps DEF SignInLook

(* A cookie names a session that has a row. *)
LEMMA CookieArrivesOK ==
  ASSUME IInv, NEW r \in Requests, NEW b \in Browsers, SignOutArrives(r, b) \/ RefreshArrives(r, b)
  PROVE  IInv'
  <1> SUFFICES ASSUME NEW pc \in {"signout", "refresh"}, At(r, "idle"), cookie[b] # Null,
                      Become(r, [Idle EXCEPT !.pc = pc, !.browser = b, !.session = cookie[b]]),
                      UNCHANGED <<users, refreshTokens, cookie, access, history>>
               PROVE  IInv'
    BY DEF SignOutArrives, RefreshArrives
  <1> DEFINE new == [Idle EXCEPT !.pc = pc, !.browser = b, !.session = cookie[b]]
  <1>1. cookie[b] \in SessionIds /\ refreshTokens[cookie[b]] # Null
    BY DEF IInv, TypeOK, NoSessionWithoutRow
  <1>2. new \in Request /\ new.pc = pc /\ new.browser = b /\ new.session = cookie[b]
    BY <1>1 DEF Idle, Request, PCs
  <1>3. Become(r, new) OBVIOUS
  <1> HIDE DEF new
  <1>4. req'[r] = new BY <1>3 DEF IInv, TypeOK, Become
  <1>5. RequestOK(r)'
    BY <1>1, <1>2, <1>4 DEF RequestOK, RegisteringOK, KnownAccountOK, KnownSessionOK,
                            BrowserOK, ClearedOK, FreshOK, At
  <1> QED BY <1>2, <1>3, <1>5, MoveKeeps DEF At

(* The row of a session has been read. *)
LEMMA RefreshReadOK ==
  ASSUME IInv, NEW r \in Requests, RefreshRead(r)
  PROVE  IInv'
  <1> DEFINE s == req[r].session
             new == [req[r] EXCEPT !.pc = "issue", !.fresh = ~ refreshTokens[s].revoked]
  <1>1. s \in SessionIds /\ refreshTokens[s] # Null
    BY DEF IInv, RequestOK, KnownSessionOK, RefreshRead, At
  <1>2. req[r] \in Request /\ refreshTokens[s].revoked \in BOOLEAN
    BY <1>1 DEF IInv, TypeOK, Session
  <1>3. CASE CanRefresh(s)
    <2>1. Become(r, new) BY <1>3 DEF RefreshRead
    <2>2. new \in Request /\ new.pc = "issue" /\ new.session = s /\ new.fresh
      BY <1>2, <1>3 DEF Request, PCs, CanRefresh
    <2> HIDE DEF new, s
    <2>3. req'[r] = new BY <2>1 DEF IInv, TypeOK, Become
    <2>4. RequestOK(r)'
      BY <1>1, <2>2, <2>3 DEF RefreshRead, RequestOK, RegisteringOK, KnownAccountOK,
                              KnownSessionOK, BrowserOK, ClearedOK, FreshOK, At
    <2> QED BY <2>1, <2>2, <2>4, MoveKeeps DEF RefreshRead, At
  <1>4. CASE ~ CanRefresh(s) BY <1>4, AnswerKeeps DEF RefreshRead, At
  <1> QED BY <1>3, <1>4

(* Whoever has an access token has a row of refresh_tokens and one of users. *)
LEMMA BearerArrivesOK ==
  ASSUME IInv, NEW r \in Requests, NEW s \in SessionIds, BearerArrives(r, s)
  PROVE  IInv'
  <1> DEFINE a == refreshTokens[s].account
             new == [Idle EXCEPT !.pc = "bearer", !.account = a, !.fresh = users[a].active]
  <1>1. refreshTokens[s] \in Session
    BY DEF IInv, TypeOK, NoSessionWithoutRow, BearerArrives
  <1>2. a \in Accounts /\ users[a] \in User /\ users[a] # Null
    <2>1. a \in Accounts BY <1>1 DEF Session
    <2>2. users[a] # Null
      BY <1>1, RowAssumption DEF IInv, RowsOK
    <2> QED BY <2>1, <2>2 DEF IInv, TypeOK
  <1>3. new \in Request /\ new.pc = "bearer" /\ new.account = a /\ new.fresh = users[a].active
    BY <1>2 DEF Idle, Request, PCs, User
  <1>4. Become(r, new) BY DEF BearerArrives
  <1> HIDE DEF new, a
  <1>5. req'[r] = new BY <1>4 DEF IInv, TypeOK, Become
  <1>6. RequestOK(r)'
    BY <1>2, <1>3, <1>5 DEF BearerArrives, RequestOK, RegisteringOK, KnownAccountOK,
                            KnownSessionOK, BrowserOK, ClearedOK, FreshOK, At
  <1> QED BY <1>3, <1>4, <1>6, MoveKeeps DEF BearerArrives, At

(* An account has been found active, or the request is refused. *)
LEMMA BearerLoadOK ==
  ASSUME IInv, NEW r \in Requests, BearerLoad(r)
  PROVE  IInv'
  <1>1. CASE MayEnter(req[r].account)
    <2> DEFINE new == [req[r] EXCEPT !.pc = "serving"]
    <2>1. GoTo(r, "serving") /\ Become(r, new) BY <1>1 DEF BearerLoad, GoTo
    <2>2. req[r].fresh BY <1>1 DEF IInv, RequestOK, FreshOK, BearerLoad, MayEnter
    <2>3. req[r] \in Request BY DEF IInv, TypeOK
    <2>4. new \in Request /\ new.pc = "serving" /\ new.fresh
      BY <2>2, <2>3 DEF Request, PCs
    <2> HIDE DEF new
    <2>5. req'[r] = new BY <2>1 DEF IInv, TypeOK, Become
    <2>6. RequestOK(r)'
      BY <2>4, <2>5 DEF RequestOK, RegisteringOK, KnownAccountOK, KnownSessionOK, BrowserOK,
                        ClearedOK, FreshOK, At
    <2> QED BY <2>1, <2>4, <2>6, MoveKeeps DEF BearerLoad, At
  <1>2. CASE ~ MayEnter(req[r].account) BY <1>2, AnswerKeeps DEF BearerLoad, At
  <1> QED BY <1>1, <1>2

-----------------------------------------------------------------------------
(* Register: the insert and the commit *)

(* The account is written in the transaction, and not there yet for others. *)
LEMMA RegisterInsertOK ==
  ASSUME IInv, NEW r \in Requests, NEW a \in Accounts, RegisterInsert(r, a)
  PROVE  IInv'
  <1> DEFINE new == [req[r] EXCEPT !.pc = "commit", !.account = a]
  <1>1. req[r] \in Request /\ req[r].name \in Names
    BY DEF IInv, TypeOK, RequestOK, RegisteringOK, RegisterInsert
  <1>2. new \in Request /\ new.pc = "commit" /\ new.account = a /\ new.name \in Names
    BY <1>1 DEF Request, PCs
  <1>3. Become(r, new) /\ UNCHANGED <<users, refreshTokens, cookie, access, history>>
    BY DEF RegisterInsert, InsertUser
  <1> HIDE DEF new
  <1>4. /\ \A q \in Requests : q # r => req'[q] = req[q]
        /\ req'[r] = new /\ req' \in [Requests -> Request]
    BY <1>2, <1>3 DEF IInv, TypeOK, Become
  <1>5. TypeOK' BY <1>3, <1>4 DEF IInv, TypeOK, history
  <1>6. RequestOK(r)'
    BY <1>2, <1>4 DEF RequestOK, RegisteringOK, KnownAccountOK, KnownSessionOK, BrowserOK,
                      ClearedOK, FreshOK, At
  <1>7. \A q \in Requests : RequestOK(q)'
    BY <1>3, <1>4, <1>6, OthersKeep, SameRowsAreMonotone DEF history
  <1>8. CommitsOK'
    <2>1. users[a] = Null /\ \A q \in Requests : req[q].account # a
      BY DEF RegisterInsert, NewAccount
    <2> QED BY <1>2, <1>3, <1>4, <2>1 DEF IInv, CommitsOK, At
  <1>9. (RowsOK /\ EndedOK /\ AccessRunsOut)'
    BY <1>3 DEF IInv, RowsOK, EndedOK, AccessRunsOut, Ended, history
  <1>10. (NoSessionWithoutRow /\ AccountsAreWhole)'
    BY <1>3 DEF IInv, NoSessionWithoutRow, AccountsAreWhole
  <1>11. LiveSessionsAreHeld'
    BY <1>3, <1>4 DEF RegisterInsert, IInv, LiveSessionsAreHeld, Ended, At, history
  <1> QED BY <1>5, <1>7, <1>8, <1>9, <1>10, <1>11 DEF IInv

(* A user appears together with the row of user_auth. *)
LEMMA RegisterCommitOK ==
  ASSUME IInv, NEW r \in Requests, RegisterCommit(r)
  PROVE  IInv'
  <1> DEFINE a   == req[r].account
             row == [name |-> req[r].name, auth |-> TRUE, active |-> TRUE]
  <1>1. a \in Accounts /\ req[r].name \in Names /\ At(r, "commit")
    BY DEF IInv, RequestOK, RegisteringOK, RegisterCommit
  <1>2. row \in User /\ row # Null /\ row.auth
    <2>1. row \in User /\ row.auth BY <1>1 DEF User
    <2> QED BY <2>1, RowAssumption
  <1>3. users' = [users EXCEPT ![a] = row] BY DEF RegisterCommit
  <1>4. users[a] = Null BY <1>1 DEF IInv, CommitsOK
  <1> HIDE DEF row
  <1>5. /\ users' \in [Accounts -> User \cup {Null}]
        /\ users'[a] = row /\ \A c \in Accounts : c # a => users'[c] = users[c]
    BY <1>1, <1>2, <1>3 DEF IInv, TypeOK
  <1>6. Monotone
    BY <1>4, <1>5 DEF Monotone, RegisterCommit, history, Ended
  <1>7. /\ \A q \in Requests : q # r => req'[q] = req[q]
        /\ req'[r] = Idle /\ req' \in [Requests -> Request] /\ RequestOK(r)'
    BY IdleOK DEF IInv, TypeOK, RegisterCommit, Answer, Become
  <1>8. TypeOK' BY <1>5, <1>7 DEF RegisterCommit, IInv, TypeOK, history
  <1>9. \A q \in Requests : RequestOK(q)' BY <1>6, <1>7, OthersKeep
  <1>10. CommitsOK'
    <2>1. \A q \in Requests : At(q, "commit")' => q # r /\ At(q, "commit")
      BY <1>7 DEF At, Idle
    <2>2. \A q \in Requests : At(q, "commit")' => req[q].account # a /\ req[q].account \in Accounts
      BY <1>1, <2>1 DEF IInv, CommitsOK, RequestOK, RegisteringOK
    <2>3. \A q \in Requests : At(q, "commit")' => users'[req'[q].account] = Null
      BY <1>5, <1>7, <2>1, <2>2 DEF IInv, CommitsOK
    <2>4. \A q, p \in Requests : At(q, "commit")' /\ At(p, "commit")' /\ p # q
                                   => req'[p].account # req'[q].account
      BY <1>7, <2>1 DEF IInv, CommitsOK
    <2> QED BY <2>3, <2>4 DEF CommitsOK
  <1>11. (RowsOK /\ EndedOK /\ AccessRunsOut)'
    <2>1. RowsOK'
      <3> SUFFICES ASSUME NEW s \in SessionIds, refreshTokens[s] # Null
                   PROVE  users'[refreshTokens[s].account] # Null
        BY DEF RowsOK, RegisterCommit
      <3>1. users[refreshTokens[s].account] # Null /\ refreshTokens[s].account \in Accounts
        BY DEF IInv, TypeOK, RowsOK, Session
      <3> QED BY <1>6, <3>1 DEF Monotone
    <2> QED BY <2>1 DEF RegisterCommit, IInv, EndedOK, AccessRunsOut, Ended, history
  <1>12. NoSessionWithoutRow' BY DEF RegisterCommit, IInv, NoSessionWithoutRow
  <1>13. AccountsAreWhole' BY <1>2, <1>5 DEF IInv, AccountsAreWhole
  <1>14. LiveSessionsAreHeld'
    BY <1>1, <1>7 DEF RegisterCommit, IInv, LiveSessionsAreHeld, Ended, At, history
  <1> QED BY <1>8, <1>9, <1>10, <1>11, <1>12, <1>13, <1>14 DEF IInv

-----------------------------------------------------------------------------
(* SignIn: the new row *)

(* The row of a new session, whatever becomes of the answer. *)
LEMMA StoreRow ==
  ASSUME IInv, NEW r \in Requests, At(r, "signin"), NEW s \in SessionIds, NewSession(s),
         refreshTokens' = [refreshTokens EXCEPT ![s] = NewRow(req[r].account)],
         UNCHANGED <<users, cookie, endedFor, straggled>>,
         abandoned \subseteq abandoned'
  PROVE  /\ refreshTokens' \in [SessionIds -> Session \cup {Null}]
         /\ refreshTokens'[s] \in Session /\ refreshTokens'[s] # Null
         /\ \A c \in SessionIds : c # s => refreshTokens'[c] = refreshTokens[c]
         /\ refreshTokens[s] = Null /\ access[s] = {} /\ endedFor[s] = 0
         /\ Monotone /\ RowsOK' /\ EndedOK'
  <1> DEFINE row == NewRow(req[r].account)
  <1>1. req[r].account \in Accounts /\ users[req[r].account] # Null
    BY DEF IInv, RequestOK, KnownAccountOK
  <1>2. /\ row \in Session /\ row # Null
        /\ row.account = req[r].account
    <2>1. row \in Session /\ row.account = req[r].account
      BY <1>1, SessionAssumption DEF NewRow, Session
    <2> QED BY <1>1, <2>1, RowAssumption
  <1>3. refreshTokens' = [refreshTokens EXCEPT ![s] = row] OBVIOUS
  <1> HIDE DEF row
  <1>4. /\ refreshTokens' \in [SessionIds -> Session \cup {Null}]
        /\ refreshTokens'[s] = row
        /\ \A c \in SessionIds : c # s => refreshTokens'[c] = refreshTokens[c]
    BY <1>2, <1>3 DEF IInv, TypeOK
  <1>5. refreshTokens[s] = Null BY DEF NewSession
  <1>6. access[s] = {} BY <1>5 DEF IInv, NoSessionWithoutRow
  <1>7. endedFor[s] = 0
    <2>1. endedFor[s] \in Nat BY SessionAssumption DEF IInv, TypeOK
    <2> QED BY <1>5, <2>1 DEF IInv, EndedOK
  <1>8. Monotone BY <1>4, <1>5 DEF Monotone, Ended
  <1>9. RowsOK' BY <1>1, <1>2, <1>4 DEF IInv, RowsOK
  <1>10. EndedOK'
    <2> SUFFICES ASSUME NEW c \in SessionIds, endedFor[c] > 0
                 PROVE  refreshTokens'[c] # Null /\ Ended(c)'
      BY DEF EndedOK
    <2>1. c # s BY <1>7
    <2> QED BY <1>4, <2>1 DEF IInv, EndedOK, Ended
  <1> QED BY <1>2, <1>4, <1>5, <1>6, <1>7, <1>8, <1>9, <1>10

(* A session begins, on its way to its browser. *)
LEMMA SignInStoreOK ==
  ASSUME IInv, NEW r \in Requests, NEW s \in SessionIds, SignInStore(r, s)
  PROVE  IInv'
  <1> DEFINE new == [req[r] EXCEPT !.pc = "welcome", !.session = s]
  <1>1. /\ At(r, "signin") /\ NewSession(s)
        /\ refreshTokens' = [refreshTokens EXCEPT ![s] = NewRow(req[r].account)]
        /\ UNCHANGED <<users, cookie, endedFor, straggled, abandoned>>
        /\ Become(r, new) /\ access' = [access EXCEPT ![s] = @ \cup {AccessTTL}]
    BY DEF SignInStore, history, Grant
  <1>2. /\ refreshTokens' \in [SessionIds -> Session \cup {Null}]
        /\ refreshTokens'[s] # Null
        /\ \A c \in SessionIds : c # s => refreshTokens'[c] = refreshTokens[c]
        /\ access[s] = {} /\ endedFor[s] = 0
        /\ Monotone /\ RowsOK' /\ EndedOK'
    BY <1>1, StoreRow
  <1>3. req[r] \in Request /\ req[r].browser \in Browsers
    BY <1>1 DEF IInv, TypeOK, RequestOK, BrowserOK, At
  <1>4. new \in Request /\ new.pc = "welcome" /\ new.session = s /\ new.browser \in Browsers
    BY <1>3 DEF Request, PCs
  <1> HIDE DEF new
  <1>5. /\ \A q \in Requests : q # r => req'[q] = req[q]
        /\ req'[r] = new /\ req' \in [Requests -> Request]
    BY <1>1, <1>4 DEF IInv, TypeOK, Become
  <1>6. /\ access' \in [SessionIds -> SUBSET (1 .. AccessTTL)]
        /\ access'[s] = {AccessTTL} /\ \A c \in SessionIds : c # s => access'[c] = access[c]
    <2>1. access \in [SessionIds -> SUBSET (1 .. AccessTTL)] BY DEF IInv, TypeOK
    <2>2. AccessTTL \in 1 .. AccessTTL BY SessionAssumption
    <2> QED BY <1>1, <1>2, <2>1, <2>2
  <1>7. TypeOK' BY <1>1, <1>2, <1>5, <1>6 DEF IInv, TypeOK
  <1>8. RequestOK(r)'
    BY <1>2, <1>4, <1>5 DEF RequestOK, RegisteringOK, KnownAccountOK, KnownSessionOK, BrowserOK,
                            ClearedOK, FreshOK, At
  <1>9. \A q \in Requests : RequestOK(q)' BY <1>2, <1>5, <1>8, OthersKeep
  <1>10. CommitsOK' BY <1>1, <1>4, CommitsKeep
  <1>11. NoSessionWithoutRow'
    BY <1>1, <1>2, <1>6 DEF IInv, TypeOK, NoSessionWithoutRow
  <1>12. AccountsAreWhole' BY <1>1 DEF IInv, AccountsAreWhole
  <1>13. AccessRunsOut'
    BY <1>1, <1>2, <1>6, SessionAssumption DEF IInv, AccessRunsOut
  <1>14. LiveSessionsAreHeld'
    BY <1>1, <1>2, <1>4, <1>5 DEF IInv, LiveSessionsAreHeld, Ended, At
  <1> QED BY <1>2, <1>7, <1>9, <1>10, <1>11, <1>12, <1>13, <1>14 DEF IInv

(* A session begins that counts as abandoned from the start. *)
LEMMA SignInLostOK ==
  ASSUME IInv, NEW r \in Requests, NEW s \in SessionIds, SignInLost(r, s)
  PROVE  IInv'
  <1>1. /\ At(r, "signin") /\ NewSession(s)
        /\ refreshTokens' = [refreshTokens EXCEPT ![s] = NewRow(req[r].account)]
        /\ UNCHANGED <<users, cookie, access, endedFor, straggled>>
        /\ abandoned' = abandoned \cup {s} /\ Answer(r)
    BY DEF SignInLost
  <1>2. /\ refreshTokens' \in [SessionIds -> Session \cup {Null}]
        /\ refreshTokens'[s] # Null
        /\ \A c \in SessionIds : c # s => refreshTokens'[c] = refreshTokens[c]
        /\ access[s] = {} /\ endedFor[s] = 0
        /\ Monotone /\ RowsOK' /\ EndedOK'
    BY <1>1, StoreRow
  <1>3. /\ \A q \in Requests : q # r => req'[q] = req[q]
        /\ req'[r] = Idle /\ req' \in [Requests -> Request] /\ RequestOK(r)'
    BY <1>1, IdleOK DEF IInv, TypeOK, Answer, Become
  <1>4. TypeOK' BY <1>1, <1>2, <1>3 DEF IInv, TypeOK
  <1>5. \A q \in Requests : RequestOK(q)' BY <1>2, <1>3, OthersKeep
  <1>6. CommitsOK' BY <1>1, CommitsKeep DEF Answer, Idle
  <1>7. NoSessionWithoutRow' BY <1>1, <1>2 DEF IInv, TypeOK, NoSessionWithoutRow
  <1>8. AccountsAreWhole' BY <1>1 DEF IInv, AccountsAreWhole
  <1>9. AccessRunsOut' BY <1>1 DEF IInv, AccessRunsOut
  <1>10. LiveSessionsAreHeld'
    BY <1>1, <1>2, <1>3 DEF IInv, LiveSessionsAreHeld, Ended, At
  <1> QED BY <1>2, <1>4, <1>5, <1>6, <1>7, <1>8, <1>9, <1>10 DEF IInv

-----------------------------------------------------------------------------
(* Answers that change a cookie, and answers that are lost *)

(* An answer that gives a cookie another session keeps what the rows say, if the
   sessions that lose their holder are abandoned or have ended. *)
LEMMA CookieAnswer ==
  ASSUME IInv, NEW r \in Requests, Answer(r),
         UNCHANGED <<users, refreshTokens, access, endedFor, straggled>>,
         cookie' \in [Browsers -> SessionIds \cup {Null}],
         \A b \in Browsers : cookie'[b] # Null => refreshTokens[cookie'[b]] # Null,
         abandoned \subseteq abandoned', abandoned' \subseteq SessionIds,
         LiveSessionsAreHeld'
  PROVE  IInv'
  <1>1. /\ \A q \in Requests : q # r => req'[q] = req[q]
        /\ req' \in [Requests -> Request] /\ RequestOK(r)'
    BY IdleOK DEF IInv, TypeOK, Answer, Become
  <1>2. TypeOK' BY <1>1 DEF IInv, TypeOK
  <1>3. \A q \in Requests : RequestOK(q)'
    BY <1>1, OthersKeep, SameRowsAreMonotone
  <1>4. CommitsOK' BY CommitsKeep DEF Answer, Idle
  <1>5. (RowsOK /\ EndedOK /\ AccessRunsOut)'
    BY DEF IInv, RowsOK, EndedOK, AccessRunsOut, Ended
  <1>6. (NoSessionWithoutRow /\ AccountsAreWhole)'
    BY DEF IInv, NoSessionWithoutRow, AccountsAreWhole
  <1> QED BY <1>2, <1>3, <1>4, <1>5, <1>6 DEF IInv

(* The new session is in the cookie; the one that it replaces counts as abandoned. *)
LEMMA WelcomeOK ==
  ASSUME IInv, NEW r \in Requests, Welcome(r)
  PROVE  IInv'
  <1> DEFINE b == req[r].browser
             s == req[r].session
  <1>1. b \in Browsers /\ s \in SessionIds /\ refreshTokens[s] # Null
    BY DEF IInv, RequestOK, BrowserOK, KnownSessionOK, Welcome, At
  <1>2. /\ cookie' = [cookie EXCEPT ![b] = s]
        /\ abandoned' = abandoned \cup ({cookie[b]} \ {Null})
        /\ Answer(r) /\ UNCHANGED <<users, refreshTokens, access, endedFor, straggled>>
    BY DEF Welcome
  <1>3. At(r, "welcome") BY DEF Welcome
  <1>4. req'[r] = Idle /\ \A q \in Requests : q # r => req'[q] = req[q]
    BY <1>2 DEF IInv, TypeOK, Answer, Become
  <1>5. /\ cookie \in [Browsers -> SessionIds \cup {Null}] /\ abandoned \subseteq SessionIds
        /\ \A c \in Browsers : cookie[c] # Null => refreshTokens[cookie[c]] # Null
    BY DEF IInv, TypeOK, NoSessionWithoutRow
  <1>6. \A q \in Requests : At(q, "welcome") /\ q # r => At(q, "welcome")' /\ req'[q] = req[q]
    BY <1>4 DEF At
  <1>7. LiveSessionsAreHeld'
    <2> SUFFICES ASSUME NEW c \in SessionIds, c \notin abandoned',
                        refreshTokens[c] # Null, ~ Ended(c)
                 PROVE  \/ \E d \in Browsers : cookie'[d] = c
                        \/ \E q \in Requests : At(q, "welcome")' /\ req'[q].session = c
      BY <1>2 DEF LiveSessionsAreHeld, Ended
    <2>1. \/ \E d \in Browsers : cookie[d] = c
          \/ \E q \in Requests : At(q, "welcome") /\ req[q].session = c
      BY <1>2 DEF IInv, LiveSessionsAreHeld
    <2>2. CASE \E d \in Browsers : cookie[d] = c
      <3>1. PICK d \in Browsers : cookie[d] = c BY <2>2
      <3>2. d # b
        <4>1. c # Null BY SessionAssumption
        <4> QED BY <1>2, <3>1, <4>1
      <3> QED BY <1>1, <1>2, <1>5, <3>1, <3>2
    <2>3. CASE \E q \in Requests : At(q, "welcome") /\ req[q].session = c
      <3>1. PICK q \in Requests : At(q, "welcome") /\ req[q].session = c BY <2>3
      <3>2. CASE q = r
        <4>1. cookie'[b] = c BY <1>1, <1>2, <1>5, <3>1, <3>2
        <4> QED BY <1>1, <4>1
      <3>3. CASE q # r BY <1>6, <3>1, <3>3
      <3> QED BY <3>2, <3>3
    <2> QED BY <2>1, <2>2, <2>3
  <1>8. cookie' \in [Browsers -> SessionIds \cup {Null}] BY <1>1, <1>2, <1>5
  <1>9. \A c \in Browsers : cookie'[c] # Null => refreshTokens[cookie'[c]] # Null
    BY <1>1, <1>2, <1>5
  <1>10. abandoned \subseteq abandoned' /\ abandoned' \subseteq SessionIds
    BY <1>1, <1>2, <1>5
  <1> QED BY <1>2, <1>7, <1>8, <1>9, <1>10, CookieAnswer

(* The cookie is cleared; the session of the sign-out has ended or was abandoned, and
   any other that the cookie held is now. *)
LEMMA ClearedStepOK ==
  ASSUME IInv, NEW r \in Requests, Cleared(r)
  PROVE  IInv'
  <1> DEFINE b == req[r].browser
             s == req[r].session
  <1>1. b \in Browsers /\ s \in SessionIds /\ (Ended(s) \/ s \in abandoned)
    BY DEF IInv, RequestOK, BrowserOK, KnownSessionOK, ClearedOK, Cleared, At
  <1>2. /\ cookie' = [cookie EXCEPT ![b] = Null]
        /\ abandoned' = abandoned \cup ({cookie[b]} \ {Null, s})
        /\ Answer(r) /\ UNCHANGED <<users, refreshTokens, access, endedFor, straggled>>
    BY DEF Cleared
  <1>3. ~ At(r, "welcome") BY DEF Cleared, At
  <1>4. req'[r] = Idle /\ \A q \in Requests : q # r => req'[q] = req[q]
    BY <1>2 DEF IInv, TypeOK, Answer, Become
  <1>5. /\ cookie \in [Browsers -> SessionIds \cup {Null}] /\ abandoned \subseteq SessionIds
        /\ \A c \in Browsers : cookie[c] # Null => refreshTokens[cookie[c]] # Null
    BY DEF IInv, TypeOK, NoSessionWithoutRow
  <1>6. \A q \in Requests : At(q, "welcome") => At(q, "welcome")' /\ req'[q] = req[q]
    BY <1>3, <1>4 DEF At
  <1>7. LiveSessionsAreHeld'
    <2> SUFFICES ASSUME NEW c \in SessionIds, c \notin abandoned',
                        refreshTokens[c] # Null, ~ Ended(c)
                 PROVE  \/ \E d \in Browsers : cookie'[d] = c
                        \/ \E q \in Requests : At(q, "welcome")' /\ req'[q].session = c
      BY <1>2 DEF LiveSessionsAreHeld, Ended
    <2>1. \/ \E d \in Browsers : cookie[d] = c
          \/ \E q \in Requests : At(q, "welcome") /\ req[q].session = c
      BY <1>2 DEF IInv, LiveSessionsAreHeld
    <2>2. c # s /\ c # Null
      <3>1. c # s BY <1>1, <1>2
      <3>2. c # Null BY SessionAssumption
      <3> QED BY <3>1, <3>2
    <2>3. ASSUME NEW d \in Browsers, cookie[d] = c PROVE cookie'[d] = c
      <3>1. d # b BY <1>2, <2>2, <2>3
      <3> QED BY <1>1, <1>2, <1>5, <2>3, <3>1
    <2> QED BY <1>6, <2>1, <2>3
  <1>8. cookie' \in [Browsers -> SessionIds \cup {Null}] BY <1>1, <1>2, <1>5
  <1>9. \A c \in Browsers : cookie'[c] # Null => refreshTokens[cookie'[c]] # Null
    BY <1>1, <1>2, <1>5
  <1>10. abandoned \subseteq abandoned' /\ abandoned' \subseteq SessionIds
    BY <1>1, <1>2, <1>5
  <1> QED BY <1>2, <1>7, <1>8, <1>9, <1>10, CookieAnswer

(* A request that is lost takes with it at most the session on its way to the browser. *)
LEMMA LostOK ==
  ASSUME IInv, NEW r \in Requests, Lost(r)
  PROVE  IInv'
  <1>1. /\ abandoned' = abandoned \cup (IF At(r, "welcome") THEN {req[r].session} ELSE {})
        /\ Answer(r)
        /\ UNCHANGED <<users, refreshTokens, cookie, access, endedFor, straggled>>
    BY DEF Lost
  <1>2. At(r, "welcome") => req[r].session \in SessionIds
    BY DEF IInv, RequestOK, KnownSessionOK, At
  <1>3. \A q \in Requests : q # r => req'[q] = req[q]
    BY <1>1 DEF IInv, TypeOK, Answer, Become
  <1>4. /\ cookie \in [Browsers -> SessionIds \cup {Null}] /\ abandoned \subseteq SessionIds
        /\ \A c \in Browsers : cookie[c] # Null => refreshTokens[cookie[c]] # Null
    BY DEF IInv, TypeOK, NoSessionWithoutRow
  <1>5. LiveSessionsAreHeld'
    BY <1>1, <1>3 DEF IInv, LiveSessionsAreHeld, Ended, At
  <1>6. abandoned \subseteq abandoned' /\ abandoned' \subseteq SessionIds
    BY <1>1, <1>2, <1>4
  <1> QED BY <1>1, <1>4, <1>5, <1>6, CookieAnswer

-----------------------------------------------------------------------------
(* SignOut: the revocation *)

(* After the UPDATE, or after its failure, the session has ended or is abandoned. *)
LEMMA GoToCleared ==
  ASSUME IInv, NEW r \in Requests, At(r, "signout"), GoTo(r, "cleared"),
         Monotone, UNCHANGED users,
         NEW s \in SessionIds, s = req[r].session, Ended(s)' \/ s \in abandoned'
  PROVE  /\ \A q \in Requests : q # r => req'[q] = req[q]
         /\ req'[r].pc = "cleared" /\ req' \in [Requests -> Request]
         /\ \A q \in Requests : RequestOK(q)'
         /\ CommitsOK'
  <1> DEFINE new == [req[r] EXCEPT !.pc = "cleared"]
  <1>1. /\ req[r] \in Request /\ req[r].browser \in Browsers
        /\ refreshTokens[s] # Null
    BY DEF IInv, TypeOK, RequestOK, KnownSessionOK, BrowserOK, At
  <1>2. new \in Request /\ new.pc = "cleared" /\ new.session = s /\ new.browser \in Browsers
    BY <1>1 DEF Request, PCs
  <1>3. Become(r, new) BY DEF GoTo
  <1> HIDE DEF new
  <1>4. /\ \A q \in Requests : q # r => req'[q] = req[q]
        /\ req'[r] = new /\ req' \in [Requests -> Request]
    BY <1>2, <1>3 DEF IInv, TypeOK, Become
  <1>5. Ended(s)' \/ s \in abandoned' OBVIOUS
  <1>6. refreshTokens'[s] # Null BY <1>1 DEF Monotone
  <1>7. RegisteringOK(r)' /\ KnownAccountOK(r)' /\ BrowserOK(r)' /\ FreshOK(r)'
    BY <1>2, <1>4 DEF RegisteringOK, KnownAccountOK, BrowserOK, FreshOK, At
  <1>8. KnownSessionOK(r)' BY <1>1, <1>2, <1>4, <1>6 DEF KnownSessionOK
  <1>9. ClearedOK(r)' BY <1>2, <1>4, <1>5 DEF ClearedOK, Ended
  <1>10. \A q \in Requests : RequestOK(q)'
    BY <1>4, <1>7, <1>8, <1>9, OthersKeep DEF RequestOK
  <1>11. CommitsOK' BY <1>2, <1>3, CommitsKeep
  <1> QED BY <1>2, <1>4, <1>10, <1>11

(* A session is revoked. *)
LEMMA SignOutRevokeOK ==
  ASSUME IInv, NEW r \in Requests, SignOutRevoke(r)
  PROVE  IInv'
  <1>1. PICK s \in SessionIds : s = req[r].session /\ refreshTokens[s] # Null
    BY DEF IInv, RequestOK, KnownSessionOK, SignOutRevoke, At
  <1> DEFINE row == [refreshTokens[s] EXCEPT !.revoked = TRUE]
  <1>2. refreshTokens[s] \in Session /\ refreshTokens \in [SessionIds -> Session \cup {Null}]
    BY <1>1 DEF IInv, TypeOK
  <1>3. row \in Session /\ row.revoked /\ row.account = refreshTokens[s].account
    BY <1>2 DEF Session
  <1>4. row # Null BY <1>3, RowAssumption
  <1>5. /\ refreshTokens' = [refreshTokens EXCEPT ![s] = row]
        /\ At(r, "signout") /\ GoTo(r, "cleared")
        /\ UNCHANGED <<users, cookie, access, endedFor, straggled, abandoned>>
    BY <1>1, <1>2 DEF SignOutRevoke, Revoked, history
  <1> HIDE DEF row
  <1>6. /\ refreshTokens' \in [SessionIds -> Session \cup {Null}]
        /\ refreshTokens'[s] = row
        /\ \A c \in SessionIds : c # s => refreshTokens'[c] = refreshTokens[c]
    BY <1>1, <1>2, <1>3, <1>5
  <1>7. \A c \in SessionIds : refreshTokens'[c] # Null <=> refreshTokens[c] # Null
    BY <1>1, <1>4, <1>6
  <1>8. Ended(s)' BY <1>3, <1>6 DEF Ended
  <1>9. Monotone
    <2>1. \A c \in SessionIds : Ended(c) => Ended(c)' BY <1>6, <1>8 DEF Ended
    <2> QED BY <1>5, <1>7, <2>1 DEF Monotone
  <1>10. /\ \A q \in Requests : q # r => req'[q] = req[q]
         /\ req'[r].pc = "cleared" /\ req' \in [Requests -> Request]
         /\ \A q \in Requests : RequestOK(q)'
         /\ CommitsOK'
    BY <1>1, <1>5, <1>8, <1>9, GoToCleared
  <1>11. TypeOK' BY <1>5, <1>6, <1>10 DEF IInv, TypeOK
  <1>12. RowsOK' BY <1>1, <1>3, <1>5, <1>6 DEF IInv, RowsOK
  <1>13. EndedOK' BY <1>5, <1>9 DEF IInv, EndedOK, Monotone
  <1>14. NoSessionWithoutRow'
    BY <1>5, <1>7 DEF IInv, TypeOK, NoSessionWithoutRow
  <1>15. AccountsAreWhole' /\ AccessRunsOut' BY <1>5 DEF IInv, AccountsAreWhole, AccessRunsOut
  <1>16. LiveSessionsAreHeld'
    <2> SUFFICES ASSUME NEW c \in SessionIds \ abandoned, refreshTokens'[c] # Null, ~ Ended(c)'
                 PROVE  \/ \E b \in Browsers : cookie[b] = c
                        \/ \E q \in Requests : At(q, "welcome")' /\ req'[q].session = c
      BY <1>5 DEF LiveSessionsAreHeld
    <2>1. refreshTokens[c] # Null /\ ~ Ended(c) BY <1>7, <1>9 DEF Monotone
    <2>2. \/ \E b \in Browsers : cookie[b] = c
          \/ \E q \in Requests : At(q, "welcome") /\ req[q].session = c
      BY <2>1 DEF IInv, LiveSessionsAreHeld
    <2> QED BY <1>5, <1>10, <2>2 DEF At
  <1> QED BY <1>10, <1>11, <1>12, <1>13, <1>14, <1>15, <1>16 DEF IInv

(* A session that could not be revoked counts as abandoned. *)
LEMMA SignOutFailsOK ==
  ASSUME IInv, NEW r \in Requests, SignOutFails(r)
  PROVE  IInv'
  <1>1. PICK s \in SessionIds : s = req[r].session
    BY DEF IInv, RequestOK, KnownSessionOK, SignOutFails, At
  <1>2. /\ At(r, "signout") /\ GoTo(r, "cleared") /\ abandoned' = abandoned \cup {s}
        /\ UNCHANGED <<users, refreshTokens, cookie, access, endedFor, straggled>>
    BY <1>1 DEF SignOutFails
  <1>3. Monotone BY <1>2, SameRowsAreMonotone
  <1>4. /\ \A q \in Requests : q # r => req'[q] = req[q]
        /\ req'[r].pc = "cleared" /\ req' \in [Requests -> Request]
        /\ \A q \in Requests : RequestOK(q)'
        /\ CommitsOK'
    BY <1>1, <1>2, <1>3, GoToCleared
  <1>5. TypeOK' BY <1>1, <1>2, <1>4 DEF IInv, TypeOK
  <1>6. (RowsOK /\ EndedOK /\ AccessRunsOut)'
    BY <1>2 DEF IInv, RowsOK, EndedOK, AccessRunsOut, Ended
  <1>7. (NoSessionWithoutRow /\ AccountsAreWhole)'
    BY <1>2 DEF IInv, NoSessionWithoutRow, AccountsAreWhole
  <1>8. LiveSessionsAreHeld'
    BY <1>2, <1>4 DEF IInv, LiveSessionsAreHeld, Ended, At
  <1> QED BY <1>4, <1>5, <1>6, <1>7, <1>8 DEF IInv

-----------------------------------------------------------------------------
(* RefreshToken: the new access token *)

(* The token is issued to a session that was live when it was read. *)
LEMMA RefreshIssueOK ==
  ASSUME IInv, NEW r \in Requests, RefreshIssue(r)
  PROVE  IInv'
  <1> DEFINE s == req[r].session
  <1>1. s \in SessionIds /\ refreshTokens[s] # Null /\ req[r].fresh /\ ~ At(r, "welcome")
    BY DEF IInv, RequestOK, KnownSessionOK, FreshOK, RefreshIssue, At
  <1>2. CASE refreshTokens[s].left = 0
    BY <1>1, <1>2, AnswerKeeps DEF RefreshIssue, history
  <1>3. CASE refreshTokens[s].left # 0
    <2>1. /\ access' = [access EXCEPT ![s] = @ \cup {AccessTTL}]
          /\ straggled' = straggled \cup (IF Ended(s) THEN {s} ELSE {})
          /\ Answer(r)
          /\ UNCHANGED <<users, refreshTokens, cookie, endedFor, abandoned>>
      BY <1>1, <1>3 DEF RefreshIssue, Grant
    <2>2. /\ access \in [SessionIds -> SUBSET (1 .. AccessTTL)] /\ straggled \subseteq SessionIds
          /\ endedFor \in [SessionIds -> 0 .. AccessTTL]
      BY DEF IInv, TypeOK
    <2>3. AccessTTL \in 1 .. AccessTTL /\ AccessTTL \in Nat BY SessionAssumption
    <2>4. /\ access' \in [SessionIds -> SUBSET (1 .. AccessTTL)]
          /\ access'[s] = access[s] \cup {AccessTTL}
          /\ \A c \in SessionIds : c # s => access'[c] = access[c]
      BY <1>1, <2>1, <2>2, <2>3
    <2>5. straggled' \subseteq SessionIds BY <1>1, <2>1, <2>2
    <2>6. /\ \A q \in Requests : q # r => req'[q] = req[q]
          /\ req'[r] = Idle /\ req' \in [Requests -> Request] /\ RequestOK(r)'
      BY <2>1, IdleOK DEF IInv, TypeOK, Answer, Become
    <2>7. TypeOK' BY <2>1, <2>4, <2>5, <2>6 DEF IInv, TypeOK
    <2>8. \A q \in Requests : RequestOK(q)'
      BY <2>1, <2>6, OthersKeep, SameRowsAreMonotone
    <2>9. CommitsOK' BY <2>1, CommitsKeep DEF Answer, Idle
    <2>10. (RowsOK /\ EndedOK)' BY <2>1 DEF IInv, RowsOK, EndedOK, Ended
    <2>11. NoSessionWithoutRow' BY <1>1, <2>1, <2>4 DEF IInv, NoSessionWithoutRow
    <2>12. AccountsAreWhole' BY <2>1 DEF IInv, AccountsAreWhole
    <2>13. AccessRunsOut'
      <3> SUFFICES ASSUME NEW c \in SessionIds, c \notin straggled', NEW n \in access'[c]
                   PROVE  n + endedFor[c] <= AccessTTL
        BY <2>1 DEF AccessRunsOut
      <3>1. c \notin straggled BY <2>1
      <3>2. CASE n \in access[c] BY <3>1, <3>2 DEF IInv, AccessRunsOut
      <3>3. CASE n \notin access[c]
        <4>1. c = s /\ n = AccessTTL BY <2>4, <3>3
        <4>2. ~ Ended(s) BY <2>1, <4>1
        <4>3. endedFor[s] = 0
          <5>1. ~ (endedFor[s] > 0) BY <1>1, <4>2 DEF IInv, EndedOK
          <5> QED BY <1>1, <2>2, <2>3, <5>1
        <4> QED BY <2>3, <4>1, <4>3
      <3> QED BY <3>2, <3>3
    <2>14. LiveSessionsAreHeld'
      BY <1>1, <2>1, <2>6 DEF IInv, LiveSessionsAreHeld, Ended, At
    <2> QED BY <2>7, <2>8, <2>9, <2>10, <2>11, <2>12, <2>13, <2>14 DEF IInv
  <1> QED BY <1>2, <1>3

-----------------------------------------------------------------------------
(* The environment: no request moves *)

(* What is said of the requests stays true. *)
LEMMA EnvironmentMoves ==
  ASSUME IInv, Monotone, UNCHANGED req,
         \A a \in Accounts : users'[a] = Null <=> users[a] = Null
  PROVE  (\A q \in Requests : RequestOK(q)') /\ CommitsOK'
  <1>1. \A q \in Requests : RequestOK(q)' BY OthersKeep
  <1>2. CommitsOK'
    BY DEF IInv, CommitsOK, RequestOK, RegisteringOK, At
  <1> QED BY <1>1, <1>2

(* An account that is deactivated takes freshness from nobody who is served. *)
LEMMA DeactivateOK ==
  ASSUME IInv, NEW a \in Accounts, Deactivate(a)
  PROVE  IInv'
  <1> DEFINE row == [users[a] EXCEPT !.active = FALSE]
  <1>1. users[a] \in User /\ users \in [Accounts -> User \cup {Null}]
    BY DEF IInv, TypeOK, Deactivate
  <1>2. row \in User /\ row.active = FALSE /\ row.auth = users[a].auth BY <1>1 DEF User
  <1>3. row # Null BY <1>2, RowAssumption
  <1>4. /\ users' = [users EXCEPT ![a] = row] /\ users[a] # Null
        /\ UNCHANGED <<refreshTokens, cookie, access, req, endedFor, straggled, abandoned>>
    BY DEF Deactivate, history
  <1> HIDE DEF row
  <1>5. /\ users' \in [Accounts -> User \cup {Null}] /\ users'[a] = row
        /\ \A c \in Accounts : c # a => users'[c] = users[c]
    BY <1>1, <1>2, <1>4
  <1>6. \A c \in Accounts : users'[c] = Null <=> users[c] = Null BY <1>3, <1>4, <1>5
  <1>7. Monotone
    <2>1. \A c \in Accounts : users'[c].active => users[c].active BY <1>2, <1>5
    <2> QED BY <1>4, <1>6, <2>1 DEF Monotone, Ended
  <1>8. (\A q \in Requests : RequestOK(q)') /\ CommitsOK' BY <1>4, <1>6, <1>7, EnvironmentMoves
  <1>9. TypeOK' BY <1>4, <1>5 DEF IInv, TypeOK
  <1>10. RowsOK'
    <2> SUFFICES ASSUME NEW s \in SessionIds, refreshTokens[s] # Null
                 PROVE  users'[refreshTokens[s].account] # Null
      BY <1>4 DEF RowsOK
    <2>1. users[refreshTokens[s].account] # Null /\ refreshTokens[s].account \in Accounts
      BY DEF IInv, TypeOK, RowsOK, Session
    <2> QED BY <1>6, <2>1
  <1>11. (EndedOK /\ AccessRunsOut /\ NoSessionWithoutRow)'
    BY <1>4 DEF IInv, EndedOK, AccessRunsOut, NoSessionWithoutRow, Ended
  <1>12. AccountsAreWhole' BY <1>2, <1>4, <1>5 DEF IInv, AccountsAreWhole
  <1>13. LiveSessionsAreHeld' BY <1>4 DEF IInv, LiveSessionsAreHeld, Ended, At
  <1> QED BY <1>8, <1>9, <1>10, <1>11, <1>12, <1>13 DEF IInv

(* A cookie that expires held a session that had expired. *)
LEMMA CookieExpiresOK ==
  ASSUME IInv, NEW b \in Browsers, CookieExpires(b)
  PROVE  IInv'
  <1>1. /\ refreshTokens[cookie[b]].left = 0 /\ cookie' = [cookie EXCEPT ![b] = Null]
        /\ UNCHANGED <<users, refreshTokens, access, req, endedFor, straggled, abandoned>>
    BY DEF CookieExpires, history
  <1>2. cookie \in [Browsers -> SessionIds \cup {Null}] BY DEF IInv, TypeOK
  <1>3. /\ cookie' \in [Browsers -> SessionIds \cup {Null}] /\ cookie'[b] = Null
        /\ \A c \in Browsers : c # b => cookie'[c] = cookie[c]
    BY <1>1, <1>2
  <1>4. Monotone BY <1>1, SameRowsAreMonotone
  <1>5. (\A q \in Requests : RequestOK(q)') /\ CommitsOK' BY <1>1, <1>4, EnvironmentMoves
  <1>6. TypeOK' BY <1>1, <1>3 DEF IInv, TypeOK
  <1>7. (RowsOK /\ EndedOK /\ AccessRunsOut /\ AccountsAreWhole)'
    BY <1>1 DEF IInv, RowsOK, EndedOK, AccessRunsOut, AccountsAreWhole, Ended
  <1>8. NoSessionWithoutRow' BY <1>1, <1>3 DEF IInv, NoSessionWithoutRow
  <1>9. LiveSessionsAreHeld'
    <2>1. \A s \in SessionIds : ~ Ended(s) => cookie[b] # s BY <1>1 DEF Ended
    <2> QED BY <1>1, <1>3, <2>1 DEF IInv, LiveSessionsAreHeld, Ended, At
  <1> QED BY <1>5, <1>6, <1>7, <1>8, <1>9 DEF IInv

(* A tick shortens every life by one and lengthens what has passed by at most one. *)
LEMMA TickOK ==
  ASSUME IInv, Tick
  PROVE  IInv'
  <1>1. /\ refreshTokens \in [SessionIds -> Session \cup {Null}]
        /\ access \in [SessionIds -> SUBSET (1 .. AccessTTL)]
        /\ endedFor \in [SessionIds -> 0 .. AccessTTL]
        /\ AccessTTL \in Nat /\ RefreshTTL \in Nat
    BY SessionAssumption DEF IInv, TypeOK
  <1>2. /\ \A s \in SessionIds : refreshTokens'[s] =
             IF refreshTokens[s] = Null THEN Null
             ELSE [refreshTokens[s] EXCEPT !.left = Less(refreshTokens[s].left)]
        /\ refreshTokens' = [s \in SessionIds |-> refreshTokens'[s]]
    BY DEF Tick
  <1>3. /\ \A s \in SessionIds : access'[s] = {n \in 1 .. AccessTTL : n + 1 \in access[s]}
        /\ access' = [s \in SessionIds |-> access'[s]]
    BY DEF Tick
  <1>4. /\ \A s \in SessionIds : endedFor'[s] =
             IF refreshTokens[s] # Null /\ Ended(s) /\ endedFor[s] < AccessTTL
             THEN endedFor[s] + 1 ELSE endedFor[s]
        /\ endedFor' = [s \in SessionIds |-> endedFor'[s]]
    BY DEF Tick
  <1>5. UNCHANGED <<users, cookie, req, straggled, abandoned>> BY DEF Tick
  <1>6. \A s \in SessionIds : refreshTokens[s] # Null =>
          /\ refreshTokens'[s] \in Session
          /\ refreshTokens'[s].account = refreshTokens[s].account
          /\ refreshTokens'[s].revoked = refreshTokens[s].revoked
          /\ refreshTokens[s].left = 0 => refreshTokens'[s].left = 0
    <2> SUFFICES ASSUME NEW s \in SessionIds, refreshTokens[s] # Null
                 PROVE  /\ refreshTokens'[s] \in Session
                        /\ refreshTokens'[s].account = refreshTokens[s].account
                        /\ refreshTokens'[s].revoked = refreshTokens[s].revoked
                        /\ refreshTokens[s].left = 0 => refreshTokens'[s].left = 0
      OBVIOUS
    <2>1. refreshTokens[s] \in Session BY <1>1
    <2>2. refreshTokens'[s] = [refreshTokens[s] EXCEPT !.left = Less(refreshTokens[s].left)]
      BY <1>2
    <2>3. Less(refreshTokens[s].left) \in 0 .. RefreshTTL
      BY <1>1, <2>1 DEF Session, Less
    <2> QED BY <2>1, <2>2, <2>3 DEF Session, Less
  <1>7. \A s \in SessionIds : refreshTokens'[s] = Null <=> refreshTokens[s] = Null
    BY <1>2, <1>6, RowAssumption
  <1>8. \A s \in SessionIds : refreshTokens[s] # Null /\ Ended(s) => Ended(s)'
    BY <1>6 DEF Ended
  <1>9. Monotone BY <1>5, <1>7, <1>8 DEF Monotone
  <1>10. (\A q \in Requests : RequestOK(q)') /\ CommitsOK' BY <1>5, <1>9, EnvironmentMoves
  <1>11. refreshTokens' \in [SessionIds -> Session \cup {Null}] BY <1>2, <1>6, <1>7
  <1>12. access' \in [SessionIds -> SUBSET (1 .. AccessTTL)] BY <1>3
  <1>13. endedFor' \in [SessionIds -> 0 .. AccessTTL] BY <1>1, <1>4
  <1>14. TypeOK' BY <1>5, <1>11, <1>12, <1>13 DEF IInv, TypeOK
  <1>15. RowsOK' BY <1>5, <1>6, <1>7 DEF IInv, RowsOK
  <1>16. EndedOK'
    <2> SUFFICES ASSUME NEW s \in SessionIds, endedFor'[s] > 0
                 PROVE  refreshTokens'[s] # Null /\ Ended(s)'
      BY DEF EndedOK
    <2>1. refreshTokens[s] # Null /\ Ended(s)
      <3>1. CASE refreshTokens[s] # Null /\ Ended(s) BY <3>1
      <3>2. CASE ~ (refreshTokens[s] # Null /\ Ended(s))
        <4>1. endedFor[s] > 0 BY <1>4, <3>2
        <4> QED BY <4>1 DEF IInv, EndedOK
      <3> QED BY <3>1, <3>2
    <2> QED BY <1>7, <1>8, <2>1
  <1>17. NoSessionWithoutRow'
    <2>1. \A s \in SessionIds : access'[s] # {} => access[s] # {} BY <1>3
    <2>2. \A b \in Browsers : cookie[b] \in SessionIds \cup {Null} BY DEF IInv, TypeOK
    <2> QED BY <1>5, <1>7, <2>1, <2>2 DEF IInv, NoSessionWithoutRow
  <1>18. AccountsAreWhole' BY <1>5 DEF IInv, AccountsAreWhole
  <1>19. AccessRunsOut'
    <2> SUFFICES ASSUME NEW s \in SessionIds \ straggled, NEW n \in access'[s]
                 PROVE  n + endedFor'[s] <= AccessTTL
      BY <1>5 DEF AccessRunsOut
    <2>1. n \in Nat /\ n + 1 \in access[s] BY <1>3
    <2>2. (n + 1) + endedFor[s] <= AccessTTL BY <2>1 DEF IInv, AccessRunsOut
    <2>3. endedFor[s] \in Nat /\ (endedFor'[s] = endedFor[s] + 1 \/ endedFor'[s] = endedFor[s])
      BY <1>1, <1>4
    <2> QED BY <1>1, <2>1, <2>2, <2>3
  <1>20. LiveSessionsAreHeld'
    <2> SUFFICES ASSUME NEW s \in SessionIds \ abandoned, refreshTokens'[s] # Null, ~ Ended(s)'
                 PROVE  \/ \E b \in Browsers : cookie[b] = s
                        \/ \E q \in Requests : At(q, "welcome") /\ req[q].session = s
      BY <1>5 DEF LiveSessionsAreHeld, At
    <2>1. refreshTokens[s] # Null /\ ~ Ended(s) BY <1>7, <1>8
    <2> QED BY <2>1 DEF IInv, LiveSessionsAreHeld
  <1> QED BY <1>10, <1>14, <1>15, <1>16, <1>17, <1>18, <1>19, <1>20 DEF IInv

-----------------------------------------------------------------------------
(* Every step *)

(* Nothing happens. *)
LEMMA StutterOK ==
  ASSUME IInv, UNCHANGED vars
  PROVE  IInv'
  <1> USE DEF vars
  <1>1. TypeOK' BY DEF IInv, TypeOK
  <1>2. Monotone BY SameRowsAreMonotone
  <1>3. (\A q \in Requests : RequestOK(q)') /\ CommitsOK' BY <1>2, EnvironmentMoves
  <1>4. (RowsOK /\ EndedOK /\ AccessRunsOut)'
    BY DEF IInv, RowsOK, EndedOK, AccessRunsOut, Ended
  <1>5. (NoSessionWithoutRow /\ AccountsAreWhole /\ LiveSessionsAreHeld)'
    BY DEF IInv, NoSessionWithoutRow, AccountsAreWhole, LiveSessionsAreHeld, Ended, At
  <1> QED BY <1>1, <1>3, <1>4, <1>5 DEF IInv

(* The steps of a request, one after the other. *)
LEMMA HandlerOK ==
  ASSUME IInv, NEW r \in Requests, Handler(r)
  PROVE  IInv'
  <1>1. ASSUME NEW name \in Names, RegisterCheck(r, name) PROVE IInv'
    BY <1>1, RegisterCheckOK
  <1>2. ASSUME NEW a \in Accounts, RegisterInsert(r, a) PROVE IInv'
    BY <1>2, RegisterInsertOK
  <1>3. CASE RegisterCommit(r) BY <1>3, RegisterCommitOK
  <1>4. CASE RegisterFails(r) BY <1>4, AnswerKeeps DEF RegisterFails, At
  <1>5. ASSUME NEW b \in Browsers, NEW a \in Accounts, SignInLook(r, b, a) PROVE IInv'
    BY <1>5, SignInLookOK
  <1>6. ASSUME NEW s \in SessionIds, SignInStore(r, s) PROVE IInv'
    BY <1>6, SignInStoreOK
  <1>7. ASSUME NEW s \in SessionIds, SignInLost(r, s) PROVE IInv'
    BY <1>7, SignInLostOK
  <1>8. ASSUME NEW s \in SessionIds, SignInFails(r, s) PROVE IInv'
    BY <1>8, AnswerKeeps DEF SignInFails, At
  <1>9. CASE Welcome(r) BY <1>9, WelcomeOK
  <1>10. ASSUME NEW b \in Browsers, SignOutArrives(r, b) \/ RefreshArrives(r, b) PROVE IInv'
    BY <1>10, CookieArrivesOK
  <1>11. CASE SignOutRevoke(r) BY <1>11, SignOutRevokeOK
  <1>12. CASE SignOutFails(r) BY <1>12, SignOutFailsOK
  <1>13. CASE Cleared(r) BY <1>13, ClearedStepOK
  <1>14. CASE RefreshRead(r) BY <1>14, RefreshReadOK
  <1>15. CASE RefreshIssue(r) BY <1>15, RefreshIssueOK
  <1>16. ASSUME NEW s \in SessionIds, BearerArrives(r, s) PROVE IInv'
    BY <1>16, BearerArrivesOK
  <1>17. CASE BearerLoad(r) BY <1>17, BearerLoadOK
  <1>18. CASE Served(r) BY <1>18, AnswerKeeps DEF Served, At
  <1>19. CASE Lost(r) BY <1>19, LostOK
  <1> QED BY <1>1, <1>2, <1>3, <1>4, <1>5, <1>6, <1>7, <1>8, <1>9, <1>10, <1>11, <1>12, <1>13,
             <1>14, <1>15, <1>16, <1>17, <1>18, <1>19 DEF Handler

(* Every step keeps the invariant. *)
LEMMA NextKeepsIInv == IInv /\ [Next]_vars => IInv'
  <1> SUFFICES ASSUME IInv, [Next]_vars PROVE IInv' OBVIOUS
  <1>1. ASSUME NEW r \in Requests, Handler(r) PROVE IInv' BY <1>1, HandlerOK
  <1>2. ASSUME NEW a \in Accounts, Deactivate(a) PROVE IInv' BY <1>2, DeactivateOK
  <1>3. ASSUME NEW b \in Browsers, CookieExpires(b) PROVE IInv' BY <1>3, CookieExpiresOK
  <1>4. CASE Tick BY <1>4, TickOK
  <1>5. CASE UNCHANGED vars BY <1>5, StutterOK
  <1> QED BY <1>1, <1>2, <1>3, <1>4, <1>5 DEF Next, Environment

-----------------------------------------------------------------------------
(* Theorems *)

(* Whatever the handlers of any number of requests, the failures of their statements
   and the clock interleave, IInv holds. *)
THEOREM Invariance == Spec => []IInv
  <1> QED BY InitOK, NextKeepsIInv, PTL DEF Spec

(* Every variable has its type. *)
THEOREM TypeCorrect == Spec => []TypeOK
  <1>1. IInv => TypeOK BY DEF IInv
  <1> QED BY <1>1, Invariance, PTL

(* AccessTTL after a session has been revoked or has expired, none of its access tokens
   is valid, but for a refresh that had read the row before. *)
THEOREM RevocationTakesEffect == Spec => []AccessEndsWithSession
  <1>1. IInv => AccessEndsWithSession
    <2> SUFFICES ASSUME IInv, NEW s \in SessionIds \ straggled, endedFor[s] = AccessTTL,
                        NEW n \in access[s]
                 PROVE  FALSE
      BY DEF AccessEndsWithSession
    <2>1. n \in 1 .. AccessTTL /\ AccessTTL \in Nat
      BY SessionAssumption DEF IInv, TypeOK
    <2>2. n + AccessTTL <= AccessTTL BY DEF IInv, AccessRunsOut
    <2> QED BY <2>1, <2>2
  <1> QED BY <1>1, Invariance, PTL

(* A session that could be refreshed is held by a browser, unless it was lost in one of
   the ways that do not revoke it. *)
THEOREM NoForgottenSession == Spec => []LiveSessionsAreHeld
  <1>1. IInv => LiveSessionsAreHeld BY DEF IInv
  <1> QED BY <1>1, Invariance, PTL

(* No request is served to an account that was not active when it arrived. *)
THEOREM DeactivationTakesEffect == Spec => []ShutOutAtOnce
  <1>1. IInv => ShutOutAtOnce BY DEF IInv, RequestOK, FreshOK, ShutOutAtOnce
  <1> QED BY <1>1, Invariance, PTL

(* Every cookie and every access token has the row that a sign-out can revoke. *)
THEOREM TokensHaveRows == Spec => []NoSessionWithoutRow
  <1>1. IInv => NoSessionWithoutRow BY DEF IInv
  <1> QED BY <1>1, Invariance, PTL

(* No failure of a registration leaves a user without credentials. *)
THEOREM NoHalfAccount == Spec => []AccountsAreWhole
  <1>1. IInv => AccountsAreWhole BY DEF IInv
  <1> QED BY <1>1, Invariance, PTL

=============================================================================
