------------------------------ MODULE Sessions ------------------------------
(***************************************************************************)
(* Accounts and sessions: Register, SignIn, SignOut and RefreshToken, and  *)
(* RequireAuth in front of every other handler.  A session is a row of     *)
(* refresh_tokens; the browser keeps its token in a cookie.  An access     *)
(* token is a signed word of honour: no table knows it and only time ends  *)
(* it.  Each statement is a step, and so are the arrival of a request with *)
(* the cookie of that moment and the arrival of its answer.  Time is       *)
(* counted down in ticks.                                                  *)
(***************************************************************************)
EXTENDS Naturals, FiniteSets

CONSTANTS
  Accounts,    \* bound: the rows there can be in users
  Names,       \* usernames, emails and phone numbers in one
  SessionIds,  \* bound: the refresh tokens there can be
  Browsers,
  Requests,    \* bound: requests in flight
  AccessTTL,   \* ticks an access token lives
  RefreshTTL,  \* ticks a refresh token lives
  Null

ASSUME SessionAssumption ==
  /\ AccessTTL \in Nat \ {0} /\ RefreshTTL \in Nat \ {0}
  /\ Null \notin Accounts \cup Names \cup SessionIds \cup Browsers

VARIABLES
  users,          \* the committed rows of users, each with its row of user_auth
  refreshTokens,  \* the table refresh_tokens
  cookie,         \* the cookie refreshToken of each browser
  access,         \* for each session, what its access tokens still have to live
  req,            \* the requests in flight
  endedFor,       \* history: ticks since a session was revoked or expired, up to AccessTTL
  straggled,      \* history: sessions refreshed by a request that read before the revocation
  abandoned       \* history: sessions whose browser lost them without their revocation

vars == <<users, refreshTokens, cookie, access, req, endedFor, straggled, abandoned>>
history == <<endedFor, straggled, abandoned>>

User    == [name : Names, auth : BOOLEAN, active : BOOLEAN]
Session == [account : Accounts, left : 0 .. RefreshTTL, revoked : BOOLEAN]

(* A row is never mistaken for none. *)
ASSUME RowAssumption == Null \notin User \cup Session

PCs == {"idle", "insert", "commit", "signin", "welcome", "signout", "cleared",
        "refresh", "issue", "bearer", "serving"}

(* fresh: what the request read first was still true, the session not revoked or the
   account active. *)
Request == [pc : PCs, browser : Browsers \cup {Null}, name : Names \cup {Null},
            account : Accounts \cup {Null}, session : SessionIds \cup {Null}, fresh : BOOLEAN]

Idle == [pc |-> "idle", browser |-> Null, name |-> Null, account |-> Null, session |-> Null,
         fresh |-> FALSE]

TypeOK ==
  /\ users \in [Accounts -> User \cup {Null}]
  /\ refreshTokens \in [SessionIds -> Session \cup {Null}]
  /\ cookie \in [Browsers -> SessionIds \cup {Null}]
  /\ access \in [SessionIds -> SUBSET (1 .. AccessTTL)]
  /\ req \in [Requests -> Request]
  /\ endedFor \in [SessionIds -> 0 .. AccessTTL]
  /\ straggled \subseteq SessionIds /\ abandoned \subseteq SessionIds

Init ==
  /\ users = [a \in Accounts |-> Null]
  /\ refreshTokens = [s \in SessionIds |-> Null]
  /\ cookie = [b \in Browsers |-> Null]
  /\ access = [s \in SessionIds |-> {}]
  /\ req = [r \in Requests |-> Idle]
  /\ endedFor = [s \in SessionIds |-> 0]
  /\ straggled = {} /\ abandoned = {}

-----------------------------------------------------------------------------
At(r, pc) == req[r].pc = pc

Become(r, new) == req' = [req EXCEPT ![r] = new]
GoTo(r, pc)    == Become(r, [req[r] EXCEPT !.pc = pc])
Answer(r)      == Become(r, Idle)

(* An account id or a session id that neither a row nor a request has. *)
NewAccount(a) == users[a] = Null /\ \A r \in Requests : req[r].account # a
NewSession(s) == refreshTokens[s] = Null /\ \A r \in Requests : req[r].session # s

Ended(s) == refreshTokens[s].revoked \/ refreshTokens[s].left = 0

(* Fault: the two lifetimes are swapped. *)
GrantAsLongAsSession(s) == access' = [access EXCEPT ![s] = @ \cup {RefreshTTL}]

(* A new access token of a session. *)
Grant(s) == access' = [access EXCEPT ![s] = @ \cup {AccessTTL}]

-----------------------------------------------------------------------------
(* Register *)

(* The name is looked up before the transaction begins; nothing here keeps two
   requests from finding it free. *)
RegisterCheck(r, name) ==
  /\ At(r, "idle")
  /\ \A a \in Accounts : users[a] # Null => users[a].name # name
  /\ Become(r, [Idle EXCEPT !.pc = "insert", !.name = name])
  /\ UNCHANGED <<users, refreshTokens, cookie, access, history>>

(* Fault: the user is inserted outside the transaction. *)
InsertUserAtOnce(r, a) ==
  users' = [users EXCEPT ![a] = [name |-> req[r].name, auth |-> FALSE, active |-> TRUE]]

(* Inside the transaction: nobody sees the user yet. *)
InsertUser(r, a) == UNCHANGED users

RegisterInsert(r, a) ==
  /\ At(r, "insert") /\ NewAccount(a)
  /\ InsertUser(r, a)
  /\ Become(r, [req[r] EXCEPT !.pc = "commit", !.account = a])
  /\ UNCHANGED <<refreshTokens, cookie, access, history>>

(* The row of user_auth, and the commit. *)
RegisterCommit(r) ==
  /\ At(r, "commit")
  /\ users' = [users EXCEPT ![req[r].account] =
                 [name |-> req[r].name, auth |-> TRUE, active |-> TRUE]]
  /\ Answer(r)
  /\ UNCHANGED <<refreshTokens, cookie, access, history>>

(* A statement fails or times out, or a constraint of the table refuses the row. *)
RegisterFails(r) ==
  /\ At(r, "insert") \/ At(r, "commit")
  /\ Answer(r)
  /\ UNCHANGED <<users, refreshTokens, cookie, access, history>>

-----------------------------------------------------------------------------
(* SignIn *)

(* The password of an account of that name is right; whether the account is active is
   not asked. *)
SignInLook(r, b, a) ==
  /\ At(r, "idle")
  /\ users[a] # Null /\ users[a].auth
  /\ Become(r, [Idle EXCEPT !.pc = "signin", !.browser = b, !.account = a])
  /\ UNCHANGED <<users, refreshTokens, cookie, access, history>>

NewRow(a) == [account |-> a, left |-> RefreshTTL, revoked |-> FALSE]

SignInStore(r, s) ==
  /\ At(r, "signin") /\ NewSession(s)
  /\ refreshTokens' = [refreshTokens EXCEPT ![s] = NewRow(req[r].account)]
  /\ Grant(s)
  /\ Become(r, [req[r] EXCEPT !.pc = "welcome", !.session = s])
  /\ UNCHANGED <<users, cookie, history>>

(* The row is stored, but the statement has timed out or the answer is lost: the
   browser never learns the token. *)
SignInLost(r, s) ==
  /\ At(r, "signin") /\ NewSession(s)
  /\ refreshTokens' = [refreshTokens EXCEPT ![s] = NewRow(req[r].account)]
  /\ abandoned' = abandoned \cup {s}
  /\ Answer(r)
  /\ UNCHANGED <<users, cookie, access, endedFor, straggled>>

(* Fault: the tokens go out although the row could not be stored. *)
SignInIgnoresFailure(r, s) ==
  /\ At(r, "signin") /\ NewSession(s)
  /\ Grant(s)
  /\ Become(r, [req[r] EXCEPT !.pc = "welcome", !.session = s])
  /\ UNCHANGED <<users, refreshTokens, cookie, history>>

SignInFails(r, s) ==
  /\ At(r, "signin") /\ NewSession(s)
  /\ Answer(r)
  /\ UNCHANGED <<users, refreshTokens, cookie, access, history>>

(* The answer sets the cookie; a session the browser had before is not revoked. *)
Welcome(r) ==
  /\ At(r, "welcome")
  /\ LET b == req[r].browser
     IN  /\ cookie' = [cookie EXCEPT ![b] = req[r].session]
         /\ abandoned' = abandoned \cup ({cookie[b]} \ {Null})
  /\ Answer(r)
  /\ UNCHANGED <<users, refreshTokens, access, endedFor, straggled>>

-----------------------------------------------------------------------------
(* SignOut *)

(* Without a cookie there is nothing to do. *)
SignOutArrives(r, b) ==
  /\ At(r, "idle") /\ cookie[b] # Null
  /\ Become(r, [Idle EXCEPT !.pc = "signout", !.browser = b, !.session = cookie[b]])
  /\ UNCHANGED <<users, refreshTokens, cookie, access, history>>

(* Fault: the row is left as it is. *)
NotRevoked(s) == UNCHANGED refreshTokens

(* UPDATE ... SET revoked_at: of this session and no other. *)
Revoked(s) ==
  refreshTokens' = [refreshTokens EXCEPT ![s] = IF @ = Null THEN Null ELSE [@ EXCEPT !.revoked = TRUE]]

SignOutRevoke(r) ==
  /\ At(r, "signout")
  /\ Revoked(req[r].session)
  /\ GoTo(r, "cleared")
  /\ UNCHANGED <<users, cookie, access, history>>

(* The error of the UPDATE is ignored. *)
SignOutFails(r) ==
  /\ At(r, "signout")
  /\ GoTo(r, "cleared")
  /\ abandoned' = abandoned \cup {req[r].session}
  /\ UNCHANGED <<users, refreshTokens, cookie, access, endedFor, straggled>>

(* The answer clears the cookie of that name, whichever session it holds by now. *)
Cleared(r) ==
  /\ At(r, "cleared")
  /\ LET b == req[r].browser
     IN  /\ cookie' = [cookie EXCEPT ![b] = Null]
         /\ abandoned' = abandoned \cup ({cookie[b]} \ {Null, req[r].session})
  /\ Answer(r)
  /\ UNCHANGED <<users, refreshTokens, access, endedFor, straggled>>

-----------------------------------------------------------------------------
(* RefreshToken *)

RefreshArrives(r, b) ==
  /\ At(r, "idle") /\ cookie[b] # Null
  /\ Become(r, [Idle EXCEPT !.pc = "refresh", !.browser = b, !.session = cookie[b]])
  /\ UNCHANGED <<users, refreshTokens, cookie, access, history>>

(* Fault: revoked_at is not looked at. *)
CanRefreshRevoked(s) == refreshTokens[s] # Null

CanRefresh(s) == refreshTokens[s] # Null /\ ~ refreshTokens[s].revoked

(* The row is read once, without a lock; 403 when it is revoked. *)
RefreshRead(r) ==
  /\ At(r, "refresh")
  /\ LET s == req[r].session
     IN  IF CanRefresh(s)
         THEN Become(r, [req[r] EXCEPT !.pc = "issue", !.fresh = ~ refreshTokens[s].revoked])
         ELSE Answer(r)
  /\ UNCHANGED <<users, refreshTokens, cookie, access, history>>

(* Expiry is compared with the time at which the access token is made, revocation with
   what was read; the refresh token stays as it is. *)
RefreshIssue(r) ==
  /\ At(r, "issue")
  /\ LET s == req[r].session
     IN  IF refreshTokens[s].left = 0
         THEN UNCHANGED <<access, straggled>>
         ELSE /\ Grant(s)
              /\ straggled' = straggled \cup (IF req[r].fresh /\ Ended(s) THEN {s} ELSE {})
  /\ Answer(r)
  /\ UNCHANGED <<users, refreshTokens, cookie, endedFor, abandoned>>

-----------------------------------------------------------------------------
(* RequireAuth *)

(* An access token of the session is presented and has not expired. *)
BearerArrives(r, s) ==
  /\ At(r, "idle") /\ access[s] # {}
  /\ LET a == refreshTokens[s].account
     IN  Become(r, [Idle EXCEPT !.pc = "bearer", !.account = a, !.fresh = users[a].active])
  /\ UNCHANGED <<users, refreshTokens, cookie, access, history>>

(* Fault: the status is not part of the query. *)
MayEnterAnyway(a) == users[a] # Null

MayEnter(a) == users[a] # Null /\ users[a].active

(* The account is read; the handler runs with what was read, whatever comes after. *)
BearerLoad(r) ==
  /\ At(r, "bearer")
  /\ IF MayEnter(req[r].account) THEN GoTo(r, "serving") ELSE Answer(r)
  /\ UNCHANGED <<users, refreshTokens, cookie, access, history>>

Served(r) ==
  /\ At(r, "serving")
  /\ Answer(r)
  /\ UNCHANGED <<users, refreshTokens, cookie, access, history>>

-----------------------------------------------------------------------------
(* The environment *)

(* A request is cut off or its answer lost.  A session that was on its way to the
   browser is never known to it. *)
Lost(r) ==
  /\ ~ At(r, "idle")
  /\ abandoned' = abandoned \cup (IF At(r, "welcome") THEN {req[r].session} ELSE {})
  /\ Answer(r)
  /\ UNCHANGED <<users, refreshTokens, cookie, access, endedFor, straggled>>

(* The status of an account is changed behind the program's back: no code does. *)
Deactivate(a) ==
  /\ users[a] # Null /\ users[a].active
  /\ users' = [users EXCEPT ![a].active = FALSE]
  /\ UNCHANGED <<refreshTokens, cookie, access, req, history>>

(* The cookie has lived as long as its session. *)
CookieExpires(b) ==
  /\ cookie[b] # Null /\ refreshTokens[cookie[b]].left = 0
  /\ cookie' = [cookie EXCEPT ![b] = Null]
  /\ UNCHANGED <<users, refreshTokens, access, req, history>>

Less(n) == IF n = 0 THEN 0 ELSE n - 1

Tick ==
  /\ refreshTokens' = [s \in SessionIds |->
       IF refreshTokens[s] = Null THEN Null ELSE [refreshTokens[s] EXCEPT !.left = Less(@)]]
  /\ access' = [s \in SessionIds |-> {n \in 1 .. AccessTTL : n + 1 \in access[s]}]
  /\ endedFor' = [s \in SessionIds |->
       IF refreshTokens[s] # Null /\ Ended(s) /\ endedFor[s] < AccessTTL
       THEN endedFor[s] + 1 ELSE endedFor[s]]
  /\ UNCHANGED <<users, cookie, req, straggled, abandoned>>

-----------------------------------------------------------------------------
Handler(r) ==
  \/ \E name \in Names : RegisterCheck(r, name)
  \/ \E a \in Accounts : RegisterInsert(r, a)
  \/ RegisterCommit(r) \/ RegisterFails(r)
  \/ \E b \in Browsers, a \in Accounts : SignInLook(r, b, a)
  \/ \E s \in SessionIds : SignInStore(r, s) \/ SignInLost(r, s) \/ SignInFails(r, s)
  \/ Welcome(r)
  \/ \E b \in Browsers : SignOutArrives(r, b) \/ RefreshArrives(r, b)
  \/ SignOutRevoke(r) \/ SignOutFails(r) \/ Cleared(r)
  \/ RefreshRead(r) \/ RefreshIssue(r)
  \/ \E s \in SessionIds : BearerArrives(r, s)
  \/ BearerLoad(r) \/ Served(r)
  \/ Lost(r)

Environment ==
  \/ \E a \in Accounts : Deactivate(a)
  \/ \E b \in Browsers : CookieExpires(b)
  \/ Tick

Next == Environment \/ \E r \in Requests : Handler(r)

Spec == Init /\ [][Next]_vars

-----------------------------------------------------------------------------
(* Properties *)

(* A session's access ends with it: AccessTTL after a sign-out has revoked it, or it
   has expired, no access token of it is valid any more.  The one exception is a
   refresh that had read the row before the sign-out and answers after it. *)
AccessEndsWithSession ==
  \A s \in SessionIds \ straggled : endedFor[s] = AccessTTL => access[s] = {}

(* A session that could still be refreshed is in the cookie of a browser or on its way
   to one, unless the browser lost it in a way that does not revoke: signing in again,
   a late answer of another sign-out, a lost answer, a sign-out whose UPDATE failed. *)
LiveSessionsAreHeld ==
  \A s \in SessionIds \ abandoned :
    refreshTokens[s] # Null /\ ~ Ended(s) =>
      \/ \E b \in Browsers : cookie[b] = s
      \/ \E r \in Requests : At(r, "welcome") /\ req[r].session = s

(* Whoever is deactivated is shut out at once: a request that arrives afterwards is
   not served, although sign-in and refresh go on giving out tokens. *)
ShutOutAtOnce == \A r \in Requests : At(r, "serving") => req[r].fresh

(* Neither a cookie nor an access token is given out without the row that a sign-out
   can revoke. *)
NoSessionWithoutRow ==
  /\ \A b \in Browsers : cookie[b] # Null => refreshTokens[cookie[b]] # Null
  /\ \A s \in SessionIds : access[s] # {} => refreshTokens[s] # Null

(* A name that Register refuses as taken belongs to an account that can sign in: no
   user is left without the row of user_auth by a failure half-way. *)
AccountsAreWhole == \A a \in Accounts : users[a] # Null => users[a].auth

=============================================================================
