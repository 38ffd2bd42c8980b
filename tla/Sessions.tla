------------------------------ MODULE Sessions ------------------------------
(***************************************************************************)
(* Sessions and tokens: a login creates an AccountSession row and a pair   *)
(* of JWTs that name it, refreshTokenV2 issues further pairs, the          *)
(* authentication middleware reads blacklist and session one after the     *)
(* other, and the logout route deletes the session and blacklists the      *)
(* access token it was sent, while an hourly job clears the blacklist.     *)
(*                                                                         *)
(* JWTs count in whole seconds, the blacklist in milliseconds: `now` counts*)
(* Unit steps to the second.  A session lives for 100 years and does not   *)
(* expire here.                                                            *)
(***************************************************************************)
EXTENDS Naturals

CONSTANTS
  SessionIds,
  Tokens,          \* JWTs that may be issued
  Requests,        \* requests in the middleware at the same time
  Logouts,         \* logout requests at the same time
  Unit,            \* steps of the clock to the second
  AccessSeconds,   \* JWT_EXPIRES_IN
  RefreshSeconds,  \* JWT_REFRESH_EXPIRES_IN
  DefaultSeconds,  \* the TTL of blacklisting an expired token: 86400
  MaxTime,         \* bound on the clock
  None

ASSUME SessionConstants ==
  /\ Unit \in Nat \ {0}
  /\ AccessSeconds \in Nat /\ RefreshSeconds \in Nat /\ DefaultSeconds \in Nat
  /\ MaxTime \in Nat
  /\ None \notin SessionIds /\ None \notin Tokens /\ None \notin Nat

VARIABLES
  now,
  session,    \* the account_sessions rows
  token,      \* the JWTs issued so far: kind, session, exp in seconds
  blacklist,  \* the blacklisted_tokens rows: expiresAt, in steps
  request,    \* where each request stands in authenticateAccount
  logout,     \* where each logout request stands
  loggedOut,  \* sessions gone when a logout of them was answered
  presented   \* access tokens that a logout answered had listed, or whose session it found gone

sessionVars ==
  <<now, session, token, blacklist, request, logout, loggedOut, presented>>

NoToken == [kind |-> "unused", session |-> None, exp |-> 0]

IdleRequest ==
  [pc |-> "idle", token |-> None, afterLogout |-> FALSE, afterPresented |-> FALSE]

IdleLogout == [pc |-> "idle", token |-> None]

SessionInit ==
  /\ now = 0
  /\ session = [s \in SessionIds |-> "unused"]
  /\ token = [t \in Tokens |-> NoToken]
  /\ blacklist = [t \in Tokens |-> None]
  /\ request = [r \in Requests |-> IdleRequest]
  /\ logout = [l \in Logouts |-> IdleLogout]
  /\ loggedOut = {}
  /\ presented = {}

\* jwt.verify: the token has not expired.
Valid(t) == now \div Unit < token[t].exp

-----------------------------------------------------------------------------
(* Issuing tokens.                                                         *)

\* generateTokens: iat is the second the clock shows.
IssueTokens(s, access, refresh) ==
  /\ access # refresh
  /\ token[access].kind = "unused" /\ token[refresh].kind = "unused"
  /\ token' = [token EXCEPT
       ![access] = [kind |-> "access", session |-> s,
                    exp |-> now \div Unit + AccessSeconds],
       ![refresh] = [kind |-> "refresh", session |-> s,
                     exp |-> now \div Unit + RefreshSeconds]]

\* authenticateV2: the session is stored, then the tokens are answered.
Login(s, access, refresh) ==
  /\ session[s] = "unused"
  /\ session' = [session EXCEPT ![s] = "live"]
  /\ IssueTokens(s, access, refresh)
  /\ UNCHANGED <<now, blacklist, request, logout, loggedOut, presented>>

\* refreshTokenV2 verifies the JWT and reads the session only to report its
\* privacy mode; the old refresh token stays valid.
Refresh(t, access, refresh) ==
  /\ token[t].kind = "refresh"
  /\ Valid(t)
  /\ IssueTokens(token[t].session, access, refresh)
  /\ UNCHANGED <<now, session, blacklist, request, logout, loggedOut, presented>>

-----------------------------------------------------------------------------
(* authenticateAccount.                                                    *)

\* The JWT is verified with the secret of access tokens.  The two `after`
\* fields only remember what had been answered when the request came.
RequestBegin(r, t) ==
  /\ request[r].pc = "idle"
  /\ token[t].kind = "access" /\ Valid(t)
  /\ request' = [request EXCEPT ![r] =
       [pc |-> "verified", token |-> t,
        afterLogout |-> token[t].session \in loggedOut,
        afterPresented |-> t \in presented]]
  /\ UNCHANGED <<now, session, token, blacklist, logout, loggedOut, presented>>

Refuse(r) == request' = [request EXCEPT ![r] = IdleRequest]

\* Any row for the token refuses it, whatever its expiresAt.
RequestBlacklist(r) ==
  /\ request[r].pc = "verified"
  /\ IF blacklist[request[r].token] # None
     THEN Refuse(r)
     ELSE request' = [request EXCEPT ![r].pc = "notBlacklisted"]
  /\ UNCHANGED <<now, session, token, blacklist, logout, loggedOut, presented>>

Live(r) == session[token[request[r].token].session] = "live"

\* A mutation: the session row is not asked for.
RequestSessionIgnored(r) ==
  /\ request[r].pc = "notBlacklisted"
  /\ request' = [request EXCEPT ![r].pc = "passed"]
  /\ UNCHANGED <<now, session, token, blacklist, logout, loggedOut, presented>>

RequestSession(r) ==
  /\ request[r].pc = "notBlacklisted"
  /\ IF Live(r)
     THEN request' = [request EXCEPT ![r].pc = "session"]
     ELSE Refuse(r)
  /\ UNCHANGED <<now, session, token, blacklist, logout, loggedOut, presented>>

\* The update that touches the session throws when the row is gone by now.
RequestTouch(r) ==
  /\ request[r].pc = "session"
  /\ IF Live(r)
     THEN request' = [request EXCEPT ![r].pc = "passed"]
     ELSE Refuse(r)
  /\ UNCHANGED <<now, session, token, blacklist, logout, loggedOut, presented>>

RequestDone(r) ==
  /\ request[r].pc = "passed"
  /\ Refuse(r)
  /\ UNCHANGED <<now, session, token, blacklist, logout, loggedOut, presented>>

-----------------------------------------------------------------------------
(* Logout.                                                                 *)

\* The session named by the token, expired or not, is deleted, or stays when
\* that throws: any error is taken to mean that it was gone already.
LogoutDelete(l, t) ==
  /\ logout[l].pc = "idle"
  /\ token[t].kind = "access"
  /\ \/ session' = [session EXCEPT ![token[t].session] = "gone"]
     \/ UNCHANGED session
  /\ logout' = [logout EXCEPT ![l] = [pc |-> "deleted", token |-> t]]
  /\ UNCHANGED <<now, token, blacklist, request, loggedOut, presented>>

\* A mutation: the remaining time is rounded down.
TtlSecondsFloor(t) ==
  LET expires == token[t].exp * Unit
  IN IF now < expires /\ (expires - now) \div Unit > 0
     THEN (expires - now) \div Unit ELSE DefaultSeconds

\* Math.ceil of the token's remaining time, or the default of one day.
TtlSeconds(t) ==
  LET expires == token[t].exp * Unit
  IN IF now < expires THEN (expires - now + Unit - 1) \div Unit ELSE DefaultSeconds

\* The row is created, unless there is one, token being unique, or the database
\* fails: an error changes nothing but the wording of the answer.
LogoutBlacklist(l) ==
  LET t == logout[l].token
  IN /\ logout[l].pc = "deleted"
     /\ \/ /\ blacklist[t] = None
           /\ blacklist' = [blacklist EXCEPT ![t] = now + TtlSeconds(t) * Unit]
        \/ UNCHANGED blacklist
     /\ loggedOut' = loggedOut \cup
          {s \in SessionIds : s = token[t].session /\ session[s] = "gone"}
     /\ presented' = presented \cup
          {u \in {t} : blacklist'[u] # None \/ session[token[u].session] = "gone"}
     /\ logout' = [logout EXCEPT ![l] = IdleLogout]
     /\ UNCHANGED <<now, session, token, request>>

\* The scheduler's hourly cleanupExpiredTokens.
Cleanup ==
  /\ blacklist' = [t \in Tokens |->
       IF blacklist[t] # None /\ blacklist[t] < now THEN None ELSE blacklist[t]]
  /\ blacklist' # blacklist
  /\ UNCHANGED <<now, session, token, request, logout, loggedOut, presented>>

Tick ==
  /\ now < MaxTime
  /\ now' = now + 1
  /\ UNCHANGED <<session, token, blacklist, request, logout, loggedOut, presented>>

SessionNext ==
  \/ \E access, refresh \in Tokens :
       \/ \E s \in SessionIds : Login(s, access, refresh)
       \/ \E t \in Tokens : Refresh(t, access, refresh)
  \/ \E r \in Requests :
       \/ \E t \in Tokens : RequestBegin(r, t)
       \/ RequestBlacklist(r)
       \/ RequestSession(r)
       \/ RequestTouch(r)
       \/ RequestDone(r)
  \/ \E l \in Logouts :
       \/ \E t \in Tokens : LogoutDelete(l, t)
       \/ LogoutBlacklist(l)
  \/ Cleanup
  \/ Tick

SessionSpec == SessionInit /\ [][SessionNext]_sessionVars

-----------------------------------------------------------------------------
(* Properties.                                                             *)

\* A type invariant; only access tokens are in the middleware and in logouts.
SessionTypeOK ==
  /\ now \in 0..MaxTime
  /\ session \in [SessionIds -> {"unused", "live", "gone"}]
  /\ token \in [Tokens ->
       [kind : {"unused", "access", "refresh"}, session : SessionIds \cup {None},
        exp : Nat]]
  /\ blacklist \in [Tokens -> Nat \cup {None}]
  /\ request \in [Requests ->
       [pc : {"idle", "verified", "notBlacklisted", "session", "passed"},
        token : Tokens \cup {None}, afterLogout : BOOLEAN, afterPresented : BOOLEAN]]
  /\ logout \in [Logouts -> [pc : {"idle", "deleted"}, token : Tokens \cup {None}]]
  /\ loggedOut \subseteq SessionIds
  /\ presented \subseteq Tokens
  /\ \A r \in Requests : request[r].pc # "idle" =>
       request[r].token \in Tokens /\ token[request[r].token].kind = "access"

\* A request that comes after a logout that deleted its session was answered
\* does not pass, whichever token of the session it carries, tokens refreshed
\* after the logout included.
NothingPassesAfterLogout ==
  \A r \in Requests : request[r].pc = "passed" => ~request[r].afterLogout

\* A logout has two ways to kill the token it was sent with, and each may fail
\* unnoticed; one of them is enough: the token never passes again as long as it
\* is valid, though the session row is still there, whenever the cleanup runs,
\* and though the blacklist was read before.  (A request that is verified just
\* before the token expires may find the row cleared after that.)
PresentedTokenIsDead ==
  \A r \in Requests : request[r].pc = "passed" /\ Valid(request[r].token) =>
    ~request[r].afterPresented

\* "Blacklist on logout" (docs/technical/API_DOCUMENTATION.md): a logout that
\* is answered has killed the token it was sent with.  Not true when both writes
\* fail: the answer is the same.
LogoutRevokes ==
  [][\A l \in Logouts : logout[l].pc = "deleted" /\ logout'[l].pc = "idle" =>
       \/ session[token[logout[l].token].session] = "gone"
       \/ blacklist'[logout[l].token] # None]_sessionVars

\* "Refresh Token: Implicitly invalidated (session gone)": tokens are issued
\* for a live session only.
TokensNeedSession ==
  [][\A t \in Tokens : token'[t] # token[t] =>
       session'[token'[t].session] = "live"]_sessionVars
=============================================================================
