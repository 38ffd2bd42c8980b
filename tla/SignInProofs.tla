---------------------------- MODULE SignInProofs ----------------------------
(***************************************************************************)
(* Proofs about SignIn, for any requests, users, profiles and strategies   *)
(* and any number of guests; and about Sessions, for any numbers of        *)
(* sessions, tokens, requests and logouts, any lifetimes of tokens, any    *)
(* resolution of the clock within a second and any bound on it.            *)
(***************************************************************************)
EXTENDS SignIn, Sessions, TLAPS

-----------------------------------------------------------------------------
(* The accounts.                                                           *)

\* Every strategy but the guest's names an account of its own.
LEMMA AccountKnown ==
  ASSUME NEW s \in Strategies \ {"guest"}, NEW u \in Users
  PROVE  /\ Account(s, u) \in AllAccounts
         /\ s \in Social => QualifiedAccount(s, u) \in AllAccounts
<1> DEFINE Of == {AccountsOf(x, v) : x \in Strategies \ {"guest"}, v \in Users}
<1>1. AccountsOf(s, u) \in Of
  OBVIOUS
<1>2. AccountsOf(s, u) \subseteq AllAccounts
  BY <1>1 DEF AllAccounts
<1> QED BY <1>2 DEF AccountsOf

LEMMA GuestsKnown == Fresh \subseteq AllAccounts
BY DEF Fresh, AllAccounts

-----------------------------------------------------------------------------
(* The invariant.                                                          *)

Known == AllAccounts \cup {NoOne}
Progress ==
  [step : Steps, kind : {"signIn", "register", "link", "linkOnly"},
   strategy : Strategies \cup {"guest", "passkey"}, user : Users \cup {NoOne},
   account : Known, by : Known, profile : Profiles \cup {NoOne}]

RequestsTyped == req \in [SignIns -> Progress]

AccessGranted == access \subseteq granted

\* What a request has behind it, step by step.  Behind a sign-in, unless it is
\* a guest's, lies the proof of its account from the start, or with Google and
\* Apple from socialAuthService on; behind whoever creates a wallet's account
\* lies the wallet's signature.
Reached(q) ==
  /\ q.step # "idle" => q.account \in AllAccounts
  /\ q.step = "social" => q.strategy \in Social \cap Strategies /\ q.user \in Users
  /\ q.step = "verify" => q.kind \in {"signIn", "register"}
  /\ q.step \in {"verify", "link", "automatic", "profiles", "session", "tokens", "done"} =>
       q.account \in accounts
  /\ /\ q.step \notin {"idle", "social"}
     /\ \/ q.kind \in {"signIn", "register"} /\ q.strategy # "guest"
        \/ VerifiedAtOnce(q.account)
     => q.account \in proven
  /\ q.step \in {"automatic", "profiles", "session", "tokens", "done"} =>
       q.strategy = "guest" \/ q.account \in verified
  /\ q.step \in {"session", "tokens", "done"} /\ q.profile # NoOne =>
       <<q.account, q.profile>> \in granted
  /\ q.step \in {"tokens", "done"} => [account |-> q.account, known |-> TRUE] \in sessions
RequestsReached == \A r \in SignIns : Reached(req[r])

SignInInv ==
  /\ SignInTypeOK
  /\ RequestsTyped
  /\ VerifiedIsProven
  /\ AccessGranted
  /\ RequestsReached

\* Nothing a request has behind it is taken back: rows that it counts on are
\* never deleted.
Grow ==
  /\ accounts \subseteq accounts' /\ verified \subseteq verified'
  /\ sessions \subseteq sessions' /\ granted \subseteq granted'
  /\ proven \subseteq proven'

LEMMA ReachedStays ==
  ASSUME Grow, NEW q, Reached(q)
  PROVE  Reached(q)'
BY DEF Grow, Reached, VerifiedAtOnce

LEMMA SignInInit == Init => SignInInv
<1> SUFFICES ASSUME Init PROVE SignInInv
  OBVIOUS
<1>1. IdleSignIn \in Progress
  BY DEF IdleSignIn, Progress, Steps, Known
<1>2. RequestsTyped /\ RequestsReached
  BY <1>1 DEF Init, RequestsTyped, RequestsReached, Reached, IdleSignIn
<1>3. SignInTypeOK
  BY DEF Init, SignInTypeOK, IdleSignIn, Steps
<1> QED BY <1>2, <1>3 DEF Init, SignInInv, VerifiedIsProven, AccessGranted

\* A step of one request, whatever it does to the rows.
LEMMA OneGoes ==
  ASSUME SignInInv, Grow, NEW r \in SignIns, NEW q \in Progress,
         req' = [req EXCEPT ![r] = q], Reached(q)',
         VerifiedIsProven', AccessGranted', proven' \subseteq AllAccounts,
         accounts' \subseteq AllAccounts, verified' \subseteq accounts',
         \A x \in sessions' : x.account \in accounts',
         device' \in accounts' \cup {NoOne},
         profile' \in [Profiles -> {"unused", "live", "deleted"}],
         access' \subseteq accounts' \X {p \in Profiles : profile'[p] = "live"},
         active' \subseteq {p \in Profiles : profile'[p] = "live"}
  PROVE  SignInInv'
<1>1. RequestsTyped'
  BY DEF SignInInv, RequestsTyped
<1>2. \A o \in SignIns : req'[o] = IF o = r THEN q ELSE req[o]
  BY DEF SignInInv, RequestsTyped
<1>3. RequestsReached'
  BY <1>2, ReachedStays DEF SignInInv, RequestsReached
<1>4. SignInTypeOK'
  <2>1. \A o \in SignIns : req'[o] \in Progress
    BY <1>1 DEF RequestsTyped
  <2> QED BY <2>1 DEF SignInTypeOK, Progress, Known
<1> QED BY <1>1, <1>3, <1>4 DEF SignInInv

\* Most steps leave profiles and access alone.
LEMMA OneGoesAlone ==
  ASSUME SignInInv, NEW r \in SignIns, NEW q \in Progress,
         req' = [req EXCEPT ![r] = q], Reached(q)', UNCHANGED <<rows, identity>>,
         proven \subseteq proven', proven' \subseteq AllAccounts
  PROVE  SignInInv'
<1>1. Grow
  BY DEF rows, identity, Grow
<1>2. VerifiedIsProven' /\ AccessGranted'
  BY DEF rows, identity, SignInInv, VerifiedIsProven, AccessGranted
<1> QED BY <1>1, <1>2, OneGoes DEF rows, identity, SignInInv, SignInTypeOK

\* A request begins.
LEMMA AuthenticateKeeps ==
  ASSUME SignInInv, NEW r \in SignIns, NEW s \in Strategies, NEW u \in Users,
         AuthenticateV2(r, s, u)
  PROVE  SignInInv'
<1> DEFINE step == CASE s = "passkey" -> "verify"
                     [] s \in Social  -> "social"
                     [] OTHER         -> "find"
<1>1. PICK a \in IF s = "guest" THEN Fresh ELSE {Account(s, u)} :
        /\ req' = [req EXCEPT ![r] = [IdleSignIn EXCEPT
                     !.strategy = s, !.user = u, !.account = a, !.step = step]]
        /\ proven' = IF s \in Social \cup {"guest"} THEN proven ELSE proven \cup {a}
  BY DEF AuthenticateV2
<1> DEFINE q == [IdleSignIn EXCEPT !.strategy = s, !.user = u, !.account = a, !.step = step]
<1>2. a \in AllAccounts
  BY AccountKnown, GuestsKnown
<1>3. /\ \/ step = "verify" /\ s = "passkey"
         \/ step = "social" /\ s \in Social
         \/ step = "find" /\ s \notin Social
      /\ step = "verify" => a \in accounts
  <2>1. s = "passkey" => Account(s, u) \in accounts /\ s # "guest"
    BY DEF AuthenticateV2
  <2>2. s # "guest" => a = Account(s, u)
    OBVIOUS
  <2> QED BY <2>1, <2>2 DEF Social
<1>4. s = "guest" => ~VerifiedAtOnce(a)
  BY DEF Fresh, Guests, VerifiedAtOnce
<1> HIDE DEF step
<1>5. /\ q \in Progress /\ q.step = step /\ q.kind = "signIn" /\ q.strategy = s /\ q.user = u
      /\ q.account = a /\ q.profile = NoOne
  BY <1>2, <1>3 DEF Progress, Known, Steps, IdleSignIn
<1> HIDE DEF q
<1>6. UNCHANGED <<rows, identity>>
  BY DEF AuthenticateV2
<1>7. Reached(q)'
  <2>1. step # "social" /\ s # "guest" => a \in proven'
    BY <1>1, <1>3 DEF Social
  <2>2. accounts' = accounts /\ (step = "verify" => s # "guest")
    BY <1>3, <1>6 DEF rows
  <2> QED BY <1>2, <1>3, <1>4, <1>5, <2>1, <2>2 DEF Reached, VerifiedAtOnce
<1>8. proven \subseteq proven' /\ proven' \subseteq AllAccounts
  BY <1>1, <1>2 DEF SignInInv, SignInTypeOK
<1> QED BY <1>1, <1>5, <1>6, <1>7, <1>8, OneGoesAlone DEF q

LEMMA RegisterKeeps ==
  ASSUME SignInInv, NEW r \in SignIns, NEW u \in Users, RegisterNewUserWithPasskey(r, u)
  PROVE  SignInInv'
<1> DEFINE a == Account("passkey", u)
           q == [IdleSignIn EXCEPT !.step = "find", !.kind = "register", !.strategy = "passkey",
                                    !.user = u, !.account = a]
<1>1. /\ "passkey" \in Strategies \ {"guest"}
      /\ req' = [req EXCEPT ![r] = q] /\ proven' = proven \cup {a}
      /\ UNCHANGED <<rows, identity>>
  BY DEF RegisterNewUserWithPasskey
<1>2. a \in AllAccounts
  BY <1>1, AccountKnown
<1> HIDE DEF a
<1>3. q \in Progress /\ q.step = "find" /\ q.account = a
  BY <1>1, <1>2 DEF Progress, Known, Steps, IdleSignIn
<1> HIDE DEF q
<1>4. Reached(q)'
  BY <1>1, <1>2, <1>3 DEF Reached
<1>5. proven \subseteq proven' /\ proven' \subseteq AllAccounts
  BY <1>1, <1>2 DEF SignInInv, SignInTypeOK
<1> QED BY <1>1, <1>3, <1>4, <1>5, OneGoesAlone

\* The three ways to link: what is proved at least includes a wallet.
LEMMA LinksKeep ==
  ASSUME SignInInv, NEW r \in SignIns, NEW by \in accounts, NEW kind \in {"link", "linkOnly"},
         NEW s \in Strategies, NEW b \in AllAccounts, Links(r, by, kind, s, b),
         proven' \in {proven, proven \cup {b}}, VerifiedAtOnce(b) => b \in proven'
  PROVE  SignInInv'
<1> DEFINE q == [IdleSignIn EXCEPT !.step = "find", !.kind = kind, !.strategy = s, !.account = b,
                                    !.by = by]
<1>1. req' = [req EXCEPT ![r] = q] /\ UNCHANGED <<rows, identity>>
  BY DEF Links
<1>2. by \in AllAccounts
  BY DEF SignInInv, SignInTypeOK
<1>3. q \in Progress /\ q.step = "find" /\ q.account = b /\ q.kind = kind
  BY <1>2 DEF Progress, Known, Steps, IdleSignIn
<1> HIDE DEF q
<1>4. Reached(q)'
  BY <1>3 DEF Reached, VerifiedAtOnce
<1>5. proven \subseteq proven' /\ proven' \subseteq AllAccounts
  BY DEF SignInInv, SignInTypeOK
<1> QED BY <1>1, <1>3, <1>4, <1>5, OneGoesAlone

\* Nobody is told to be the owner of a social account by the type of its row.
LEMMA SocialTargets ==
  ASSUME NEW s \in Social, NEW u \in Users, NEW b \in AccountsOf(s, u)
  PROVE  ~VerifiedAtOnce(b)
BY DEF AccountsOf, Account, QualifiedAccount, VerifiedAtOnce

LEMMA BeginKeeps ==
  ASSUME SignInInv, NEW r \in SignIns,
         \/ \E u \in Users : RegisterNewUserWithPasskey(r, u)
         \/ \E s \in Strategies, u \in Users :
              \/ AuthenticateV2(r, s, u)
              \/ \E a \in accounts : LinkAccounts(r, a, s, u) \/ LinkSocialAccount(r, a, s, u)
         \/ \E a \in accounts, u \in Users : LinkAccountToProfile(r, a, u)
  PROVE  SignInInv'
<1>1. ASSUME NEW by \in accounts, NEW s \in Strategies, NEW u \in Users, LinkAccounts(r, by, s, u)
      PROVE  SignInInv'
  <2>1. PICK b \in AccountsOf(s, u) :
          /\ Links(r, by, "link", s, b)
          /\ proven' = IF s \in Stated THEN proven \cup {b} ELSE proven
    BY <1>1 DEF LinkAccounts
  <2>2. s \in Stated \cup Social /\ s # "guest"
    BY <1>1 DEF LinkAccounts, Stated, Social
  <2>3. b \in AllAccounts
    BY <2>2, AccountKnown DEF AccountsOf
  <2>4. VerifiedAtOnce(b) => b \in proven'
    BY <2>1, <2>2, SocialTargets
  <2> QED BY <2>1, <2>3, <2>4, LinksKeep
<1>2. ASSUME NEW by \in accounts, NEW s \in Strategies, NEW u \in Users,
             LinkSocialAccount(r, by, s, u)
      PROVE  SignInInv'
  <2>1. PICK b \in AccountsOf(s, u) : Links(r, by, "linkOnly", s, b)
    BY <1>2 DEF LinkSocialAccount
  <2>2. s \in Social /\ s # "guest" /\ UNCHANGED proven
    BY <1>2 DEF LinkSocialAccount, Social
  <2>3. b \in AllAccounts /\ ~VerifiedAtOnce(b)
    BY <2>2, AccountKnown, SocialTargets DEF AccountsOf
  <2> QED BY <2>1, <2>2, <2>3, LinksKeep
<1>3. ASSUME NEW by \in accounts, NEW u \in Users, LinkAccountToProfile(r, by, u)
      PROVE  SignInInv'
  <2> DEFINE b == Account("wallet", u)
  <2>1. /\ "wallet" \in Strategies \ {"guest"} /\ Links(r, by, "linkOnly", "wallet", b)
        /\ proven' = proven \cup {b}
    BY <1>3 DEF LinkAccountToProfile
  <2>2. b \in AllAccounts
    BY <2>1, AccountKnown
  <2> HIDE DEF b
  <2>3. b \in proven'
    BY <2>1
  <2> QED BY <2>1, <2>2, <2>3, LinksKeep
<1> QED BY <1>1, <1>2, <1>3, AuthenticateKeeps, RegisterKeeps

\* A request goes to another step and changes nothing else.
LEMMA OnlyGoes ==
  ASSUME SignInInv, NEW r \in SignIns, NEW s \in Steps, Goes(r, s),
         UNCHANGED <<rows, identity, proven>>, Reached([req[r] EXCEPT !.step = s])
  PROVE  SignInInv'
<1>1. req[r] \in Progress
  BY DEF SignInInv, RequestsTyped
<1>2. PICK q \in Progress : q = [req[r] EXCEPT !.step = s]
  <2>1. [req[r] EXCEPT !.step = s] \in Progress
    BY <1>1 DEF Progress
  <2> QED BY <2>1
<1>3. req' = [req EXCEPT ![r] = q]
  BY <1>2 DEF Goes, SignInInv, RequestsTyped
<1>4. Grow /\ Reached(q)
  BY <1>2 DEF rows, identity, Grow
<1>5. Reached(q)'
  BY <1>4, ReachedStays
<1>6. proven \subseteq proven' /\ proven' \subseteq AllAccounts
  BY DEF SignInInv, SignInTypeOK
<1> QED BY <1>2, <1>3, <1>5, <1>6, OneGoesAlone

LEMMA IdleReached == IdleSignIn \in Progress /\ Reached(IdleSignIn) /\ Reached(IdleSignIn)'
BY DEF IdleSignIn, Progress, Steps, Known, Reached

\* A request ends, whatever it was about, and changes nothing else.
LEMMA OnlyEnds ==
  ASSUME SignInInv, NEW r \in SignIns, Ends(r), UNCHANGED <<rows, identity, proven>>
  PROVE  SignInInv'
<1>1. proven \subseteq proven' /\ proven' \subseteq AllAccounts
  BY DEF SignInInv, SignInTypeOK
<1> QED BY <1>1, IdleReached, OneGoesAlone DEF Ends

\* What every step of a request that writes starts from.
LEMMA Writes ==
  ASSUME SignInInv, NEW r \in SignIns, NEW s \in Steps, Goes(r, s)
  PROVE  \E q \in Progress :
           /\ req' = [req EXCEPT ![r] = q]
           /\ q.step = s /\ q.kind = req[r].kind /\ q.strategy = req[r].strategy
           /\ q.user = req[r].user /\ q.account = req[r].account /\ q.profile = req[r].profile
<1>1. req[r] \in Progress
  BY DEF SignInInv, RequestsTyped
<1> DEFINE q == [req[r] EXCEPT !.step = s]
<1>2. /\ q \in Progress
      /\ q.step = s /\ q.kind = req[r].kind /\ q.strategy = req[r].strategy
      /\ q.user = req[r].user /\ q.account = req[r].account /\ q.profile = req[r].profile
  BY <1>1 DEF Progress
<1>3. req' = [req EXCEPT ![r] = q]
  BY DEF Goes, SignInInv, RequestsTyped
<1> QED BY <1>2, <1>3

LEMMA SocialKeeps ==
  ASSUME SignInInv, NEW r \in SignIns, NEW named \in BOOLEAN, SocialTransaction(r, named)
  PROVE  SignInInv'
<1> DEFINE a == QualifiedAccount(req[r].strategy, req[r].user)
           b == req[r].account
<1>1. /\ req[r].step = "social"
      /\ accounts' = accounts \cup {a}
      /\ verified' = IF a \in accounts THEN verified ELSE verified \cup {a}
      /\ sessions' = sessions \cup {[account |-> a, known |-> FALSE]}
      /\ device' \in {a, device}
      /\ proven' = proven \cup {a, b}
      /\ Goes(r, "find") /\ "find" \in Steps
      /\ UNCHANGED identity
  BY DEF SocialTransaction, Registered, Steps
<1>2. /\ req[r].strategy \in Social \cap Strategies /\ req[r].user \in Users
      /\ b \in AllAccounts
  BY <1>1 DEF SignInInv, RequestsReached, Reached
<1>3. a \in AllAccounts
  <2>1. req[r].strategy \in Strategies \ {"guest"}
    BY <1>2 DEF Social
  <2> QED BY <1>2, <2>1, AccountKnown
<1> HIDE DEF a
<1>4. PICK q \in Progress : req' = [req EXCEPT ![r] = q] /\ q.step = "find" /\ q.account = b
  BY <1>1, Writes
<1>5. Grow /\ VerifiedIsProven' /\ AccessGranted'
  BY <1>1 DEF identity, Grow, SignInInv, VerifiedIsProven, AccessGranted
<1>6. Reached(q)'
  BY <1>1, <1>2, <1>4 DEF Reached
<1>7. accounts' \subseteq AllAccounts /\ verified' \subseteq accounts' /\ proven' \subseteq AllAccounts
  BY <1>1, <1>2, <1>3 DEF SignInInv, SignInTypeOK
<1>8. \A x \in sessions' : x.account \in accounts'
  BY <1>1 DEF SignInInv, SignInTypeOK
<1>9. device' \in accounts' \cup {NoOne}
  BY <1>1 DEF SignInInv, SignInTypeOK
<1>10. /\ profile' \in [Profiles -> {"unused", "live", "deleted"}]
       /\ access' \subseteq accounts' \X {p \in Profiles : profile'[p] = "live"}
       /\ active' \subseteq {p \in Profiles : profile'[p] = "live"}
  BY <1>1 DEF identity, SignInInv, SignInTypeOK
<1> QED BY <1>4, <1>5, <1>6, <1>7, <1>8, <1>9, <1>10, OneGoes

\* The steps that only read, the reply, and whatever fails.
LEMMA ReadingKeeps ==
  ASSUME SignInInv, NEW r \in SignIns, FindAccount(r) \/ RequestFails(r) \/ SignInReply(r)
  PROVE  SignInInv'
<1> DEFINE Gone(s) == [req[r] EXCEPT !.step = s]
<1>1. req[r] \in Progress /\ Reached(req[r])
  BY DEF SignInInv, RequestsTyped, RequestsReached
<1>2. \A s \in Steps :
        /\ Gone(s).step = s /\ Gone(s).kind = req[r].kind /\ Gone(s).strategy = req[r].strategy
        /\ Gone(s).user = req[r].user /\ Gone(s).account = req[r].account
        /\ Gone(s).profile = req[r].profile
  BY <1>1 DEF Progress
<1>3. {"create", "link", "verify", "done"} \subseteq Steps
  BY DEF Steps
<1> HIDE DEF Gone
<1>4. CASE FindAccount(r)
  <2>1. req[r].step = "find" /\ UNCHANGED <<rows, identity, proven>>
    BY <1>4 DEF FindAccount
  <2>2. PICK s \in {"create", "link", "verify", "none"} :
          /\ IF s = "none" THEN Ends(r) ELSE Goes(r, s)
          /\ s \in {"link", "verify"} => req[r].account \in accounts
          /\ s = "verify" => req[r].kind \in {"signIn", "register"}
    BY <1>1, <1>4 DEF Progress, FindAccount, HasAccount
  <2>3. CASE s = "none"
    BY <2>1, <2>2, <2>3, OnlyEnds
  <2>4. CASE s # "none"
    <3>1. Reached(Gone(s)) /\ Goes(r, s) /\ s \in Steps
      BY <1>1, <1>2, <1>3, <2>1, <2>2, <2>4 DEF Reached
    <3> QED BY <2>1, <3>1, OnlyGoes DEF Gone
  <2> QED BY <2>3, <2>4
<1>5. CASE RequestFails(r)
  BY <1>5, OnlyEnds DEF RequestFails
<1>6. CASE SignInReply(r)
  <2>1. req[r].step = "tokens" /\ Goes(r, "done") /\ UNCHANGED <<rows, identity, proven>>
    BY <1>6 DEF SignInReply
  <2>2. Reached(Gone("done"))
    BY <1>1, <1>2, <1>3, <2>1 DEF Reached
  <2> QED BY <1>3, <2>1, <2>2, OnlyGoes DEF Gone
<1> QED BY <1>4, <1>5, <1>6

LEMMA CreateKeeps ==
  ASSUME SignInInv, NEW r \in SignIns, CreateAccount(r)
  PROVE  SignInInv'
<1> DEFINE a == req[r].account
<1>1. req[r].step = "create" /\ UNCHANGED <<sessions, device, identity, proven>>
  BY DEF CreateAccount
<1>2. Reached(req[r]) /\ a \in AllAccounts
  BY <1>1 DEF SignInInv, RequestsReached, Reached
<1>3. CASE a \in accounts
  BY <1>1, <1>3, OnlyEnds DEF CreateAccount, rows
<1>4. CASE a \notin accounts
  <2>1. /\ accounts' = accounts \cup {a}
        /\ verified' = IF VerifiedAtOnce(a) THEN verified \cup {a} ELSE verified
    BY <1>4 DEF CreateAccount
  <2>2. PICK s \in {"link", "verify", "none"} :
          /\ IF s = "none" THEN Ends(r) ELSE Goes(r, s)
          /\ s = "verify" => req[r].kind \in {"signIn", "register"}
    <3>1. req[r] \in Progress
      BY DEF SignInInv, RequestsTyped
    <3> QED BY <1>4, <3>1 DEF CreateAccount, HasAccount, Progress
  <2>3. {"link", "verify"} \subseteq Steps
    BY DEF Steps
  <2>4. PICK q \in Progress :
          /\ req' = [req EXCEPT ![r] = q]
          /\ \/ q = IdleSignIn
             \/ /\ q.step \in {"link", "verify"} /\ q.account = a
                /\ q.kind = req[r].kind /\ q.strategy = req[r].strategy
                /\ q.step = "verify" => q.kind \in {"signIn", "register"}
    <3>1. CASE s = "none"
      BY <2>2, <3>1, IdleReached DEF Ends
    <3>2. CASE s # "none"
      <4>1. Goes(r, s) /\ s \in {"link", "verify"} /\ s \in Steps
        BY <2>2, <2>3, <3>2
      <4> QED BY <2>2, <4>1, Writes
    <3> QED BY <3>1, <3>2
  <2>5. VerifiedAtOnce(a) => a \in proven
    BY <1>1, <1>2 DEF Reached
  <2>6. Grow /\ AccessGranted' /\ VerifiedIsProven'
    BY <1>1, <2>1, <2>5 DEF identity, Grow, SignInInv, AccessGranted, VerifiedIsProven
  <2>7. Reached(q)'
    BY <1>1, <1>2, <2>1, <2>4, IdleReached DEF Reached, VerifiedAtOnce
  <2>8. accounts' \subseteq AllAccounts /\ verified' \subseteq accounts' /\ proven' \subseteq AllAccounts
    BY <1>1, <1>2, <2>1 DEF SignInInv, SignInTypeOK
  <2>9. /\ \A x \in sessions' : x.account \in accounts'
        /\ device' \in accounts' \cup {NoOne}
    BY <1>1, <2>1 DEF SignInInv, SignInTypeOK
  <2>10. /\ profile' \in [Profiles -> {"unused", "live", "deleted"}]
         /\ access' \subseteq accounts' \X {p \in Profiles : profile'[p] = "live"}
         /\ active' \subseteq {p \in Profiles : profile'[p] = "live"}
    BY <1>1, <2>1 DEF identity, SignInInv, SignInTypeOK
  <2> QED BY <2>4, <2>6, <2>7, <2>8, <2>9, <2>10, OneGoes
<1> QED BY <1>3, <1>4

LEMMA VerifyKeeps ==
  ASSUME SignInInv, NEW r \in SignIns, VerifyAccount(r)
  PROVE  SignInInv'
<1> DEFINE a == req[r].account
           s == AfterVerification(r)
<1>1. /\ req[r].step = "verify" /\ Goes(r, s)
      /\ verified' = IF req[r].strategy = "guest" THEN verified ELSE verified \cup {a}
      /\ UNCHANGED <<accounts, sessions, device, identity, proven>>
  BY DEF VerifyAccount
<1>2. s \in {"automatic", "profiles"} /\ s \in Steps
  BY DEF AfterVerification, Steps
<1>3. Reached(req[r]) /\ a \in AllAccounts /\ a \in accounts
  BY <1>1 DEF SignInInv, RequestsReached, Reached
<1>4. req[r].strategy # "guest" => a \in proven
  BY <1>1, <1>3 DEF Reached
<1> HIDE DEF s
<1>5. PICK q \in Progress : /\ req' = [req EXCEPT ![r] = q] /\ q.step = s /\ q.account = a
                            /\ q.strategy = req[r].strategy /\ q.kind = req[r].kind
  BY <1>1, <1>2, Writes
<1>6. Grow /\ AccessGranted' /\ VerifiedIsProven'
  BY <1>1, <1>4 DEF identity, Grow, SignInInv, AccessGranted, VerifiedIsProven
<1>7. a \in accounts' /\ (req[r].strategy = "guest" \/ a \in verified')
  BY <1>1, <1>3
<1>8. Reached(q)'
  BY <1>1, <1>2, <1>3, <1>5, <1>7 DEF Reached, VerifiedAtOnce
<1>9. verified' \subseteq accounts' /\ proven' \subseteq AllAccounts
  BY <1>1, <1>3 DEF SignInInv, SignInTypeOK
<1> QED BY <1>1, <1>5, <1>6, <1>8, <1>9, OneGoes DEF identity, SignInInv, SignInTypeOK

LEMMA ReadProfilesKeeps ==
  ASSUME SignInInv, NEW r \in SignIns, ReadProfiles(r)
  PROVE  SignInInv'
<1> DEFINE mine == GetDirectlyLinkedProfiles(req[r].account)
<1>1. PICK p : /\ p \in mine \/ p = NoOne
               /\ req' = [req EXCEPT ![r].profile = p, ![r].step = "session"]
  BY DEF ReadProfiles
<1>2. /\ req[r].step = "profiles" /\ UNCHANGED <<rows, identity, proven>>
      /\ req[r] \in Progress /\ Reached(req[r])
  BY DEF ReadProfiles, SignInInv, RequestsTyped, RequestsReached
<1>3. PICK q : q = [req[r] EXCEPT !.profile = p, !.step = "session"]
  OBVIOUS
<1>4. p \in Profiles \cup {NoOne} /\ (p # NoOne => <<req[r].account, p>> \in granted)
  BY <1>1 DEF GetDirectlyLinkedProfiles, SignInInv, AccessGranted
<1>5. q \in Progress
  BY <1>2, <1>3, <1>4 DEF Progress, Steps
<1>6. /\ q.step = "session" /\ q.account = req[r].account /\ q.profile = p
      /\ q.strategy = req[r].strategy /\ q.kind = req[r].kind
  BY <1>2, <1>3 DEF Progress
<1>7. Reached(q)'
  BY <1>2, <1>4, <1>6 DEF Reached, rows, identity, VerifiedAtOnce
<1>8. req' = [req EXCEPT ![r] = q]
  BY <1>1, <1>3 DEF SignInInv, RequestsTyped
<1>9. proven \subseteq proven' /\ proven' \subseteq AllAccounts
  BY <1>2 DEF SignInInv, SignInTypeOK
<1> QED BY <1>2, <1>5, <1>7, <1>8, <1>9, OneGoesAlone

LEMMA SessionKeeps ==
  ASSUME SignInInv, NEW r \in SignIns, CreateSession(r)
  PROVE  SignInInv'
<1> DEFINE a == req[r].account
<1>1. /\ req[r].step = "session" /\ Goes(r, "tokens") /\ "tokens" \in Steps
      /\ sessions' = sessions \cup {[account |-> a, known |-> TRUE]}
      /\ UNCHANGED <<accounts, verified, device, identity, proven>>
  BY DEF CreateSession, Steps
<1>2. Reached(req[r]) /\ a \in accounts
  BY <1>1 DEF SignInInv, RequestsReached, Reached
<1>3. PICK q \in Progress : /\ req' = [req EXCEPT ![r] = q] /\ q.step = "tokens"
                            /\ q.account = a /\ q.strategy = req[r].strategy
                            /\ q.profile = req[r].profile /\ q.kind = req[r].kind
  BY <1>1, Writes
<1>4. Grow /\ AccessGranted' /\ VerifiedIsProven'
  BY <1>1 DEF identity, Grow, SignInInv, AccessGranted, VerifiedIsProven
<1>5. /\ a \in AllAccounts /\ a \in accounts'
      /\ req[r].strategy = "guest" \/ a \in verified'
      /\ req[r].profile # NoOne => <<a, req[r].profile>> \in granted'
      /\ [account |-> a, known |-> TRUE] \in sessions'
  BY <1>1, <1>2 DEF identity, Reached
<1>6. Reached(q)'
  BY <1>1, <1>2, <1>3, <1>5 DEF Reached, VerifiedAtOnce
<1>7. \A x \in sessions' : x.account \in accounts'
  BY <1>1, <1>2 DEF SignInInv, SignInTypeOK
<1> QED BY <1>1, <1>3, <1>4, <1>6, <1>7, OneGoes DEF identity, SignInInv, SignInTypeOK

LEMMA AutomaticKeeps ==
  ASSUME SignInInv, NEW r \in SignIns, NEW p \in Profiles, CreateAutomaticProfile(r, p)
  PROVE  SignInInv'
<1> DEFINE a == req[r].account
<1>1. /\ req[r].step = "automatic" /\ profile' = [profile EXCEPT ![p] = "live"]
      /\ active' = active \cup {p}
      /\ access' = access \cup {<<a, p>>} /\ granted' = granted \cup {<<a, p>>}
      /\ req' = [req EXCEPT ![r].profile = p, ![r].step = "session"]
      /\ UNCHANGED <<rows, proven>>
  BY DEF CreateAutomaticProfile
<1>2. req[r] \in Progress /\ Reached(req[r]) /\ a \in accounts
  BY <1>1 DEF SignInInv, RequestsTyped, RequestsReached, Reached
<1>3. PICK q : q = [req[r] EXCEPT !.profile = p, !.step = "session"]
  OBVIOUS
<1>4. q \in Progress
  BY <1>2, <1>3 DEF Progress, Steps
<1>5. /\ q.step = "session" /\ q.account = a /\ q.profile = p
      /\ q.strategy = req[r].strategy /\ q.kind = req[r].kind
  BY <1>2, <1>3 DEF Progress
<1>6. req' = [req EXCEPT ![r] = q]
  BY <1>1, <1>3 DEF SignInInv, RequestsTyped
<1>7. Grow /\ AccessGranted' /\ VerifiedIsProven'
  BY <1>1 DEF rows, Grow, SignInInv, AccessGranted, VerifiedIsProven
<1>8. /\ a \in AllAccounts /\ a \in accounts' /\ <<a, p>> \in granted'
      /\ req[r].strategy = "guest" \/ a \in verified'
  BY <1>1, <1>2 DEF rows, Reached
<1>9. Reached(q)'
  BY <1>1, <1>2, <1>5, <1>8 DEF Reached, VerifiedAtOnce
<1>10. /\ profile' \in [Profiles -> {"unused", "live", "deleted"}]
       /\ \A o \in Profiles : profile[o] = "live" \/ o = p => profile'[o] = "live"
  BY <1>1 DEF SignInInv, SignInTypeOK
<1>11. /\ access' \subseteq accounts' \X {o \in Profiles : profile'[o] = "live"}
       /\ active' \subseteq {o \in Profiles : profile'[o] = "live"}
  BY <1>1, <1>2, <1>10 DEF rows, SignInInv, SignInTypeOK
<1> QED BY <1>1, <1>4, <1>6, <1>7, <1>9, <1>10, <1>11, OneGoes DEF rows, SignInInv, SignInTypeOK

LEMMA LinkKeeps ==
  ASSUME SignInInv, NEW r \in SignIns, LinkTarget(r)
  PROVE  SignInInv'
<1> DEFINE b == req[r].account
           mine == {b} \X {p \in Profiles : <<req[r].by, p>> \in access}
<1>1. PICK shared \in SUBSET mine : access' = access \cup shared /\ granted' = granted \cup shared
  BY DEF LinkTarget
<1>2. /\ req[r].step = "link" /\ req' = [req EXCEPT ![r] = IdleSignIn]
      /\ UNCHANGED <<rows, profile, active, proven>>
  BY DEF LinkTarget, Ends
<1>3. b \in accounts
  BY <1>2 DEF SignInInv, RequestsReached, Reached
<1>4. shared \subseteq accounts \X {p \in Profiles : profile[p] = "live"}
  BY <1>1, <1>3 DEF SignInInv, SignInTypeOK
<1> HIDE DEF mine
<1>5. Grow /\ AccessGranted' /\ VerifiedIsProven'
  BY <1>1, <1>2 DEF rows, Grow, SignInInv, AccessGranted, VerifiedIsProven
<1>6. access' \subseteq accounts' \X {p \in Profiles : profile'[p] = "live"}
  BY <1>1, <1>2, <1>4 DEF rows, SignInInv, SignInTypeOK
<1> QED BY <1>2, <1>5, <1>6, IdleReached, OneGoes DEF rows, SignInInv, SignInTypeOK

\* What signed-in accounts do with their profiles is no business of the
\* requests: access that was granted stays so, whoever loses it.
LEMMA ProfilesKeep ==
  ASSUME SignInInv, NEW a \in accounts, NEW p \in Profiles,
         CreateProfile(a, p) \/ SwitchProfile(a, p) \/ DeleteProfile(a, p)
  PROVE  SignInInv'
<1>1. UNCHANGED <<rows, req, proven>>
  BY DEF CreateProfile, SwitchProfile, DeleteProfile
<1>2. granted \subseteq granted' /\ AccessGranted'
  BY DEF CreateProfile, SwitchProfile, DeleteProfile, AccessWithout, SignInInv, AccessGranted
<1>3. Grow
  BY <1>1, <1>2 DEF rows, Grow
<1>4. RequestsTyped' /\ VerifiedIsProven'
  BY <1>1 DEF rows, SignInInv, RequestsTyped, VerifiedIsProven
<1>5. RequestsReached'
  BY <1>1, <1>3, ReachedStays DEF SignInInv, RequestsReached
<1>6. /\ profile' \in [Profiles -> {"unused", "live", "deleted"}]
      /\ access' \subseteq accounts \X {o \in Profiles : profile'[o] = "live"}
      /\ active' \subseteq {o \in Profiles : profile'[o] = "live"}
  <2>1. CASE CreateProfile(a, p)
    <3>1. /\ profile' = [profile EXCEPT ![p] = "live"] /\ access' = access \cup {<<a, p>>}
          /\ UNCHANGED active
      BY <2>1 DEF CreateProfile
    <3>2. /\ profile' \in [Profiles -> {"unused", "live", "deleted"}]
          /\ \A o \in Profiles : profile[o] = "live" \/ o = p => profile'[o] = "live"
      BY <3>1 DEF SignInInv, SignInTypeOK
    <3> QED BY <3>1, <3>2 DEF SignInInv, SignInTypeOK
  <2>2. CASE SwitchProfile(a, p)
    BY <2>2 DEF SwitchProfile, SignInInv, SignInTypeOK
  <2>3. CASE DeleteProfile(a, p)
    <3>1. /\ profile' = [profile EXCEPT ![p] = "deleted"]
          /\ access' = {row \in access : row[2] # p} /\ active' = active \ {p}
      BY <2>3 DEF DeleteProfile, AccessWithout
    <3>2. /\ profile' \in [Profiles -> {"unused", "live", "deleted"}]
          /\ \A o \in Profiles \ {p} : profile'[o] = profile[o]
      BY <3>1 DEF SignInInv, SignInTypeOK
    <3> QED BY <3>1, <3>2 DEF SignInInv, SignInTypeOK
  <2> QED BY <2>1, <2>2, <2>3
<1>7. SignInTypeOK'
  BY <1>1, <1>6 DEF rows, SignInInv, SignInTypeOK
<1> QED BY <1>2, <1>4, <1>5, <1>7 DEF SignInInv

LEMMA RestartKeeps == SignInInv /\ Restart => SignInInv'
<1> SUFFICES ASSUME SignInInv, Restart PROVE SignInInv'
  OBVIOUS
<1>1. /\ req' = [r \in SignIns |-> IF Running(r) THEN IdleSignIn ELSE req[r]]
      /\ UNCHANGED <<rows, identity, proven>>
  BY DEF Restart
<1>2. IdleSignIn \in Progress /\ Reached(IdleSignIn)
  BY IdleReached
<1>3. \A r \in SignIns : req'[r] \in Progress /\ Reached(req'[r])
  BY <1>1, <1>2 DEF SignInInv, RequestsTyped, RequestsReached
<1>4. RequestsTyped'
  BY <1>1, <1>3 DEF RequestsTyped
<1>5. RequestsReached'
  BY <1>1, <1>3 DEF rows, identity, RequestsReached, Reached, VerifiedAtOnce
<1>6. SignInTypeOK'
  BY <1>1, <1>3 DEF rows, identity, SignInInv, SignInTypeOK, Progress, Known
<1> QED BY <1>1, <1>4, <1>5, <1>6 DEF rows, identity, SignInInv, VerifiedIsProven, AccessGranted

LEMMA SignInStep == SignInInv /\ Next => SignInInv'
<1> SUFFICES ASSUME SignInInv, Next PROVE SignInInv'
  OBVIOUS
<1>1. ASSUME NEW r \in SignIns, RequestSteps(r) PROVE SignInInv'
  BY <1>1, SocialKeeps, ReadingKeeps, CreateKeeps, VerifyKeeps, ReadProfilesKeeps, SessionKeeps,
     AutomaticKeeps, LinkKeeps
  DEF RequestSteps
<1>2. ASSUME NEW r \in SignIns,
             \/ \E u \in Users : RegisterNewUserWithPasskey(r, u)
             \/ \E s \in Strategies, u \in Users :
                  \/ AuthenticateV2(r, s, u)
                  \/ \E a \in accounts : LinkAccounts(r, a, s, u) \/ LinkSocialAccount(r, a, s, u)
             \/ \E a \in accounts, u \in Users : LinkAccountToProfile(r, a, u)
      PROVE  SignInInv'
  BY <1>2, BeginKeeps
<1>3. ASSUME NEW a \in accounts, NEW p \in Profiles,
             CreateProfile(a, p) \/ SwitchProfile(a, p) \/ DeleteProfile(a, p)
      PROVE  SignInInv'
  BY <1>3, ProfilesKeep
<1> QED BY <1>1, <1>2, <1>3, RestartKeeps DEF Next

LEMMA SignInInvariance == Spec => []SignInInv
<1>1. SignInInv /\ UNCHANGED vars => SignInInv'
  <2> SUFFICES ASSUME SignInInv, UNCHANGED vars PROVE SignInInv'
    OBVIOUS
  <2>1. UNCHANGED <<accounts, verified, sessions, device, access, profile, active, granted, req, proven>>
    BY DEF vars, rows, identity
  <2>2. SignInTypeOK' /\ RequestsTyped'
    BY <2>1 DEF SignInInv, SignInTypeOK, RequestsTyped
  <2>3. RequestsReached'
    BY <2>1 DEF SignInInv, RequestsReached, Reached, VerifiedAtOnce
  <2> QED BY <2>1, <2>2, <2>3 DEF SignInInv, VerifiedIsProven, AccessGranted
<1> QED BY SignInInit, SignInStep, <1>1, PTL DEF Spec

-----------------------------------------------------------------------------
(* The theorems.                                                           *)

\* Every row names rows that are there: verified accounts, sessions, the
\* device's account and access never outlive what they are about.
THEOREM SignInTypeCorrect == Spec => []SignInTypeOK
<1>1. SignInInv => SignInTypeOK
  BY DEF SignInInv
<1> QED BY <1>1, SignInInvariance, PTL

\* A sign-in that succeeds has a session of its account, which unless it is a
\* guest's is verified, whichever branch of authenticateV2 made it.
THEOREM SignedInVerified == Spec => []SignedInIsVerified
<1>1. SignInInv => SignedInIsVerified
  BY DEF SignInInv, RequestsReached, Reached, SignedInIsVerified, Succeeded
<1> QED BY <1>1, SignInInvariance, PTL

\* authenticateV2 names no profile in its tokens that the account was not given.
THEOREM OwnProfileNamed == Spec => []TokensNameOwnProfile
<1>1. SignInInv => TokensNameOwnProfile
  BY DEF SignInInv, RequestsReached, Reached, TokensNameOwnProfile, Succeeded
<1> QED BY <1>1, SignInInvariance, PTL

\* No row is marked as verified before somebody proved to own it: the rows that
\* are made for an id taken from a request stay unverified until then.
THEOREM VerifiedWasProven == Spec => []VerifiedIsProven
<1>1. SignInInv => VerifiedIsProven
  BY DEF SignInInv
<1> QED BY <1>1, SignInInvariance, PTL

-----------------------------------------------------------------------------
(* Seconds and steps.                                                      *)

LEMMA TimesMonotone == \A m, n, u \in Nat : m <= n => m * u <= n * u
<1> SUFFICES ASSUME NEW m \in Nat, NEW n \in Nat, NEW u \in Nat, m <= n PROVE m * u <= n * u
  OBVIOUS
<1>1. PICK d \in Nat : n = m + d
  <2>1. n - m \in Nat /\ n = m + (n - m)
    OBVIOUS
  <2> QED BY <2>1
<1>2. n * u = m * u + d * u /\ d * u \in Nat /\ m * u \in Nat
  BY <1>1
<1> QED BY <1>2

LEMMA Division ==
  \A n \in Nat, u \in Nat \ {0} :
    /\ n \div u \in Nat
    /\ (n \div u) * u <= n
    /\ n < (n \div u) * u + u
OBVIOUS

\* The clock shows an earlier second just when it shows an earlier step.
LEMMA Earlier ==
  ASSUME NEW n \in Nat, NEW e \in Nat
  PROVE  n \div Unit < e <=> n < e * Unit
<1> DEFINE q == n \div Unit
<1>1. q \in Nat /\ Unit \in Nat /\ q * Unit \in Nat /\ e * Unit \in Nat
  BY SessionConstants, Division
<1>2. q * Unit <= n /\ n < q * Unit + Unit
  BY SessionConstants, Division
<1>3. (q + 1) * Unit = q * Unit + Unit
  BY <1>1
<1>4. q < e => q * Unit + Unit <= e * Unit
  BY <1>1, <1>3, TimesMonotone
<1>5. e <= q => e * Unit <= q * Unit
  BY <1>1, TimesMonotone
<1> HIDE DEF q
<1>6. q < e <=> n < e * Unit
  BY <1>1, <1>2, <1>4, <1>5
<1> QED BY <1>6 DEF q

\* Rounded up, the remaining time of a token reaches its expiry.
LEMMA RoundedUp ==
  ASSUME NEW t \in Tokens, now \in Nat, token[t].exp \in Nat, Valid(t)
  PROVE  /\ TtlSeconds(t) \in Nat
         /\ now + TtlSeconds(t) * Unit >= token[t].exp * Unit
<1> DEFINE m == token[t].exp * Unit - now
<1>1. Unit \in Nat \ {0} /\ token[t].exp * Unit \in Nat
  BY SessionConstants
<1>2. now < token[t].exp * Unit
  BY Earlier DEF Valid
<1> DEFINE m1 == m + Unit - 1
<1>3. m \in Nat /\ m1 \in Nat
  BY <1>1, <1>2
<1>4. TtlSeconds(t) = m1 \div Unit
  BY <1>2 DEF TtlSeconds
<1> HIDE DEF m1
<1> DEFINE q == m1 \div Unit
<1>5. q \in Nat /\ m1 < q * Unit + Unit
  BY <1>1, <1>3, Division
<1> HIDE DEF q
<1>6. q * Unit \in Nat
  BY <1>1, <1>5
<1>7. m <= q * Unit
  BY <1>1, <1>3, <1>5, <1>6 DEF m1
<1> QED BY <1>1, <1>3, <1>4, <1>5, <1>6, <1>7 DEF q

-----------------------------------------------------------------------------
(* The invariant.                                                          *)

\* An issued token names a session.
Issued == \A t \in Tokens : token[t].kind # "unused" => token[t].session \in SessionIds

\* A session that a logout has ended is gone for good.
LoggedOutGone == \A s \in loggedOut : session[s] = "gone"

\* A logout under way holds the access token that it was sent with, and so does
\* one that was answered.
LogoutsHold ==
  /\ \A l \in Logouts : logout[l].pc = "deleted" =>
       logout[l].token \in Tokens /\ token[logout[l].token].kind = "access"
  /\ \A t \in presented : token[t].kind = "access"

\* A valid token's row in the blacklist stays until the token expires, ...
RowOutlives ==
  \A t \in Tokens : blacklist[t] # None =>
    /\ token[t].kind = "access"
    /\ Valid(t) => blacklist[t] >= token[t].exp * Unit

\* ... and a token that a logout killed has its row, or no session.
Gone(t) == session[token[t].session] = "gone"
PresentedDead == \A t \in presented : Valid(t) => blacklist[t] # None \/ Gone(t)

\* What a request remembers is so, and the steps behind it have looked.
Looked(r) ==
  /\ request[r].pc # "idle" /\ request[r].afterLogout =>
       token[request[r].token].session \in loggedOut
  /\ request[r].pc # "idle" /\ request[r].afterPresented => request[r].token \in presented
  /\ request[r].pc \in {"session", "passed"} => ~request[r].afterLogout
  /\ request[r].pc = "notBlacklisted" /\ Valid(request[r].token) /\ request[r].afterPresented =>
       Gone(request[r].token)
  /\ request[r].pc \in {"session", "passed"} /\ Valid(request[r].token) =>
       ~request[r].afterPresented
RequestsLooked == \A r \in Requests : Looked(r)

SessionInv ==
  /\ SessionTypeOK
  /\ Issued
  /\ LoggedOutGone
  /\ LogoutsHold
  /\ RowOutlives
  /\ PresentedDead
  /\ RequestsLooked

LEMMA SessionInvInit == SessionInit => SessionInv
  BY SessionConstants
  DEF SessionInit, SessionInv, SessionTypeOK, Issued, LoggedOutGone, LogoutsHold, RowOutlives,
      PresentedDead, Gone, RequestsLooked, Looked, NoToken, IdleRequest, IdleLogout

\* An issued token never changes, and an unused one is in no row, request or
\* logout.
LEMMA IssueKeeps ==
  ASSUME SessionInv, NEW s \in SessionIds, NEW issued \in Tokens, NEW refresh \in Tokens,
         IssueTokens(s, issued, refresh),
         UNCHANGED <<now, blacklist, request, logout, loggedOut, presented>>,
         session' \in [SessionIds -> {"unused", "live", "gone"}],
         \A u \in SessionIds : session[u] = "gone" => session'[u] = "gone"
  PROVE  SessionInv'
<1>1. /\ \A t \in Tokens : token[t].kind # "unused" => token'[t] = token[t]
      /\ \A t \in Tokens : token'[t] # token[t] => token'[t].session = s
  BY DEF SessionInv, SessionTypeOK, IssueTokens
<1>2. SessionTypeOK'
  <2>1. now \div Unit \in Nat /\ AccessSeconds \in Nat /\ RefreshSeconds \in Nat
    <3>1. now \in Nat /\ Unit \in Nat \ {0}
      BY SessionConstants DEF SessionInv, SessionTypeOK
    <3> QED BY <3>1, Division, SessionConstants
  <2> DEFINE Jwt == [kind : {"unused", "access", "refresh"}, session : SessionIds \cup {None},
                     exp : Nat]
  <2>2. /\ [kind |-> "access", session |-> s, exp |-> now \div Unit + AccessSeconds] \in Jwt
        /\ [kind |-> "refresh", session |-> s, exp |-> now \div Unit + RefreshSeconds] \in Jwt
    BY <2>1
  <2>3. token' \in [Tokens -> Jwt]
    BY <2>2 DEF SessionInv, SessionTypeOK, IssueTokens
  <2>4. \A r \in Requests : request'[r].pc # "idle" =>
          request'[r].token \in Tokens /\ token'[request'[r].token].kind = "access"
    BY <1>1 DEF SessionInv, SessionTypeOK
  <2> QED BY <2>3, <2>4 DEF SessionInv, SessionTypeOK
<1>3. Issued' /\ LoggedOutGone'
  BY <1>1 DEF SessionInv, SessionTypeOK, Issued, LoggedOutGone
<1>4. LogoutsHold'
  BY <1>1 DEF SessionInv, SessionTypeOK, LogoutsHold
<1>g. \A t \in Tokens : token[t].kind = "access" /\ Gone(t) => Gone(t)'
  BY <1>1 DEF SessionInv, Issued, Gone
<1>5. RowOutlives' /\ PresentedDead'
  BY <1>1, <1>g DEF SessionInv, SessionTypeOK, RowOutlives, PresentedDead, LogoutsHold, Valid
<1>6. RequestsLooked'
  BY <1>1, <1>g DEF SessionInv, SessionTypeOK, RequestsLooked, Looked, Valid
<1> QED BY <1>2, <1>3, <1>4, <1>5, <1>6 DEF SessionInv

\* A request that is refused has nothing to remember.
LEMMA RefuseKeeps ==
  ASSUME SessionInv, NEW r \in Requests, Refuse(r),
         UNCHANGED <<now, session, token, blacklist, logout, loggedOut, presented>>
  PROVE  SessionInv'
<1>1. request' \in [Requests ->
        [pc : {"idle", "verified", "notBlacklisted", "session", "passed"},
         token : Tokens \cup {None}, afterLogout : BOOLEAN, afterPresented : BOOLEAN]]
  BY DEF Refuse, IdleRequest, SessionInv, SessionTypeOK
<1>2. \A q \in Requests : request'[q] = IF q = r THEN IdleRequest ELSE request[q]
  BY DEF Refuse, SessionInv, SessionTypeOK
<1>3. SessionTypeOK'
  BY <1>1, <1>2 DEF SessionInv, SessionTypeOK, IdleRequest
<1>4. RequestsLooked'
  BY <1>2 DEF SessionInv, RequestsLooked, Looked, IdleRequest, Valid, Gone
<1> QED BY <1>3, <1>4
  DEF SessionInv, Issued, LoggedOutGone, LogoutsHold, RowOutlives, PresentedDead, Gone, Valid

\* A request that goes on must know what the next step promises.
LEMMA MoveKeeps ==
  ASSUME SessionInv, NEW r \in Requests, request[r].pc # "idle",
         NEW p \in {"notBlacklisted", "session", "passed"},
         request' = [request EXCEPT ![r].pc = p],
         UNCHANGED <<now, session, token, blacklist, logout, loggedOut, presented>>,
         p \in {"session", "passed"} => ~request[r].afterLogout,
         Valid(request[r].token) /\ request[r].afterPresented =>
           p = "notBlacklisted" /\ Gone(request[r].token)
  PROVE  SessionInv'
<1>1. request' \in [Requests ->
        [pc : {"idle", "verified", "notBlacklisted", "session", "passed"},
         token : Tokens \cup {None}, afterLogout : BOOLEAN, afterPresented : BOOLEAN]]
  BY DEF SessionInv, SessionTypeOK
<1>2. \A q \in Requests :
        /\ request'[q].pc = IF q = r THEN p ELSE request[q].pc
        /\ request'[q].token = request[q].token
        /\ request'[q].afterLogout = request[q].afterLogout
        /\ request'[q].afterPresented = request[q].afterPresented
  BY DEF SessionInv, SessionTypeOK
<1>3. SessionTypeOK'
  BY <1>1, <1>2 DEF SessionInv, SessionTypeOK
<1>4. RequestsLooked'
  BY <1>2 DEF SessionInv, RequestsLooked, Looked, Valid, Gone
<1> QED BY <1>3, <1>4
  DEF SessionInv, Issued, LoggedOutGone, LogoutsHold, RowOutlives, PresentedDead, Gone, Valid

LEMMA SessionInvStep == SessionInv /\ SessionNext => SessionInv'
<1> SUFFICES ASSUME SessionInv, SessionNext PROVE SessionInv'
  OBVIOUS
<1>1. ASSUME NEW s \in SessionIds, NEW issued \in Tokens, NEW refresh \in Tokens,
             Login(s, issued, refresh)
      PROVE  SessionInv'
  BY <1>1, IssueKeeps DEF Login, SessionInv, SessionTypeOK
<1>2. ASSUME NEW t \in Tokens, NEW issued \in Tokens, NEW refresh \in Tokens,
             Refresh(t, issued, refresh)
      PROVE  SessionInv'
  <2>1. token[t].session \in SessionIds
    BY <1>2 DEF Refresh, SessionInv, Issued
  <2> QED BY <1>2, <2>1, IssueKeeps DEF Refresh, SessionInv, SessionTypeOK
<1>3. ASSUME NEW r \in Requests, NEW t \in Tokens, RequestBegin(r, t) PROVE SessionInv'
  <2> DEFINE q0 == [pc |-> "verified", token |-> t, afterLogout |-> token[t].session \in loggedOut,
                    afterPresented |-> t \in presented]
  <2>1. /\ token[t].kind = "access"
        /\ request' = [request EXCEPT ![r] = q0]
        /\ UNCHANGED <<now, session, token, blacklist, logout, loggedOut, presented>>
    BY <1>3 DEF RequestBegin
  <2>2. q0 \in [pc : {"idle", "verified", "notBlacklisted", "session", "passed"},
                token : Tokens \cup {None}, afterLogout : BOOLEAN, afterPresented : BOOLEAN]
    OBVIOUS
  <2>3. SessionTypeOK'
    BY <2>1, <2>2 DEF SessionInv, SessionTypeOK
  <2>4. \A q \in Requests : request'[q] = IF q = r THEN q0 ELSE request[q]
    BY <2>1 DEF SessionInv, SessionTypeOK
  <2>5. RequestsLooked'
    <3>1. /\ request'[r].pc = "verified" /\ request'[r].token = t
          /\ request'[r].afterLogout = (token[t].session \in loggedOut)
          /\ request'[r].afterPresented = (t \in presented)
      BY <2>4
    <3>2. \A q \in Requests \ {r} : request'[q] = request[q]
      BY <2>4
    <3> HIDE DEF q0
    <3>3. SUFFICES ASSUME NEW q \in Requests PROVE Looked(q)'
      BY DEF RequestsLooked
    <3>4. CASE q = r
      BY <2>1, <3>1, <3>4 DEF Looked
    <3>5. CASE q # r
      BY <2>1, <3>2, <3>5 DEF SessionInv, RequestsLooked, Looked, Valid, Gone
    <3> QED BY <3>4, <3>5
  <2> QED BY <2>1, <2>3, <2>5
    DEF SessionInv, Issued, LoggedOutGone, LogoutsHold, RowOutlives, PresentedDead, Gone, Valid
<1>4. ASSUME NEW r \in Requests, RequestBlacklist(r) PROVE SessionInv'
  <2>1. request[r].token \in Tokens
    BY <1>4 DEF RequestBlacklist, SessionInv, SessionTypeOK
  <2>2. CASE blacklist[request[r].token] # None
    BY <1>4, <2>2, RefuseKeeps DEF RequestBlacklist
  <2>3. CASE blacklist[request[r].token] = None
    <3>1. Valid(request[r].token) /\ request[r].afterPresented => Gone(request[r].token)
      BY <1>4, <2>1, <2>3 DEF RequestBlacklist, SessionInv, RequestsLooked, Looked, PresentedDead
    <3> QED BY <1>4, <2>3, <3>1, MoveKeeps DEF RequestBlacklist
  <2> QED BY <2>2, <2>3
<1>5. ASSUME NEW r \in Requests, RequestSession(r) PROVE SessionInv'
  <2>1. CASE Live(r)
    <3>1. ~request[r].afterLogout
      BY <1>5, <2>1 DEF RequestSession, Live, SessionInv, RequestsLooked, Looked, LoggedOutGone
    <3>2. Valid(request[r].token) => ~request[r].afterPresented
      BY <1>5, <2>1 DEF RequestSession, SessionInv, RequestsLooked, Looked, Live, Gone
    <3> QED BY <1>5, <2>1, <3>1, <3>2, MoveKeeps DEF RequestSession
  <2>2. CASE ~Live(r)
    BY <1>5, <2>2, RefuseKeeps DEF RequestSession
  <2> QED BY <2>1, <2>2
<1>6. ASSUME NEW r \in Requests, RequestTouch(r) PROVE SessionInv'
  <2>1. CASE Live(r)
    <3>1. ~request[r].afterLogout /\ (Valid(request[r].token) => ~request[r].afterPresented)
      BY <1>6 DEF RequestTouch, SessionInv, RequestsLooked, Looked
    <3> QED BY <1>6, <2>1, <3>1, MoveKeeps DEF RequestTouch
  <2>2. CASE ~Live(r)
    BY <1>6, <2>2, RefuseKeeps DEF RequestTouch
  <2> QED BY <2>1, <2>2
<1>7. ASSUME NEW r \in Requests, RequestDone(r) PROVE SessionInv'
  BY <1>7, RefuseKeeps DEF RequestDone
<1>8. ASSUME NEW l \in Logouts, NEW t \in Tokens, LogoutDelete(l, t) PROVE SessionInv'
  <2>1. /\ token[t].kind = "access"
        /\ logout' = [logout EXCEPT ![l] = [pc |-> "deleted", token |-> t]]
        /\ UNCHANGED <<now, token, blacklist, request, loggedOut, presented>>
    BY <1>8 DEF LogoutDelete
  <2>2. token[t].session \in SessionIds
    BY <2>1 DEF SessionInv, Issued
  <2>3. /\ session' \in [SessionIds -> {"unused", "live", "gone"}]
        /\ \A s \in SessionIds : session[s] = "gone" => session'[s] = "gone"
        /\ \A u \in Tokens : token[u].kind = "access" /\ Gone(u) => Gone(u)'
    BY <1>8, <2>2 DEF LogoutDelete, SessionInv, SessionTypeOK, Issued, Gone
  <2>4. SessionTypeOK'
    BY <2>1, <2>3 DEF SessionInv, SessionTypeOK
  <2>5. Issued' /\ LoggedOutGone'
    BY <2>1, <2>3 DEF SessionInv, SessionTypeOK, Issued, LoggedOutGone
  <2>6. LogoutsHold'
    BY <2>1 DEF SessionInv, SessionTypeOK, LogoutsHold
  <2>7. RowOutlives' /\ PresentedDead' /\ RequestsLooked'
    BY <2>1, <2>3 DEF SessionInv, SessionTypeOK, LogoutsHold, RowOutlives, PresentedDead,
       RequestsLooked, Looked, Valid
  <2> QED BY <2>4, <2>5, <2>6, <2>7 DEF SessionInv
<1>9. ASSUME NEW l \in Logouts, LogoutBlacklist(l) PROVE SessionInv'
  <2> DEFINE t == logout[l].token
             until == now + TtlSeconds(t) * Unit
  <2>1. /\ logout[l].pc = "deleted"
        /\ \/ blacklist' = [blacklist EXCEPT ![t] = until]
           \/ UNCHANGED blacklist
        /\ blacklist' # blacklist => blacklist[t] = None
        /\ loggedOut' = loggedOut \cup
             {s \in SessionIds : s = token[t].session /\ session[s] = "gone"}
        /\ presented' = presented \cup {u \in {t} : blacklist'[u] # None \/ Gone(u)}
        /\ logout' = [logout EXCEPT ![l] = IdleLogout]
        /\ UNCHANGED <<now, session, token, request>>
    BY <1>9 DEF LogoutBlacklist, Gone
  <2>2. t \in Tokens /\ token[t].kind = "access" /\ token[t].exp \in Nat /\ now \in Nat
    BY <2>1, SessionConstants DEF SessionInv, LogoutsHold, SessionTypeOK
  <2>3. until \in Nat
    <3>1. token[t].exp * Unit \in Nat /\ Unit \in Nat \ {0} /\ DefaultSeconds \in Nat
      BY <2>2, SessionConstants
    <3>2. TtlSeconds(t) \in Nat
      <4>1. CASE now < token[t].exp * Unit
        <5>1. token[t].exp * Unit - now + Unit - 1 \in Nat
          BY <2>2, <3>1, <4>1
        <5>2. TtlSeconds(t) = (token[t].exp * Unit - now + Unit - 1) \div Unit
          BY <4>1 DEF TtlSeconds
        <5> QED BY <3>1, <5>1, <5>2, Division
      <4>2. CASE ~(now < token[t].exp * Unit)
        BY <3>1, <4>2 DEF TtlSeconds
      <4> QED BY <4>1, <4>2
    <3>3. TtlSeconds(t) * Unit \in Nat
      BY <3>1, <3>2
    <3> QED BY <2>2, <3>3
  <2>4. Valid(t) => until >= token[t].exp * Unit
    BY <2>2, RoundedUp
  <2> HIDE DEF until
  <2>5. None \notin Nat
    BY SessionConstants
  <2>6. /\ blacklist' \in [Tokens -> Nat \cup {None}]
        /\ \A u \in Tokens : blacklist'[u] = blacklist[u] \/ (u = t /\ blacklist'[u] = until)
        /\ \A u \in Tokens : blacklist[u] # None => blacklist'[u] # None
    BY <2>1, <2>2, <2>3, <2>5 DEF SessionInv, SessionTypeOK
  <2>7. SessionTypeOK'
    BY <2>1, <2>2, <2>6 DEF SessionInv, SessionTypeOK, IdleLogout
  <2>8. Issued' /\ LoggedOutGone'
    BY <2>1 DEF SessionInv, Issued, LoggedOutGone
  <2>9. LogoutsHold'
    BY <2>1, <2>2 DEF SessionInv, SessionTypeOK, LogoutsHold, IdleLogout
  <2>10. RowOutlives'
    BY <2>1, <2>2, <2>4, <2>6 DEF SessionInv, RowOutlives, Valid
  <2>11. PresentedDead'
    BY <2>1, <2>6 DEF SessionInv, SessionTypeOK, PresentedDead, Valid, Gone
  <2>12. RequestsLooked'
    BY <2>1 DEF SessionInv, RequestsLooked, Looked, Valid, Gone
  <2> QED BY <2>7, <2>8, <2>9, <2>10, <2>11, <2>12 DEF SessionInv
<1>10. CASE Cleanup
  <2>1. /\ blacklist' = [t \in Tokens |->
             IF blacklist[t] # None /\ blacklist[t] < now THEN None ELSE blacklist[t]]
        /\ UNCHANGED <<now, session, token, request, logout, loggedOut, presented>>
    BY <1>10 DEF Cleanup
  <2>2. SessionTypeOK'
    BY <2>1 DEF SessionInv, SessionTypeOK
  <2>3. Issued' /\ LoggedOutGone' /\ LogoutsHold' /\ RequestsLooked'
    BY <2>1 DEF SessionInv, Issued, LoggedOutGone, LogoutsHold, RequestsLooked, Looked, Valid, Gone
  <2>4. RowOutlives'
    BY <2>1 DEF SessionInv, RowOutlives, Valid
  <2>5. PresentedDead'
    <3> SUFFICES ASSUME NEW t \in presented, Valid(t), ~Gone(t) PROVE blacklist'[t] # None
      BY <2>1 DEF PresentedDead, Valid, Gone
    <3>1. t \in Tokens /\ now \in Nat /\ token[t].exp \in Nat
      BY SessionConstants DEF SessionInv, SessionTypeOK
    <3>2. blacklist[t] # None /\ blacklist[t] \in Nat
      BY <3>1 DEF SessionInv, SessionTypeOK, PresentedDead
    <3>3. now < token[t].exp * Unit /\ token[t].exp * Unit \in Nat
      BY <3>1, Earlier, SessionConstants DEF Valid
    <3>4. blacklist[t] >= token[t].exp * Unit
      BY <3>1, <3>2 DEF SessionInv, RowOutlives
    <3> QED BY <2>1, <3>1, <3>2, <3>3, <3>4
  <2> QED BY <2>2, <2>3, <2>4, <2>5 DEF SessionInv
<1>11. CASE Tick
  <2>1. /\ now < MaxTime /\ now' = now + 1
        /\ UNCHANGED <<session, token, blacklist, request, logout, loggedOut, presented>>
    BY <1>11 DEF Tick
  <2>2. SessionTypeOK'
    BY <2>1, SessionConstants DEF SessionInv, SessionTypeOK
  <2>3. \A t \in Tokens : Valid(t)' => Valid(t)
    <3> SUFFICES ASSUME NEW t \in Tokens, Valid(t)' PROVE Valid(t)
      OBVIOUS
    <3>1. now \in Nat /\ now' = now + 1 /\ token[t].exp \in Nat
      BY <2>1, SessionConstants DEF SessionInv, SessionTypeOK
    <3>2. token[t].exp * Unit \in Nat
      BY <3>1, SessionConstants
    <3>3. (now + 1) \div Unit < token[t].exp
      BY <2>1 DEF Valid
    <3>4. now + 1 < token[t].exp * Unit
      BY <3>1, <3>3, Earlier
    <3>5. now < token[t].exp * Unit
      BY <3>1, <3>2, <3>4
    <3> QED BY <3>1, <3>5, Earlier DEF Valid
  <2>4. Issued' /\ LoggedOutGone' /\ LogoutsHold'
    BY <2>1 DEF SessionInv, Issued, LoggedOutGone, LogoutsHold
  <2>5. RowOutlives' /\ PresentedDead'
    BY <2>1, <2>3 DEF SessionInv, SessionTypeOK, RowOutlives, PresentedDead, Gone
  <2>6. RequestsLooked'
    BY <2>1, <2>3 DEF SessionInv, SessionTypeOK, RequestsLooked, Looked, Gone
  <2> QED BY <2>2, <2>4, <2>5, <2>6 DEF SessionInv
<1> QED BY <1>1, <1>2, <1>3, <1>4, <1>5, <1>6, <1>7, <1>8, <1>9, <1>10, <1>11 DEF SessionNext

LEMMA SessionInvariance == SessionSpec => []SessionInv
<1>1. SessionInv /\ UNCHANGED sessionVars => SessionInv'
  BY DEF sessionVars, SessionInv, SessionTypeOK, Issued, LoggedOutGone, LogoutsHold, RowOutlives,
         PresentedDead, Gone, RequestsLooked, Looked, Valid
<1> QED BY SessionInvInit, SessionInvStep, <1>1, PTL DEF SessionSpec

-----------------------------------------------------------------------------
(* The theorems.                                                           *)

\* Every variable keeps its type; only access tokens reach the middleware.
THEOREM SessionsTypeCorrect == SessionSpec => []SessionTypeOK
<1>1. SessionInv => SessionTypeOK
  BY DEF SessionInv
<1> QED BY <1>1, SessionInvariance, PTL

\* authenticateAccount refuses every request that comes after a logout that
\* deleted its session, whichever of the session's tokens it carries.
THEOREM LogoutIsFinal == SessionSpec => []NothingPassesAfterLogout
<1>1. SessionInv => NothingPassesAfterLogout
  BY DEF SessionInv, RequestsLooked, Looked, NothingPassesAfterLogout
<1> QED BY <1>1, SessionInvariance, PTL

\* Either write of a logout kills the token it was sent with: without its session
\* the token is refused, and rounding the remaining time up keeps its row as long
\* as it is valid, whatever the clock's resolution and whenever the cleanup runs.
THEOREM PresentedTokenStaysDead == SessionSpec => []PresentedTokenIsDead
<1>1. SessionInv => PresentedTokenIsDead
  BY DEF SessionInv, RequestsLooked, Looked, PresentedTokenIsDead
<1> QED BY <1>1, SessionInvariance, PTL
=============================================================================
