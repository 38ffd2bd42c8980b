------------------------------- MODULE SignIn -------------------------------
(***************************************************************************)
(* From a proof of identity to an account, a session and tokens:           *)
(* authenticateV2 and the registration of a new user with a passkey, and   *)
(* the three requests that link an account as the other way by which       *)
(* accounts come to be.  Every query is a step of its own; only            *)
(* socialAuthService.authenticate is one serializable transaction.  The    *)
(* proofs themselves (codes, nonces, passkeys) are the subject of          *)
(* OneTimeCodes and AccountFactors; here a request starts when its proof   *)
(* was accepted, Google's and Apple's excepted.                            *)
(***************************************************************************)
EXTENDS Naturals, FiniteSets

CONSTANTS
    SignIns,    \* requests that may be in flight together
    Users,      \* what is left of an identifier: an address, a provider's user id
    Profiles,
    Strategies, \* the strategies that occur
    MaxGuests,  \* bound: guest accounts
    NoOne       \* no account, no profile

\* Google and Apple sign in by way of socialAuthService, which makes an account
\* of its own beside the one that is signed in to.
Social == {"google", "apple"}
Stated == {"email", "wallet"}

\* The route validates the strategy: authenticateV2's other branches are not
\* reached.
ASSUME StrategiesKnown ==
    /\ Strategies \subseteq Social \cup Stated \cup {"guest", "passkey"}
    /\ MaxGuests \in Nat

VARIABLES
    accounts,   \* the Account rows: pairs of type and identifier, which are unique
    verified,   \* those with verified = true
    sessions,   \* the AccountSession rows: account, and whether its token is given out
    device,     \* the account the device is registered for
    access,     \* the ProfileAccount rows
    profile,    \* of a profile: "unused", "live" or "deleted"
    active,     \* the profiles with isActive
    req,        \* the requests' progress
    granted,    \* history: access that was ever given
    proven      \* history: accounts whose owner proved to be that

rows == <<accounts, verified, sessions, device>>
identity == <<access, profile, active, granted>>
vars == <<rows, identity, req, proven>>

\* The identifiers: `provider:providerId`, the bare id, a guest's random one.
QualifiedAccount(s, u) == <<"social", <<s, u>>>>
Account(s, u) == <<IF s \in Social THEN "social" ELSE s, <<u>>>>
Guests == {<<"guest", <<n>>>> : n \in 1..MaxGuests}

AccountsOf(s, u) == {Account(s, u)} \cup IF s \in Social THEN {QualifiedAccount(s, u)} ELSE {}
AllAccounts == Guests \cup UNION {AccountsOf(s, u) : s \in Strategies \ {"guest"}, u \in Users}

Steps == {"idle", "social", "find", "create", "verify", "link", "profiles", "automatic",
          "session", "tokens", "done"}
IdleSignIn ==
    [step |-> "idle", kind |-> "signIn", strategy |-> "guest", user |-> NoOne,
     account |-> NoOne, by |-> NoOne, profile |-> NoOne]
Running(r) == req[r].step \notin {"idle", "done"}

SignInTypeOK ==
    /\ accounts \subseteq AllAccounts
    /\ verified \subseteq accounts
    /\ \A session \in sessions : session.account \in accounts
    /\ device \in accounts \cup {NoOne}
    /\ profile \in [Profiles -> {"unused", "live", "deleted"}]
    /\ access \subseteq accounts \X {p \in Profiles : profile[p] = "live"}
    /\ active \subseteq {p \in Profiles : profile[p] = "live"}
    /\ proven \subseteq AllAccounts
    /\ \A r \in SignIns :
         /\ req[r].step \in Steps
         /\ req[r].kind \in {"signIn", "register", "link", "linkOnly"}
         /\ {req[r].account, req[r].by} \subseteq AllAccounts \cup {NoOne}
         /\ req[r].profile \in Profiles \cup {NoOne}

Init ==
    /\ accounts = {} /\ verified = {} /\ sessions = {}
    /\ device = NoOne
    /\ access = {} /\ active = {} /\ granted = {} /\ proven = {}
    /\ profile = [p \in Profiles |-> "unused"]
    /\ req = [r \in SignIns |-> IdleSignIn]

Fresh == {a \in Guests : a \notin accounts /\ \A r \in SignIns : Running(r) => req[r].account # a}
Goes(r, step) == req' = [req EXCEPT ![r].step = step]
Ends(r) == req' = [req EXCEPT ![r] = IdleSignIn]

\* A query or a provider throws.  What was written stays, and nothing is tried
\* again: not socialAuthService's transaction when it conflicts with another,
\* and not Google's second look at the token, after the first was accepted.
RequestFails(r) ==
    /\ Running(r)
    /\ Ends(r)
    /\ UNCHANGED <<rows, identity, proven>>

-----------------------------------------------------------------------------
(* authenticateV2, step 1: the account.                                    *)

\* The proof is accepted, or socialAuthService is about to ask for it.  A guest
\* gets an identifier of its own, and a passkey needs an account.
AuthenticateV2(r, s, u) ==
    /\ ~Running(r)
    /\ s = "passkey" => Account(s, u) \in accounts
    /\ \E a \in IF s = "guest" THEN Fresh ELSE {Account(s, u)} :
         /\ req' = [req EXCEPT ![r] =
              [IdleSignIn EXCEPT
                 !.strategy = s, !.user = u, !.account = a,
                 !.step = CASE s = "passkey" -> "verify"
                            [] s \in Social  -> "social"
                            [] OTHER         -> "find"]]
         /\ proven' = IF s \in Social \cup {"guest"} THEN proven ELSE proven \cup {a}
    /\ UNCHANGED <<rows, identity>>

\* The device, if the request names one, moves to whoever signs in last.
Registered(named, a) == IF named THEN a ELSE device

\* socialAuthService.authenticate accepts the provider's token: the account, a
\* session whose token is thrown away, and the device.
SocialTransaction(r, named) ==
    LET a == QualifiedAccount(req[r].strategy, req[r].user)
    IN /\ req[r].step = "social"
       /\ accounts' = accounts \cup {a}
       /\ verified' = IF a \in accounts THEN verified ELSE verified \cup {a}
       /\ sessions' = sessions \cup {[account |-> a, known |-> FALSE]}
       /\ device' = Registered(named, a)
       /\ proven' = proven \cup {a, req[r].account}
       /\ Goes(r, "find")
       /\ UNCHANGED identity

HasAccount(r) ==
    CASE req[r].kind = "link"     -> Goes(r, "link")
      [] req[r].kind = "linkOnly" -> Ends(r)
      [] OTHER                    -> Goes(r, "verify")

\* findOrCreateAccount: the lookup ...
FindAccount(r) ==
    /\ req[r].step = "find"
    /\ IF req[r].account \in accounts THEN HasAccount(r) ELSE Goes(r, "create")
    /\ UNCHANGED <<rows, identity, proven>>

\* A mutation: whatever is not a guest's account is taken to be proved.
VerifiedOnCreation(a) == a[1] # "guest"
VerifiedAtOnce(a) == a[1] = "wallet"

\* ... and the creation, which throws if another request was faster.
CreateAccount(r) ==
    LET a == req[r].account
    IN /\ req[r].step = "create"
       /\ IF a \in accounts
          THEN Ends(r) /\ UNCHANGED <<accounts, verified>>
          ELSE /\ accounts' = accounts \cup {a}
               /\ verified' = IF VerifiedAtOnce(a) THEN verified \cup {a} ELSE verified
               /\ HasAccount(r)
       /\ UNCHANGED <<sessions, device, identity, proven>>

AfterVerification(r) == IF req[r].kind = "register" THEN "automatic" ELSE "profiles"

\* A mutation: only accounts without a profile are taken to need it.
VerifyAccountOnce(r) ==
    /\ req[r].step = "verify"
    /\ verified' = IF req[r].strategy = "guest" \/ \E p \in Profiles : <<req[r].account, p>> \in access
                   THEN verified ELSE verified \cup {req[r].account}
    /\ Goes(r, AfterVerification(r))
    /\ UNCHANGED <<accounts, sessions, device, identity, proven>>

\* Every branch but the guest's marks the account as verified.
VerifyAccount(r) ==
    /\ req[r].step = "verify"
    /\ verified' = IF req[r].strategy = "guest" THEN verified ELSE verified \cup {req[r].account}
    /\ Goes(r, AfterVerification(r))
    /\ UNCHANGED <<accounts, sessions, device, identity, proven>>

-----------------------------------------------------------------------------
(* Steps 2 to 5: profile, session, tokens.                                 *)

\* A mutation: whoever has access.
ProfilesOfAnybody(a) == {p \in Profiles : profile[p] = "live"}
GetDirectlyLinkedProfiles(a) == {p \in Profiles : <<a, p>> \in access}

\* An active profile, else the first of an unordered query, else none.
ReadProfiles(r) ==
    LET mine == GetDirectlyLinkedProfiles(req[r].account)
        first == IF mine \cap active # {} THEN mine \cap active ELSE mine
    IN /\ req[r].step = "profiles"
       /\ \E p \in IF mine = {} THEN {NoOne} ELSE first :
            req' = [req EXCEPT ![r].profile = p, ![r].step = "session"]
       /\ UNCHANGED <<rows, identity, proven>>

CreateSession(r) ==
    /\ req[r].step = "session"
    /\ sessions' = sessions \cup {[account |-> req[r].account, known |-> TRUE]}
    /\ Goes(r, "tokens")
    /\ UNCHANGED <<accounts, verified, device, identity, proven>>

SignInReply(r) ==
    /\ req[r].step = "tokens"
    /\ Goes(r, "done")
    /\ UNCHANGED <<rows, identity, proven>>

-----------------------------------------------------------------------------
(* registerNewUserWithPasskey: account, profile, session and tokens.       *)

\* The authenticator's answer is accepted: its credential is found or created,
\* so that the same answer, sent again, registers nobody but signs in.
RegisterNewUserWithPasskey(r, u) ==
    /\ ~Running(r)
    /\ "passkey" \in Strategies
    /\ req' = [req EXCEPT ![r] =
         [IdleSignIn EXCEPT !.step = "find", !.kind = "register", !.strategy = "passkey",
                             !.user = u, !.account = Account("passkey", u)]]
    /\ proven' = proven \cup {Account("passkey", u)}
    /\ UNCHANGED <<rows, identity>>

\* createAutomaticProfile, in one transaction: the new profile is active beside
\* those the account has.  If it rolls back, the account stays.
CreateAutomaticProfile(r, p) ==
    LET row == <<req[r].account, p>>
    IN /\ req[r].step = "automatic" /\ profile[p] = "unused"
       /\ profile' = [profile EXCEPT ![p] = "live"]
       /\ active' = active \cup {p}
       /\ access' = access \cup {row}
       /\ granted' = granted \cup {row}
       /\ req' = [req EXCEPT ![r].profile = p, ![r].step = "session"]
       /\ UNCHANGED <<rows, proven>>

-----------------------------------------------------------------------------
(* A signed-in account links another, which is found or created, but not   *)
(* verified unless its wallet was just proved.                             *)

SignedIn(a) == [account |-> a, known |-> TRUE] \in sessions

Links(r, a, kind, s, b) ==
    /\ ~Running(r) /\ SignedIn(a)
    /\ req' = [req EXCEPT ![r] =
         [IdleSignIn EXCEPT !.step = "find", !.kind = kind, !.strategy = s, !.account = b, !.by = a]]
    /\ UNCHANGED <<rows, identity>>

\* linkAccounts: an e-mail address or a wallet is proved, a provider's id is
\* taken from the request as it stands, qualified or not (Farcaster's is
\* proved, in the same name space).
LinkAccounts(r, a, s, u) ==
    /\ a[1] = "guest" \/ a \in verified
    /\ s \in Stated \cup Social
    /\ \E b \in AccountsOf(s, u) :
         /\ Links(r, a, "link", s, b)
         /\ proven' = IF s \in Stated THEN proven \cup {b} ELSE proven

\* POST /users/me/social-accounts: any id of Google, Apple, Twitter or Discord.
LinkSocialAccount(r, a, s, u) ==
    /\ s \in Social
    /\ \E b \in AccountsOf(s, u) : Links(r, a, "linkOnly", s, b)
    /\ UNCHANGED proven

\* A wallet, proved, becomes a linked account of a profile that the account
\* reaches (LinkedAccounts) and an account.
LinkAccountToProfile(r, a, u) ==
    /\ "wallet" \in Strategies /\ access # {}
    /\ Links(r, a, "linkOnly", "wallet", Account("wallet", u))
    /\ proven' = proven \cup {Account("wallet", u)}

\* The target's access to the profiles of the one who links, those excepted
\* where the row cannot be written (the link itself, the steps in between and
\* their interleavings: IdentityGraph).
LinkTarget(r) ==
    LET a == req[r].by
        b == req[r].account
    IN /\ req[r].step = "link"
       /\ \E shared \in SUBSET ({b} \X {p \in Profiles : <<a, p>> \in access}) :
            access' = access \cup shared /\ granted' = granted \cup shared
       /\ Ends(r)
       /\ UNCHANGED <<rows, profile, active, proven>>

-----------------------------------------------------------------------------
(* What signed-in accounts do with their profiles, and a restart.          *)

CreateProfile(a, p) ==
    /\ SignedIn(a) /\ profile[p] = "unused"
    /\ profile' = [profile EXCEPT ![p] = "live"]
    /\ access' = access \cup {<<a, p>>}
    /\ granted' = granted \cup {<<a, p>>}
    /\ UNCHANGED <<rows, req, active, proven>>

SwitchProfile(a, p) ==
    /\ SignedIn(a) /\ <<a, p>> \in access
    /\ active' = (active \ GetDirectlyLinkedProfiles(a)) \cup {p}
    /\ UNCHANGED <<rows, req, access, profile, granted, proven>>

\* A mutation: the access rows stay behind.
AccessLeftBehind(p) == access
AccessWithout(p) == {row \in access : row[2] # p}

DeleteProfile(a, p) ==
    /\ SignedIn(a) /\ <<a, p>> \in access
    /\ profile' = [profile EXCEPT ![p] = "deleted"]
    /\ access' = AccessWithout(p)
    /\ active' = active \ {p}
    /\ UNCHANGED <<rows, req, granted, proven>>

Restart ==
    /\ \E r \in SignIns : Running(r)
    /\ req' = [r \in SignIns |-> IF Running(r) THEN IdleSignIn ELSE req[r]]
    /\ UNCHANGED <<rows, identity, proven>>

RequestSteps(r) ==
    \/ \E named \in BOOLEAN : SocialTransaction(r, named)
    \/ FindAccount(r)
    \/ CreateAccount(r)
    \/ VerifyAccount(r)
    \/ ReadProfiles(r)
    \/ CreateSession(r)
    \/ \E p \in Profiles : CreateAutomaticProfile(r, p)
    \/ SignInReply(r)
    \/ LinkTarget(r)
    \/ RequestFails(r)

Next ==
    \/ \E r \in SignIns :
         \/ RequestSteps(r)
         \/ \E u \in Users : RegisterNewUserWithPasskey(r, u)
         \/ \E s \in Strategies, u \in Users :
              \/ AuthenticateV2(r, s, u)
              \/ \E a \in accounts : LinkAccounts(r, a, s, u) \/ LinkSocialAccount(r, a, s, u)
         \/ \E a \in accounts, u \in Users : LinkAccountToProfile(r, a, u)
    \/ \E a \in accounts, p \in Profiles :
         CreateProfile(a, p) \/ SwitchProfile(a, p) \/ DeleteProfile(a, p)
    \/ Restart

Spec == Init /\ [][Next]_vars

-----------------------------------------------------------------------------
(* Properties.                                                             *)

Succeeded(r) == req[r].step = "done"

\* A successful sign-in has a session of the account it is for, and unless it
\* was a guest's the account is verified from then on, also if linkAccounts
\* had created it unverified: an unverified account may not link others.
SignedInIsVerified ==
    \A r \in SignIns : Succeeded(r) =>
      /\ [account |-> req[r].account, known |-> TRUE] \in sessions
      /\ req[r].strategy = "guest" \/ req[r].account \in verified

\* The profile named in the tokens was given to the very account that signed
\* in, by creating it or along one link ("Only get profiles directly linked to
\* the authenticating account", authControllerV2.js).
TokensNameOwnProfile ==
    \A r \in SignIns : Succeeded(r) /\ req[r].profile # NoOne =>
      <<req[r].account, req[r].profile>> \in granted

\* Only a proof of identity verifies an account: not the id of a provider that
\* somebody wrote into a request to link it, which makes the same row that its
\* owner signs in to, before, after or while the owner does.
VerifiedIsProven == verified \subseteq proven

\* "Find or create an account based on auth method": one account per identity.
\* Not true of Google and Apple, which get two.
OneAccountPerIdentity ==
    \A s \in Strategies, u \in Users : Cardinality(AccountsOf(s, u) \cap accounts) <= 1

\* A session row can be presented by somebody.  Not true of the rows that
\* socialAuthService writes.
SessionsAreKnown == \A session \in sessions : session.known

\* The tokens name a profile that is there.  Not true if it was deleted since
\* the profiles were read.
TokensNameLiveProfile ==
    \A r \in SignIns : req[r].step = "tokens" /\ req[r].profile # NoOne => profile[req[r].profile] = "live"
=============================================================================
