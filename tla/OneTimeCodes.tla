---------------------------- MODULE OneTimeCodes ----------------------------
(***************************************************************************)
(* The one-time tokens of the sign-in flows: SIWE nonces (SiweNonce rows,  *)
(* some of them generated for a Farcaster channel), e-mail verification    *)
(* codes (EmailVerification rows of one address), pending sign-ins         *)
(* (PendingAuth rows) and WebAuthn challenges (a Map in memory).           *)
(* Every await of a handler is a step boundary: a row is looked up in one  *)
(* step and marked or deleted in another.                                  *)
(***************************************************************************)
EXTENDS Naturals, FiniteSets

CONSTANTS
    Tokens,      \* the tokens that may be generated, numbered in the order of creation
    Requests,    \* the requests that may be in flight together
    MaxAttempts, \* wrong guesses after which a code is refused (5 in the code)
    MaxRestarts  \* bound: restarts of the process

ASSUME TokenNumbers == Tokens \subseteq Nat /\ IsFiniteSet(Tokens)
ASSUME SomeAttempts == MaxAttempts \in Nat \ {0}
ASSUME FiniteFlight == IsFiniteSet(Requests)
ASSUME SomeRestarts == MaxRestarts \in Nat

VARIABLES
    kind,      \* what a token is; "none" before it is generated
    row,       \* its row: "none", "live", "used" (a nonce) or "gone"
    age,       \* "young" (a code younger than a minute), "old" or "expired"
    attempts,  \* of a code: the wrong guesses counted against it
    channel,   \* of a nonce: the Farcaster channel made with it
    req,       \* of a request: what it does next, and with which token
    restarts,  \* how often the process has restarted
    guesses,   \* history, of a code: the wrong guesses compared with it
    uses,      \* history: the requests that have consumed a token
    verified   \* history, of a code: the successes answered by verifyEmailCode

vars == <<kind, row, age, attempts, channel, req, restarts, guesses, uses, verified>>

\* The two types of challenges.
Challenges == {"registration", "authentication"}
Kinds == {"nonce", "code", "pending"} \union Challenges
Ages == {"young", "old", "expired"}
Steps == {"idle", "opening", "marking", "taking", "creating", "resending", "counting",
          "confirming", "clearing", "signing"}
NoToken == {}
Idle == [step |-> "idle", token |-> NoToken]

\* Only what was generated has a row, and only nonces are marked.
TypeOK ==
    /\ kind \in [Tokens -> Kinds \union {"none"}]
    /\ row \in [Tokens -> {"none", "live", "used", "gone"}]
    /\ age \in [Tokens -> Ages]
    /\ attempts \in [Tokens -> 0..MaxAttempts]
    /\ channel \in [Tokens -> {"none", "pending", "completed"}]
    /\ req \in [Requests -> [step : Steps, token : {NoToken} \union {{t} : t \in Tokens}]]
    /\ restarts \in 0..MaxRestarts
    /\ guesses \in [Tokens -> Nat]
    /\ uses \in [Tokens -> Nat]
    /\ verified \in [Tokens -> Nat]
    /\ \A t \in Tokens : /\ kind[t] = "none" <=> row[t] = "none"
                         /\ row[t] = "used" => kind[t] = "nonce"

Init ==
    /\ kind = [t \in Tokens |-> "none"]
    /\ row = [t \in Tokens |-> "none"]
    /\ age = [t \in Tokens |-> "young"]
    /\ attempts = [t \in Tokens |-> 0]
    /\ channel = [t \in Tokens |-> "none"]
    /\ req = [r \in Requests |-> Idle]
    /\ restarts = 0
    /\ guesses = [t \in Tokens |-> 0]
    /\ uses = [t \in Tokens |-> 0]
    /\ verified = [t \in Tokens |-> 0]

At(r, s) == req[r].step = s
Goes(r, s, T) == req' = [req EXCEPT ![r] = [step |-> s, token |-> T]]
Ends(r) == Goes(r, "idle", NoToken)

\* The rows that a query with "expiresAt: { gt: new Date() }" sees.
Unexpired(k) == {t \in Tokens : kind[t] = k /\ row[t] = "live" /\ age[t] # "expired"}
Codes == {t \in Tokens : kind[t] = "code" /\ row[t] = "live"}
Deleted(S) == row' = [t \in Tokens |-> IF t \in S THEN "gone" ELSE row[t]]

\* A token is generated, the one with the next number.
Generate(t, k) ==
    /\ kind[t] = "none"
    /\ \A u \in Tokens : u < t => kind[u] # "none"
    /\ kind' = [kind EXCEPT ![t] = k]
    /\ row' = [row EXCEPT ![t] = "live"]

\* Time passes for a token.  A used or deleted one is not looked at again,
\* except by the cleanup.
Age(t) ==
    /\ row[t] \in {"live", "used"}
    /\ age[t] # "expired"
    /\ age' = [age EXCEPT ![t] = IF @ = "young" /\ kind[t] = "code"
                                   THEN "old" ELSE "expired"]
    /\ UNCHANGED <<kind, row, attempts, channel, req, restarts, guesses, uses, verified>>

-----------------------------------------------------------------------------
\* SIWE nonces.

GenerateNonce(t) ==
    /\ Generate(t, "nonce")
    /\ UNCHANGED <<age, attempts, channel, req, restarts, guesses, uses, verified>>

\* The lookup of verifyMessage.  A signature, address, domain or chain that
\* does not match is refused before it and a message that is not valid yet or
\* any more after it, both without a trace.
VerifyMessageLookup(r, t) ==
    /\ At(r, "idle")
    /\ t \in Unexpired("nonce")
    /\ Goes(r, "marking", {t})
    /\ UNCHANGED <<kind, row, age, attempts, channel, restarts, guesses, uses, verified>>

\* The update by nonce, whether or not it is used by now.  It throws when the
\* cleanup took the row, and the request is refused.  A caller may refuse a
\* message it accepted (Farcaster's identifier, WalletConnect's callback URL):
\* the nonce is consumed all the same.
VerifyMessageMark(r) ==
    /\ At(r, "marking")
    /\ \A t \in req[r].token :
        IF row[t] = "gone"
        THEN UNCHANGED <<row, uses>>
        ELSE /\ row' = [row EXCEPT ![t] = "used"]
             /\ uses' = [uses EXCEPT ![t] = @ + 1]
    /\ Ends(r)
    /\ UNCHANGED <<kind, age, attempts, channel, restarts, guesses, verified>>

\* The hourly cleanup deletes expired nonces, the used ones too.
CleanupExpiredNonces ==
    LET expired == {t \in Tokens : /\ kind[t] = "nonce"
                                   /\ row[t] \in {"live", "used"}
                                   /\ age[t] = "expired"}
    IN  /\ expired # {}
        /\ Deleted(expired)
        /\ UNCHANGED <<kind, age, attempts, channel, req, restarts, guesses, uses, verified>>

\* A Farcaster channel gets a nonce of its own ...
ChannelNonce(r, t) ==
    /\ At(r, "idle")
    /\ Generate(t, "nonce")
    /\ Goes(r, "opening", {t})
    /\ UNCHANGED <<age, attempts, channel, restarts, guesses, uses, verified>>

\* ... and is stored.  It lives for an hour, the nonce for five minutes.
CreateChannel(r) ==
    /\ At(r, "opening")
    /\ channel' = [t \in Tokens |-> IF t \in req[r].token THEN "pending" ELSE channel[t]]
    /\ Ends(r)
    /\ UNCHANGED <<kind, row, age, attempts, restarts, guesses, uses, verified>>

\* The relay reports the signed message, once or again; the channel's expiry is
\* not looked at.
UpdateChannel(t) ==
    /\ channel[t] = "pending"
    /\ channel' = [channel EXCEPT ![t] = "completed"]
    /\ UNCHANGED <<kind, row, age, attempts, req, restarts, guesses, uses, verified>>

-----------------------------------------------------------------------------
\* Pending sign-ins.

StorePendingAuth(t) ==
    /\ Generate(t, "pending")
    /\ UNCHANGED <<age, attempts, channel, req, restarts, guesses, uses, verified>>

GetPendingAuthLookup(r, t) ==
    /\ At(r, "idle")
    /\ t \in Unexpired("pending")
    /\ Goes(r, "taking", {t})
    /\ UNCHANGED <<kind, row, age, attempts, channel, restarts, guesses, uses, verified>>

\* A mutation: a deleteMany, which does not throw.
GetPendingAuthDeleteMany(r) ==
    /\ At(r, "taking")
    /\ Deleted(req[r].token)
    /\ \A t \in req[r].token : uses' = [uses EXCEPT ![t] = @ + 1]
    /\ Ends(r)
    /\ UNCHANGED <<kind, age, attempts, channel, restarts, guesses, verified>>

\* The delete throws for a request whose row another one has deleted.
GetPendingAuthDelete(r) ==
    /\ At(r, "taking")
    /\ \A t \in req[r].token :
        IF row[t] = "gone"
        THEN UNCHANGED <<row, uses>>
        ELSE /\ row' = [row EXCEPT ![t] = "gone"]
             /\ uses' = [uses EXCEPT ![t] = @ + 1]
    /\ Ends(r)
    /\ UNCHANGED <<kind, age, attempts, channel, restarts, guesses, verified>>

-----------------------------------------------------------------------------
\* WebAuthn challenges: no await between lookup and deletion.

GenerateChallenge(t, type) ==
    /\ Generate(t, type)
    /\ UNCHANGED <<age, attempts, channel, req, restarts, guesses, uses, verified>>

\* For a signed-in account and for a new user: the registration that follows
\* compares the authenticator's answer with a challenge that the client names,
\* and never asks for these, which only expire.
GenerateRegistrationOptions(t) == GenerateChallenge(t, "registration")
GenerateRegistrationOptionsForNewUser(t) == GenerateChallenge(t, "registration")

GenerateAuthenticationOptions(t) == GenerateChallenge(t, "authentication")

\* An expired challenge is deleted, whatever its type; one for a registration,
\* or for another user, is left.
VerifyChallenge(r, t) ==
    /\ At(r, "idle")
    /\ kind[t] \in Challenges /\ row[t] = "live"
    /\ age[t] = "expired" \/ kind[t] = "authentication"
    /\ row' = [row EXCEPT ![t] = "gone"]
    /\ uses' = [uses EXCEPT ![t] = IF age[t] = "expired" THEN @ ELSE @ + 1]
    /\ UNCHANGED <<kind, age, attempts, channel, req, restarts, guesses, verified>>

CleanupExpiredChallenges ==
    LET expired == {t \in Tokens : /\ kind[t] \in Challenges /\ row[t] = "live"
                                   /\ age[t] = "expired"}
    IN  /\ expired # {}
        /\ Deleted(expired)
        /\ UNCHANGED <<kind, age, attempts, channel, req, restarts, guesses, uses, verified>>

-----------------------------------------------------------------------------
\* E-mail codes.

\* sendEmailCode deletes the codes of the address ...  (The count before it
\* cannot reach its limit: see CodesBounded.)
SendDelete(r) ==
    /\ At(r, "idle")
    /\ Deleted(Codes)
    /\ Goes(r, "creating", NoToken)
    /\ UNCHANGED <<kind, age, attempts, channel, restarts, guesses, uses, verified>>

\* ... and stores a new one, as does resendEmailCode.
CreateCode(r, t) ==
    /\ At(r, "creating")
    /\ Generate(t, "code")
    /\ Ends(r)
    /\ UNCHANGED <<age, attempts, channel, restarts, guesses, uses, verified>>

\* resendEmailCode finds the newest unexpired code; within a minute of its
\* creation, or without one, it is refused.
ResendLookup(r, t) ==
    /\ At(r, "idle")
    /\ t \in Unexpired("code")
    /\ \A u \in Unexpired("code") : u <= t
    /\ age[t] = "old"
    /\ Goes(r, "resending", {t})
    /\ UNCHANGED <<kind, row, age, attempts, channel, restarts, guesses, uses, verified>>

\* It deletes that code by id, which throws if it is gone by now.
ResendDelete(r) ==
    /\ At(r, "resending")
    /\ IF req[r].token \subseteq Codes
       THEN Deleted(req[r].token) /\ Goes(r, "creating", NoToken)
       ELSE UNCHANGED row /\ Ends(r)
    /\ UNCHANGED <<kind, age, attempts, channel, restarts, guesses, uses, verified>>

\* The codes a guess is compared with.
Guessable == {t \in Unexpired("code") : attempts[t] < MaxAttempts}

\* The guess equals a code: verifyEmailCode confirms it by deleting the row,
\* the sign-in and the linking of an e-mail account delete all of the address.
MatchCode(r, t, s) ==
    /\ At(r, "idle")
    /\ t \in Guessable
    /\ Goes(r, s, {t})
    /\ UNCHANGED <<kind, row, age, attempts, channel, restarts, guesses, uses, verified>>

\* The guess equals none of them ...
MissCode(r) ==
    /\ At(r, "idle")
    /\ guesses' = [t \in Tokens |-> IF t \in Guessable THEN guesses[t] + 1 ELSE guesses[t]]
    /\ Goes(r, "counting", NoToken)
    /\ UNCHANGED <<kind, row, age, attempts, channel, restarts, uses, verified>>

\* A mutation: counted against the newest code only.
CountMissNewest(r) ==
    /\ At(r, "counting")
    /\ attempts' = [t \in Tokens |-> IF /\ t \in Unexpired("code") /\ attempts[t] < MaxAttempts
                                        /\ \A u \in Unexpired("code") : u <= t
                                     THEN attempts[t] + 1 ELSE attempts[t]]
    /\ Ends(r)
    /\ UNCHANGED <<kind, row, age, channel, restarts, guesses, uses, verified>>

\* ... and is counted against every unexpired code there is now.  Counts are
\* only compared with MaxAttempts: they stop there.
CountMiss(r) ==
    /\ At(r, "counting")
    /\ attempts' = [t \in Tokens |-> IF t \in Unexpired("code") /\ attempts[t] < MaxAttempts
                                     THEN attempts[t] + 1 ELSE attempts[t]]
    /\ Ends(r)
    /\ UNCHANGED <<kind, row, age, channel, restarts, guesses, uses, verified>>

\* A mutation: a deleteMany, which does not throw.
ConfirmCodeDeleteMany(r) ==
    /\ At(r, "confirming")
    /\ Deleted(req[r].token)
    /\ \A t \in req[r].token :
        /\ uses' = [uses EXCEPT ![t] = @ + 1]
        /\ verified' = [verified EXCEPT ![t] = @ + 1]
    /\ Goes(r, "clearing", NoToken)
    /\ UNCHANGED <<kind, age, attempts, channel, restarts, guesses>>

\* verifyEmailCode deletes the matching row by id, which throws if it is gone.
ConfirmCode(r) ==
    /\ At(r, "confirming")
    /\ IF req[r].token \subseteq Codes
       THEN /\ Deleted(req[r].token)
            /\ \A t \in req[r].token :
                /\ uses' = [uses EXCEPT ![t] = @ + 1]
                /\ verified' = [verified EXCEPT ![t] = @ + 1]
            /\ Goes(r, "clearing", NoToken)
       ELSE UNCHANGED <<row, uses, verified>> /\ Ends(r)
    /\ UNCHANGED <<kind, age, attempts, channel, restarts, guesses>>

\* It then deletes whatever codes the address has, one sent meanwhile too.
ClearCodes(r) ==
    /\ At(r, "clearing")
    /\ Deleted(Codes)
    /\ Ends(r)
    /\ UNCHANGED <<kind, age, attempts, channel, restarts, guesses, uses, verified>>

\* The sign-in deletes all codes of the address, whether its own is among them
\* or gone, and goes on.
SignInWithCode(r) ==
    /\ At(r, "signing")
    /\ Deleted(Codes)
    /\ \A t \in req[r].token : uses' = [uses EXCEPT ![t] = @ + 1]
    /\ Ends(r)
    /\ UNCHANGED <<kind, age, attempts, channel, restarts, guesses, verified>>

-----------------------------------------------------------------------------
\* The process restarts: requests in flight and the challenges are lost.
Restart ==
    /\ restarts < MaxRestarts
    /\ restarts' = restarts + 1
    /\ Deleted({t \in Tokens : kind[t] \in Challenges /\ row[t] = "live"})
    /\ req' = [r \in Requests |-> Idle]
    /\ UNCHANGED <<kind, age, attempts, channel, guesses, uses, verified>>

Next ==
    \/ \E t \in Tokens : \/ Age(t) \/ GenerateNonce(t) \/ UpdateChannel(t) \/ StorePendingAuth(t)
                         \/ GenerateRegistrationOptions(t) \/ GenerateRegistrationOptionsForNewUser(t)
                         \/ GenerateAuthenticationOptions(t)
    \/ \E r \in Requests, t \in Tokens :
        \/ ChannelNonce(r, t) \/ VerifyMessageLookup(r, t) \/ GetPendingAuthLookup(r, t)
        \/ VerifyChallenge(r, t)
        \/ CreateCode(r, t) \/ ResendLookup(r, t)
        \/ MatchCode(r, t, "confirming") \/ MatchCode(r, t, "signing")
    \/ \E r \in Requests :
        \/ CreateChannel(r) \/ VerifyMessageMark(r) \/ GetPendingAuthDelete(r) \/ SendDelete(r) \/ ResendDelete(r)
        \/ MissCode(r) \/ CountMiss(r) \/ ConfirmCode(r) \/ ClearCodes(r) \/ SignInWithCode(r)
    \/ CleanupExpiredNonces \/ CleanupExpiredChallenges
    \/ Restart

Spec == Init /\ [][Next]_vars

-----------------------------------------------------------------------------
\* What this state means for the promise of SingleUse.

Status(t) ==
    CASE row[t] = "none" -> "unissued"
      [] row[t] \in {"used", "gone"} -> "spent"
      [] row[t] = "live" -> IF age[t] = "expired" \/ attempts[t] = MaxAttempts
                            THEN "stale" ELSE "valid"

StrictTokens == {t \in Tokens : kind[t] \in {"pending"} \union Challenges}

Claimed(r) == IF req[r].step \in {"marking", "taking", "confirming", "signing"}
              THEN req[r].token ELSE NoToken

\* The services keep the promise: a token is used only by requests that looked
\* it up while it was valid, none of them after its first use, and a pending
\* sign-in or a challenge by one request only (siweService.verifyMessage and
\* getPendingAuth, challengeService.verifyChallenge, the e-mail handlers).
Promise == INSTANCE SingleUse WITH
    status <- [t \in Tokens |-> Status(t)],
    strict <- StrictTokens,
    claim <- [r \in Requests |-> Claimed(r)]

KeepsPromise == Promise!Spec

\* The e-mail verification endpoint confirms a code at most once, however it
\* races with itself, a sign-in, a resend or its own clean-up: only the
\* request whose delete finds the row goes on.
ConfirmedOnce == \A t \in Tokens : verified[t] <= 1

\* No code is compared with more wrong guesses than the limit allows and the
\* other requests in flight add: guesses are counted after they are compared,
\* so that a restart forgives those of the requests it ends.
GuessesBounded ==
    \A t \in Tokens : guesses[t] < MaxAttempts + (restarts + 1) * Cardinality(Requests)

\* An address never has more codes, those about to be stored included, than
\* requests in flight together: a send deletes what was there before.  (So the
\* limit of 1000 codes an hour, which counts rows, never refuses a request.)
CodesBounded ==
    Cardinality(Codes) + Cardinality({r \in Requests : At(r, "creating")})
        <= Cardinality(Requests)

\* "Rate limited to 3 requests per hour per email" counts the requests' rows, so
\* that those of unused codes would have to be there for an hour.  Not true:
\* every request deletes the rows of those before it.
RequestsStayCounted ==
    \A t \in Tokens : kind[t] = "code" /\ age[t] # "expired" /\ uses[t] = 0 => row[t] = "live"
=============================================================================
