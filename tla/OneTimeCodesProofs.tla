------------------------- MODULE OneTimeCodesProofs -------------------------
(***************************************************************************)
(* Proofs about OneTimeCodes, for any numbers of tokens, requests, allowed *)
(* guesses and restarts.                                                   *)
(***************************************************************************)
EXTENDS OneTimeCodes, FiniteSetTheorems, TLAPS

-----------------------------------------------------------------------------
(* The invariant.                                                          *)

\* Whatever a request still has to do with a token, it holds one of the kind
\* that it looked for.
Holds(r, k) == \E t \in Tokens : req[r].token = {t} /\ kind[t] = k
TokensHeld ==
  \A r \in Requests :
    /\ At(r, "marking") => Holds(r, "nonce")
    /\ At(r, "taking") => Holds(r, "pending")
    /\ req[r].step \in {"resending", "confirming", "signing"} => Holds(r, "code")

\* Nothing has happened to a token before it is generated, and wrong guesses
\* count against codes only.
Untouched ==
  \A t \in Tokens :
    /\ kind[t] = "none" => /\ age[t] = "young" /\ attempts[t] = 0
                           /\ guesses[t] = 0 /\ uses[t] = 0 /\ verified[t] = 0
    /\ kind[t] # "code" => attempts[t] = 0

\* A code that was confirmed is gone for good.
ConfirmedGone == \A t \in Tokens : verified[t] = 0 \/ (verified[t] = 1 /\ row[t] = "gone")

CodesInv == TypeOK /\ TokensHeld /\ Untouched /\ ConfirmedGone

LEMMA CodesInit == Init => CodesInv
<1> SUFFICES ASSUME Init PROVE CodesInv
  OBVIOUS
<1>1. TypeOK
  BY SomeAttempts, SomeRestarts DEF Init, TypeOK, Kinds, Ages, Steps, NoToken, Idle
<1>2. TokensHeld
  BY DEF Init, TokensHeld, At, Idle
<1>3. Untouched
  BY DEF Init, Untouched
<1>4. ConfirmedGone
  BY DEF Init, ConfirmedGone
<1> QED BY <1>1, <1>2, <1>3, <1>4 DEF CodesInv

\* Every action on its own; the last three conjuncts are only at stake where a
\* row, a request or one of the histories changes.
\* A lookup takes a token of the kind that it looks for, and changes nothing
\* else.
LEMMA LookupStep ==
  ASSUME CodesInv, NEW r \in Requests, NEW t \in Tokens,
         NEW s \in {"marking", "taking", "resending", "confirming", "signing"},
         kind[t] = CASE s = "marking" -> "nonce" [] s = "taking" -> "pending" [] OTHER -> "code",
         Goes(r, s, {t}),
         UNCHANGED <<kind, row, age, attempts, channel, restarts, guesses, uses, verified>>
  PROVE  CodesInv'
<1>1. req' \in [Requests -> [step : Steps, token : {NoToken} \union {{u} : u \in Tokens}]]
  <2>1. [step |-> s, token |-> {t}] \in [step : Steps, token : {NoToken} \union {{u} : u \in Tokens}]
    BY DEF Steps
  <2> QED BY <2>1 DEF CodesInv, TypeOK, Goes
<1>2. TypeOK'
  BY <1>1 DEF CodesInv, TypeOK
<1>3. \A q \in Requests : req'[q] = IF q = r THEN [step |-> s, token |-> {t}] ELSE req[q]
  BY DEF CodesInv, TypeOK, Goes
<1>4. TokensHeld'
  BY <1>3 DEF CodesInv, TokensHeld, Holds, At
<1>5. Untouched' /\ ConfirmedGone'
  BY DEF CodesInv, Untouched, ConfirmedGone
<1> QED BY <1>2, <1>4, <1>5 DEF CodesInv

LEMMA CodesStep == CodesInv /\ Next => CodesInv'
<1> SUFFICES ASSUME CodesInv, Next PROVE CodesInv'
  OBVIOUS
<1> USE SomeAttempts, SomeRestarts
    DEF CodesInv, TypeOK, Kinds, Challenges, Ages, Steps, NoToken, Idle, TokensHeld, Holds, At,
        Goes, Ends, Untouched, ConfirmedGone
<1>1. ASSUME NEW t \in Tokens, Age(t) PROVE CodesInv'
  BY <1>1 DEF Age
<1>2. ASSUME NEW t \in Tokens, NEW k \in Kinds, Generate(t, k),
             UNCHANGED <<age, attempts, channel, req, restarts, guesses, uses, verified>>
      PROVE CodesInv'
  BY <1>2 DEF Generate
<1>3. ASSUME NEW t \in Tokens, UpdateChannel(t) PROVE CodesInv'
  BY <1>3 DEF UpdateChannel
<1>4. ASSUME NEW r \in Requests, NEW t \in Tokens, ChannelNonce(r, t) PROVE CodesInv'
  <2>1. /\ req[r].step \in {"idle", "creating"} /\ kind[t] = "none"
        /\ kind' = [kind EXCEPT ![t] = "nonce"] /\ row' = [row EXCEPT ![t] = "live"]
        /\ Goes(r, "opening", {t})
        /\ UNCHANGED <<age, attempts, channel, restarts, guesses, uses, verified>>
    BY <1>4 DEF ChannelNonce, Generate
  <2>2. TypeOK'
    BY <2>1
  <2>3. Untouched' /\ ConfirmedGone'
    BY <2>1
  <2>4. TokensHeld'
    BY <2>1
  <2> QED BY <2>2, <2>3, <2>4
<1>5. ASSUME NEW r \in Requests, NEW t \in Tokens, VerifyMessageLookup(r, t) PROVE CodesInv'
  BY <1>5, LookupStep DEF VerifyMessageLookup, Unexpired
<1>6. ASSUME NEW r \in Requests, NEW t \in Tokens, GetPendingAuthLookup(r, t) PROVE CodesInv'
  BY <1>6, LookupStep DEF GetPendingAuthLookup, Unexpired
<1>7. ASSUME NEW r \in Requests, NEW t \in Tokens, VerifyChallenge(r, t) PROVE CodesInv'
  BY <1>7 DEF VerifyChallenge
<1>8. ASSUME NEW r \in Requests, NEW t \in Tokens, CreateCode(r, t) PROVE CodesInv'
  <2>1. /\ req[r].step \in {"idle", "creating"} /\ kind[t] = "none"
        /\ kind' = [kind EXCEPT ![t] = "code"] /\ row' = [row EXCEPT ![t] = "live"]
        /\ Goes(r, "idle", NoToken)
        /\ UNCHANGED <<age, attempts, channel, restarts, guesses, uses, verified>>
    BY <1>8 DEF CreateCode, Generate
  <2>2. TypeOK'
    BY <2>1
  <2>3. Untouched' /\ ConfirmedGone'
    BY <2>1
  <2>4. TokensHeld'
    BY <2>1
  <2> QED BY <2>2, <2>3, <2>4
<1>9. ASSUME NEW r \in Requests, NEW t \in Tokens, ResendLookup(r, t) PROVE CodesInv'
  BY <1>9, LookupStep DEF ResendLookup, Unexpired
<1>10. ASSUME NEW r \in Requests, NEW t \in Tokens,
              NEW s \in {"confirming", "signing"}, MatchCode(r, t, s) PROVE CodesInv'
  <2>1. At(r, "idle") /\ kind[t] = "code" /\ Goes(r, s, {t})
        /\ UNCHANGED <<kind, row, age, attempts, channel, restarts, guesses, uses, verified>>
    BY <1>10 DEF MatchCode, Guessable, Unexpired
  <2>2. CASE s = "confirming"
    BY <2>1, <2>2, LookupStep
  <2>3. CASE s = "signing"
    BY <2>1, <2>3, LookupStep
  <2> QED BY <2>2, <2>3
<1>11. ASSUME NEW r \in Requests, CreateChannel(r) PROVE CodesInv'
  <2>1. /\ channel' \in [Tokens -> {"none", "pending", "completed"}]
        /\ Ends(r)
        /\ UNCHANGED <<kind, row, age, attempts, restarts, guesses, uses, verified>>
    BY <1>11 DEF CreateChannel
  <2>2. TypeOK'
    BY <2>1
  <2>3. TokensHeld' /\ Untouched' /\ ConfirmedGone'
    BY <2>1
  <2> QED BY <2>2, <2>3
<1>12. ASSUME NEW r \in Requests, VerifyMessageMark(r) PROVE CodesInv'
  <2>1. PICK t \in Tokens : req[r].token = {t} /\ kind[t] = "nonce"
    BY <1>12 DEF VerifyMessageMark
  <2>2. \/ UNCHANGED <<row, uses>>
        \/ /\ row[t] \in {"live", "used"} /\ row' = [row EXCEPT ![t] = "used"]
           /\ uses' = [uses EXCEPT ![t] = @ + 1]
    BY <1>12, <2>1 DEF VerifyMessageMark
  <2>3. Ends(r) /\ UNCHANGED <<kind, age, attempts, channel, restarts, guesses, verified>>
    BY <1>12 DEF VerifyMessageMark
  <2>4. TypeOK'
    <3>1. req' \in [Requests -> [step : Steps, token : {NoToken} \union {{u} : u \in Tokens}]]
      BY <2>3
    <3>2. row' \in [Tokens -> {"none", "live", "used", "gone"}] /\ uses' \in [Tokens -> Nat]
      BY <2>2
    <3>3. \A u \in Tokens : /\ kind'[u] = "none" <=> row'[u] = "none"
                            /\ row'[u] = "used" => kind'[u] = "nonce"
      BY <2>1, <2>2, <2>3
    <3> QED BY <2>3, <3>1, <3>2, <3>3
  <2>5. Untouched' /\ ConfirmedGone'
    BY <2>1, <2>2, <2>3
  <2>6. TokensHeld'
    BY <2>1, <2>3
  <2> QED BY <2>4, <2>5, <2>6
<1>13. ASSUME NEW r \in Requests, GetPendingAuthDelete(r) PROVE CodesInv'
  <2>1. PICK t \in Tokens : req[r].token = {t} /\ kind[t] = "pending"
    BY <1>13 DEF GetPendingAuthDelete
  <2>2. \/ UNCHANGED <<row, uses>>
        \/ /\ row[t] \in {"live", "used"} /\ row' = [row EXCEPT ![t] = "gone"]
           /\ uses' = [uses EXCEPT ![t] = @ + 1]
    BY <1>13, <2>1 DEF GetPendingAuthDelete
  <2>3. Ends(r) /\ UNCHANGED <<kind, age, attempts, channel, restarts, guesses, verified>>
    BY <1>13 DEF GetPendingAuthDelete
  <2>4. TypeOK'
    <3>1. req' \in [Requests -> [step : Steps, token : {NoToken} \union {{u} : u \in Tokens}]]
      BY <2>3
    <3>2. row' \in [Tokens -> {"none", "live", "used", "gone"}] /\ uses' \in [Tokens -> Nat]
      BY <2>2
    <3>3. \A u \in Tokens : /\ kind'[u] = "none" <=> row'[u] = "none"
                            /\ row'[u] = "used" => kind'[u] = "nonce"
      BY <2>1, <2>2, <2>3
    <3> QED BY <2>3, <3>1, <3>2, <3>3
  <2>5. Untouched' /\ ConfirmedGone'
    BY <2>1, <2>2, <2>3
  <2>6. TokensHeld'
    BY <2>1, <2>3
  <2> QED BY <2>4, <2>5, <2>6
<1>14. ASSUME NEW r \in Requests, SendDelete(r) PROVE CodesInv'
  BY <1>14 DEF SendDelete, Deleted, Codes
<1>15. ASSUME NEW r \in Requests, ResendDelete(r) PROVE CodesInv'
  <2>1. PICK t \in Tokens : req[r].token = {t} /\ kind[t] = "code"
    BY <1>15 DEF ResendDelete
  <2>2. \/ row' = [row EXCEPT ![t] = "gone"] /\ row[t] = "live" /\ Goes(r, "creating", NoToken)
        \/ UNCHANGED row /\ Ends(r)
    BY <1>15, <2>1 DEF ResendDelete, Deleted, Codes
  <2>3. UNCHANGED <<kind, age, attempts, channel, restarts, guesses, uses, verified>>
    BY <1>15 DEF ResendDelete
  <2>4. CASE row' = [row EXCEPT ![t] = "gone"] /\ row[t] = "live" /\ Goes(r, "creating", NoToken)
    BY <2>1, <2>3, <2>4
  <2>5. CASE UNCHANGED row /\ Ends(r)
    BY <2>3, <2>5
  <2> QED BY <2>2, <2>4, <2>5
<1>16. ASSUME NEW r \in Requests, MissCode(r) PROVE CodesInv'
  BY <1>16 DEF MissCode, Guessable, Unexpired
<1>17. ASSUME NEW r \in Requests, CountMiss(r) PROVE CodesInv'
  BY <1>17 DEF CountMiss, Unexpired
<1>18. ASSUME NEW r \in Requests, ConfirmCode(r) PROVE CodesInv'
  <2>1. PICK t \in Tokens : req[r].token = {t} /\ kind[t] = "code"
    BY <1>18 DEF ConfirmCode
  <2>2. \/ /\ row[t] = "live" /\ row' = [row EXCEPT ![t] = "gone"]
           /\ uses' = [uses EXCEPT ![t] = @ + 1] /\ verified' = [verified EXCEPT ![t] = @ + 1]
           /\ Goes(r, "clearing", NoToken)
        \/ UNCHANGED <<row, uses, verified>> /\ Ends(r)
    BY <1>18, <2>1 DEF ConfirmCode, Deleted, Codes
  <2>3. UNCHANGED <<kind, age, attempts, channel, restarts, guesses>>
    BY <1>18 DEF ConfirmCode
  <2>4. CASE UNCHANGED <<row, uses, verified>> /\ Ends(r)
    BY <2>3, <2>4
  <2>5. ASSUME row[t] = "live", row' = [row EXCEPT ![t] = "gone"],
               uses' = [uses EXCEPT ![t] = @ + 1], verified' = [verified EXCEPT ![t] = @ + 1],
               Goes(r, "clearing", NoToken)
        PROVE  CodesInv'
    <3>1. TypeOK' /\ TokensHeld'
      BY <2>1, <2>3, <2>5
    <3>2. Untouched' /\ ConfirmedGone'
      BY <2>1, <2>3, <2>5
    <3> QED BY <3>1, <3>2
  <2> QED BY <2>2, <2>4, <2>5
<1>19. ASSUME NEW r \in Requests, ClearCodes(r) PROVE CodesInv'
  BY <1>19 DEF ClearCodes, Deleted, Codes
<1>20. ASSUME NEW r \in Requests, SignInWithCode(r) PROVE CodesInv'
  <2>1. PICK t \in Tokens : req[r].token = {t} /\ kind[t] = "code"
    BY <1>20 DEF SignInWithCode
  <2>2. uses' = [uses EXCEPT ![t] = @ + 1]
    BY <1>20, <2>1 DEF SignInWithCode
  <2> QED BY <1>20, <2>1, <2>2 DEF SignInWithCode, Deleted, Codes
<1>21. CASE CleanupExpiredNonces \/ CleanupExpiredChallenges
  BY <1>21 DEF CleanupExpiredNonces, CleanupExpiredChallenges, Deleted
<1>22. CASE Restart
  BY <1>22 DEF Restart, Deleted
<1> QED BY <1>1, <1>2, <1>3, <1>4, <1>5, <1>6, <1>7, <1>8, <1>9, <1>10, <1>11, <1>12, <1>13,
           <1>14, <1>15, <1>16, <1>17, <1>18, <1>19, <1>20, <1>21, <1>22
        DEF Next, GenerateNonce, StorePendingAuth, GenerateChallenge, GenerateRegistrationOptions,
            GenerateRegistrationOptionsForNewUser, GenerateAuthenticationOptions

LEMMA CodesInvariance == Spec => []CodesInv
<1>1. CodesInv /\ UNCHANGED vars => CodesInv'
  BY DEF vars, CodesInv, TypeOK, TokensHeld, Holds, At, Untouched, ConfirmedGone
<1> QED BY CodesInit, CodesStep, <1>1, PTL DEF Spec

\* Every variable of the one-time flows keeps its type; only what was generated
\* has a row, and only nonces are marked used.
THEOREM CodesTypeCorrect == Spec => []TypeOK
<1>1. CodesInv => TypeOK
  BY DEF CodesInv
<1> QED BY <1>1, CodesInvariance, PTL

\* A code is confirmed at most once: its row is gone then, and the delete by id
\* throws for every later request.
THEOREM CodeConfirmedOnce == Spec => []ConfirmedOnce
<1>1. CodesInv => ConfirmedOnce
  BY DEF CodesInv, ConfirmedGone, ConfirmedOnce
<1> QED BY <1>1, CodesInvariance, PTL

-----------------------------------------------------------------------------
(* The refinement of SingleUse.                                            *)

LEMMA PromiseInit == Init => Promise!Init
BY DEF Init, Promise!Init, Status, StrictTokens, Challenges, Claimed, Idle, NoToken

\* What a step must do to status, claims and uses to be one of the steps of
\* SingleUse.
LEMMA IsClaim ==
  ASSUME NEW r \in Requests, NEW t \in Tokens, Claimed(r) = {}, Status(t) = "valid",
         \A q \in Requests : Claimed(q)' = IF q = r THEN {t} ELSE Claimed(q),
         \A u \in Tokens : Status(u)' = Status(u),
         UNCHANGED <<StrictTokens, uses>>
  PROVE  Promise!Next
<1>1. Promise!Claim(r, t)
  BY DEF Promise!Claim
<1> QED BY <1>1 DEF Promise!Next

LEMMA IsDrop ==
  ASSUME NEW r \in Requests, Claimed(r) # {},
         \A q \in Requests : Claimed(q)' = IF q = r THEN {} ELSE Claimed(q),
         \A u \in Tokens : Status(u)' = Status(u),
         UNCHANGED <<StrictTokens, uses>>
  PROVE  Promise!Next
<1>1. Promise!Drop(r)
  BY DEF Promise!Drop
<1> QED BY <1>1 DEF Promise!Next

LEMMA IsUse ==
  ASSUME NEW r \in Requests, NEW t \in Tokens, NEW S \in SUBSET Tokens,
         Claimed(r) = {t}, t \in StrictTokens => Status(t) # "spent",
         \A u \in S : Status(u) # "unissued",
         \A q \in Requests : Claimed(q)' = IF q = r THEN {} ELSE Claimed(q),
         \A u \in Tokens : Status(u)' = IF u \in S \cup {t} THEN "spent" ELSE Status(u),
         uses' = [uses EXCEPT ![t] = @ + 1], UNCHANGED StrictTokens
  PROVE  Promise!Next
<1>1. Promise!Use(r, t, S)
  BY DEF Promise!Use
<1> QED BY <1>1 DEF Promise!Next

LEMMA IsUseAtOnce ==
  ASSUME NEW r \in Requests, NEW t \in Tokens, Claimed(r) = {}, Status(t) = "valid",
         \A u \in Tokens : Status(u)' = IF u = t THEN "spent" ELSE Status(u),
         uses' = [uses EXCEPT ![t] = @ + 1], 
         \A q \in Requests : Claimed(q)' = Claimed(q), UNCHANGED StrictTokens
  PROVE  Promise!Next
<1>1. Promise!UseAtOnce(r, t)
  BY DEF Promise!UseAtOnce
<1> QED BY <1>1 DEF Promise!Next

LEMMA IsWithdraw ==
  ASSUME NEW S \in SUBSET Tokens, NEW R \in SUBSET Requests,
         \A u \in S : Status(u) # "unissued",
         \A q \in Requests : Claimed(q)' = IF q \in R THEN {} ELSE Claimed(q),
         \A u \in Tokens : Status(u)' = IF u \in S THEN "spent" ELSE Status(u),
         UNCHANGED <<StrictTokens, uses>>
  PROVE  Promise!Next
<1>1. Promise!Withdraw(S, R)
  BY DEF Promise!Withdraw
<1> QED BY <1>1 DEF Promise!Next

LEMMA IsGoStale ==
  ASSUME NEW S \in SUBSET Tokens,
         \A u \in S : Status(u) = "valid",
         \A q \in Requests : Claimed(q)' = Claimed(q),
         \A u \in Tokens : Status(u)' = IF u \in S THEN "stale" ELSE Status(u),
         UNCHANGED <<StrictTokens, uses>>
  PROVE  Promise!Next
<1>1. Promise!GoStale(S)
  BY DEF Promise!GoStale
<1> QED BY <1>1 DEF Promise!Next

LEMMA IsIssue ==
  ASSUME NEW t \in Tokens, Status(t) = "unissued",
         \A q \in Requests : Claimed(q)' = Claimed(q),
         \A u \in Tokens : Status(u)' = IF u = t THEN "valid" ELSE Status(u),
         StrictTokens' \in {StrictTokens, StrictTokens \cup {t}}, UNCHANGED uses
  PROVE  Promise!Next
<1>1. Promise!Issue(t)
  BY DEF Promise!Issue
<1> QED BY <1>1 DEF Promise!Next

LEMMA IsStutter ==
  ASSUME \A q \in Requests : Claimed(q)' = Claimed(q),
         \A u \in Tokens : Status(u)' = Status(u),
         UNCHANGED <<StrictTokens, uses>>
  PROVE  UNCHANGED Promise!vars
BY DEF Promise!vars

\* What the mapping reads.
LEMMA KindFixed == UNCHANGED kind => UNCHANGED StrictTokens
BY DEF StrictTokens
LEMMA RequestsFixed == UNCHANGED req => \A q \in Requests : Claimed(q)' = Claimed(q)
BY DEF Claimed
LEMMA RowsFixed == UNCHANGED <<row, age, attempts>> => \A u \in Tokens : Status(u)' = Status(u)
BY DEF Status

\* A request that begins or ends no claim.
LEMMA NoClaim ==
  ASSUME TypeOK, NEW r \in Requests, NEW s, NEW T,
         req[r].step \notin {"marking", "taking", "confirming", "signing"},
         s \notin {"marking", "taking", "confirming", "signing"}, Goes(r, s, T)
  PROVE  \A q \in Requests : Claimed(q)' = Claimed(q)
BY DEF TypeOK, Goes, Claimed, NoToken

\* The lookup of a valid token begins one ...
LEMMA BeginsClaim ==
  ASSUME TypeOK, NEW r \in Requests, NEW t \in Tokens, At(r, "idle"),
         NEW s \in {"marking", "taking", "confirming", "signing"}, Goes(r, s, {t})
  PROVE  /\ Claimed(r) = {}
         /\ \A q \in Requests : Claimed(q)' = IF q = r THEN {t} ELSE Claimed(q)
BY DEF TypeOK, At, Goes, Claimed, NoToken

\* ... and the step after it ends it.
LEMMA EndsClaim ==
  ASSUME TypeOK, NEW r \in Requests, NEW t, req[r].token = {t},
         req[r].step \in {"marking", "taking", "confirming", "signing"}, 
         NEW s \in {"idle", "clearing"}, Goes(r, s, NoToken)
  PROVE  /\ Claimed(r) = {t}
         /\ \A q \in Requests : Claimed(q)' = IF q = r THEN {} ELSE Claimed(q)
BY DEF TypeOK, Goes, Claimed, NoToken

\* Tokens of a set are deleted.
LEMMA DeletedSpent ==
  ASSUME TypeOK, NEW S \in SUBSET Tokens, Deleted(S), UNCHANGED <<age, attempts>>
  PROVE  \A u \in Tokens : Status(u)' = IF u \in S THEN "spent" ELSE Status(u)
BY DEF TypeOK, Deleted, Status

\* A deletion that leaves the claims alone withdraws the tokens.
LEMMA DeletionWithdraws ==
  ASSUME TypeOK, NEW S \in SUBSET Tokens, Deleted(S), \A u \in S : row[u] # "none",
         UNCHANGED <<kind, age, attempts, uses>>,
         \A q \in Requests : Claimed(q)' = Claimed(q)
  PROVE  Promise!Next
<1>1. \A u \in Tokens : Status(u)' = IF u \in S THEN "spent" ELSE Status(u)
  BY DeletedSpent
<1>2. \A u \in S : Status(u) # "unissued"
  BY DEF TypeOK, Status
<1>3. \A q \in Requests : Claimed(q)' = IF q \in {} THEN {} ELSE Claimed(q)
  OBVIOUS
<1>4. {} \in SUBSET Requests /\ UNCHANGED <<StrictTokens, uses>>
  BY KindFixed
<1> QED BY <1>1, <1>2, <1>3, <1>4, IsWithdraw

\* A generated token is valid: it is young, and no guess was counted against it.
LEMMA GeneratedIssued ==
  ASSUME CodesInv, NEW t \in Tokens, NEW k \in Kinds, Generate(t, k),
         UNCHANGED <<age, attempts, uses>>,
         \A q \in Requests : Claimed(q)' = Claimed(q)
  PROVE  Promise!Next
<1>1. Status(t) = "unissued"
  BY DEF Generate, CodesInv, TypeOK, Status
<1>2. \A u \in Tokens : Status(u)' = IF u = t THEN "valid" ELSE Status(u)
  BY SomeAttempts DEF Generate, CodesInv, TypeOK, Untouched, Status
<1>3. StrictTokens' \in {StrictTokens, StrictTokens \cup {t}}
  <2>1. CASE k \in {"pending"} \cup Challenges
    BY <2>1 DEF Generate, CodesInv, TypeOK, StrictTokens
  <2>2. CASE k \notin {"pending"} \cup Challenges
    BY <2>2 DEF Generate, CodesInv, TypeOK, StrictTokens, Challenges
  <2> QED BY <2>1, <2>2
<1> QED BY <1>1, <1>2, <1>3, IsIssue

LEMMA PromiseStep == CodesInv /\ Next => [Promise!Next]_(Promise!vars)
<1> DEFINE Maps == Promise!Next \/ UNCHANGED Promise!vars
<1> SUFFICES ASSUME CodesInv, Next PROVE Maps
  OBVIOUS
<1>t. TypeOK /\ TokensHeld /\ Untouched
  BY DEF CodesInv
<1>1. ASSUME NEW t \in Tokens, Age(t) PROVE Maps
  <2>1. UNCHANGED <<kind, req, uses>>
    BY <1>1 DEF Age
  <2>2. CASE Status(t) = "valid" /\ age'[t] = "expired"
    <3>1. \A u \in Tokens : Status(u)' = IF u \in {t} THEN "stale" ELSE Status(u)
      BY <1>1, <1>t, <2>2 DEF Age, TypeOK, Status
    <3> QED BY <2>1, <2>2, <3>1, KindFixed, RequestsFixed, IsGoStale
  <2>3. CASE ~(Status(t) = "valid" /\ age'[t] = "expired")
    <3>1. \A u \in Tokens : Status(u)' = Status(u)
      BY <1>1, <1>t, <2>3 DEF Age, TypeOK, Ages, Status
    <3> QED BY <2>1, <3>1, KindFixed, RequestsFixed, IsStutter
  <2> QED BY <2>2, <2>3
<1>2. ASSUME NEW t \in Tokens, NEW k \in Kinds, Generate(t, k),
             UNCHANGED <<age, attempts, channel, req, restarts, guesses, uses, verified>>
      PROVE Maps
  BY <1>2, RequestsFixed, GeneratedIssued
<1>3. ASSUME NEW t \in Tokens, UpdateChannel(t) PROVE Maps
  BY <1>3, KindFixed, RequestsFixed, RowsFixed, IsStutter DEF UpdateChannel
<1>4. ASSUME NEW r \in Requests, NEW t \in Tokens, ChannelNonce(r, t) PROVE Maps
  BY <1>4, <1>t, NoClaim, GeneratedIssued DEF ChannelNonce, At, Kinds
<1>5. ASSUME NEW r \in Requests, NEW t \in Tokens,
             \/ VerifyMessageLookup(r, t)
             \/ GetPendingAuthLookup(r, t)
             \/ MatchCode(r, t, "confirming") \/ MatchCode(r, t, "signing")
      PROVE Maps
  <2>1. UNCHANGED <<kind, row, age, attempts, uses>> /\ At(r, "idle")
    BY <1>5 DEF VerifyMessageLookup, GetPendingAuthLookup, MatchCode
  <2>2. PICK s \in {"marking", "taking", "confirming", "signing"} : Goes(r, s, {t})
    BY <1>5 DEF VerifyMessageLookup, GetPendingAuthLookup, MatchCode
  <2>3. Status(t) = "valid"
    BY <1>5, <1>t, SomeAttempts
    DEF VerifyMessageLookup, GetPendingAuthLookup, MatchCode, Guessable, Unexpired, Untouched,
        TypeOK, Status
  <2>4. /\ Claimed(r) = {}
        /\ \A q \in Requests : Claimed(q)' = IF q = r THEN {t} ELSE Claimed(q)
    BY <2>1, <2>2, <1>t, BeginsClaim
  <2> QED BY <2>1, <2>3, <2>4, KindFixed, RowsFixed, IsClaim
<1>6. ASSUME NEW r \in Requests, VerifyMessageMark(r) PROVE Maps
  <2>1. PICK t \in Tokens : req[r].token = {t} /\ kind[t] = "nonce"
    BY <1>6, <1>t DEF VerifyMessageMark, TokensHeld, Holds
  <2>2. /\ Claimed(r) = {t}
        /\ \A q \in Requests : Claimed(q)' = IF q = r THEN {} ELSE Claimed(q)
    BY <1>6, <2>1, <1>t, EndsClaim DEF VerifyMessageMark, At, Ends
  <2>3. UNCHANGED <<kind, age, attempts>>
    BY <1>6 DEF VerifyMessageMark
  <2>4. CASE row[t] = "gone"
    BY <1>6, <2>1, <2>2, <2>3, <2>4, KindFixed, RowsFixed, IsDrop DEF VerifyMessageMark
  <2>5. CASE row[t] # "gone"
    <3>1. row' = [row EXCEPT ![t] = "used"] /\ uses' = [uses EXCEPT ![t] = @ + 1]
      BY <1>6, <2>1, <2>5 DEF VerifyMessageMark
    <3>2. \A u \in Tokens : Status(u)' = IF u \in {} \cup {t} THEN "spent" ELSE Status(u)
      BY <3>1, <2>3, <1>t DEF TypeOK, Status
    <3>3. t \notin StrictTokens
      BY <2>1 DEF StrictTokens, Challenges
    <3> QED BY <2>2, <2>3, <3>1, <3>2, <3>3, KindFixed, IsUse
  <2> QED BY <2>4, <2>5
<1>7. ASSUME NEW r \in Requests, GetPendingAuthDelete(r) PROVE Maps
  <2>1. PICK t \in Tokens : req[r].token = {t} /\ kind[t] = "pending"
    BY <1>7, <1>t DEF GetPendingAuthDelete, TokensHeld, Holds
  <2>2. /\ Claimed(r) = {t}
        /\ \A q \in Requests : Claimed(q)' = IF q = r THEN {} ELSE Claimed(q)
    BY <1>7, <2>1, <1>t, EndsClaim DEF GetPendingAuthDelete, At, Ends
  <2>3. UNCHANGED <<kind, age, attempts>>
    BY <1>7 DEF GetPendingAuthDelete
  <2>4. CASE row[t] = "gone"
    BY <1>7, <2>1, <2>2, <2>3, <2>4, KindFixed, RowsFixed, IsDrop DEF GetPendingAuthDelete
  <2>5. CASE row[t] # "gone"
    <3>1. row' = [row EXCEPT ![t] = "gone"] /\ uses' = [uses EXCEPT ![t] = @ + 1]
      BY <1>7, <2>1, <2>5 DEF GetPendingAuthDelete
    <3>2. \A u \in Tokens : Status(u)' = IF u \in {} \cup {t} THEN "spent" ELSE Status(u)
      BY <3>1, <2>3, <1>t DEF TypeOK, Status
    <3>3. Status(t) # "spent"
      BY <2>1, <2>5, <1>t DEF TypeOK, Status
    <3> QED BY <2>2, <2>3, <3>1, <3>2, <3>3, KindFixed, IsUse
  <2> QED BY <2>4, <2>5
<1>8. ASSUME NEW r \in Requests, NEW t \in Tokens, VerifyChallenge(r, t) PROVE Maps
  <2>1. row' = [row EXCEPT ![t] = "gone"] /\ row[t] = "live" /\ UNCHANGED <<kind, age, attempts, req>>
    BY <1>8 DEF VerifyChallenge
  <2>2. \A u \in Tokens : Status(u)' = IF u \in {t} THEN "spent" ELSE Status(u)
    BY <2>1, <1>t DEF TypeOK, Status
  <2>3. CASE age[t] = "expired"
    <3>1. uses' = uses
      BY <1>8, <2>3, <1>t DEF VerifyChallenge, TypeOK
    <3>2. Status(t) # "unissued"
      BY <2>1 DEF Status
    <3>3. \A q \in Requests : Claimed(q)' = IF q \in {} THEN {} ELSE Claimed(q)
      BY <2>1, RequestsFixed
    <3> QED BY <2>1, <2>2, <3>1, <3>2, <3>3, KindFixed, IsWithdraw
  <2>4. CASE age[t] # "expired"
    <3>1. uses' = [uses EXCEPT ![t] = @ + 1]
      BY <1>8, <2>4 DEF VerifyChallenge
    <3>2. Status(t) = "valid"
      BY <1>8, <2>1, <2>4, <1>t, SomeAttempts DEF VerifyChallenge, Challenges, Untouched, Status
    <3>3. Claimed(r) = {}
      BY <1>8 DEF VerifyChallenge, At, Claimed, NoToken
    <3> QED BY <2>1, <2>2, <3>1, <3>2, <3>3, KindFixed, RequestsFixed, IsUseAtOnce
  <2> QED BY <2>3, <2>4
<1>9. ASSUME NEW r \in Requests, NEW t \in Tokens, CreateCode(r, t) PROVE Maps
  BY <1>9, <1>t, NoClaim, GeneratedIssued DEF CreateCode, At, Ends, Kinds
<1>10. ASSUME NEW r \in Requests, NEW t \in Tokens, ResendLookup(r, t) PROVE Maps
  BY <1>10, <1>t, NoClaim, KindFixed, RowsFixed, IsStutter DEF ResendLookup, At
<1>11. ASSUME NEW r \in Requests, CreateChannel(r) PROVE Maps
  BY <1>11, <1>t, NoClaim, KindFixed, RowsFixed, IsStutter DEF CreateChannel, At, Ends
<1>12. ASSUME NEW r \in Requests, SendDelete(r) \/ ClearCodes(r) PROVE Maps
  <2>1. \A q \in Requests : Claimed(q)' = Claimed(q)
    BY <1>12, <1>t, NoClaim DEF SendDelete, ClearCodes, At, Ends
  <2>2. Codes \in SUBSET Tokens /\ \A u \in Codes : row[u] # "none"
    BY DEF Codes
  <2> QED BY <1>12, <1>t, <2>1, <2>2, DeletionWithdraws DEF SendDelete, ClearCodes
<1>13. ASSUME NEW r \in Requests, ResendDelete(r) PROVE Maps
  <2>1. \A q \in Requests : Claimed(q)' = Claimed(q)
    BY <1>13, <1>t, NoClaim DEF ResendDelete, At, Ends
  <2>2. CASE req[r].token \subseteq Codes
    <3>1. req[r].token \in SUBSET Tokens /\ \A u \in req[r].token : row[u] # "none"
      BY <2>2 DEF Codes
    <3> QED BY <1>13, <1>t, <2>1, <2>2, <3>1, DeletionWithdraws DEF ResendDelete
  <2>3. CASE ~(req[r].token \subseteq Codes)
    BY <1>13, <2>1, <2>3, KindFixed, RowsFixed, IsStutter DEF ResendDelete
  <2> QED BY <2>2, <2>3
<1>14. ASSUME NEW r \in Requests, MissCode(r) PROVE Maps
  BY <1>14, <1>t, NoClaim, KindFixed, RowsFixed, IsStutter DEF MissCode, At
<1>15. ASSUME NEW r \in Requests, CountMiss(r) PROVE Maps
  <2> DEFINE S == {t \in Unexpired("code") : attempts[t] < MaxAttempts /\ attempts[t] + 1 = MaxAttempts}
  <2>1. \A q \in Requests : Claimed(q)' = Claimed(q)
    BY <1>15, <1>t, NoClaim DEF CountMiss, At, Ends
  <2>2. S \in SUBSET Tokens /\ \A u \in S : Status(u) = "valid"
    BY SomeAttempts DEF Unexpired, Status
  <2>3. \A u \in Tokens : Status(u)' = IF u \in S THEN "stale" ELSE Status(u)
    BY <1>15, <1>t, SomeAttempts DEF CountMiss, TypeOK, Unexpired, Status
  <2>4. UNCHANGED <<kind, uses>>
    BY <1>15 DEF CountMiss
  <2> HIDE DEF S
  <2> QED BY <2>1, <2>2, <2>3, <2>4, KindFixed, IsGoStale
<1>16. ASSUME NEW r \in Requests, ConfirmCode(r) PROVE Maps
  <2>1. PICK t \in Tokens : req[r].token = {t} /\ kind[t] = "code"
    BY <1>16, <1>t DEF ConfirmCode, TokensHeld, Holds, At
  <2>2. /\ Claimed(r) = {t}
        /\ \A q \in Requests : Claimed(q)' = IF q = r THEN {} ELSE Claimed(q)
    BY <1>16, <2>1, <1>t, EndsClaim DEF ConfirmCode, At, Ends
  <2>3. UNCHANGED <<kind, age, attempts>>
    BY <1>16 DEF ConfirmCode
  <2>4. CASE req[r].token \subseteq Codes
    <3>1. Deleted({t}) /\ uses' = [uses EXCEPT ![t] = @ + 1]
      BY <1>16, <2>1, <2>4 DEF ConfirmCode
    <3>2. \A u \in Tokens : Status(u)' = IF u \in {} \cup {t} THEN "spent" ELSE Status(u)
      BY <3>1, <2>3, <1>t, DeletedSpent
    <3>3. t \notin StrictTokens
      BY <2>1 DEF StrictTokens, Challenges
    <3> QED BY <2>2, <2>3, <3>1, <3>2, <3>3, KindFixed, IsUse
  <2>5. CASE ~(req[r].token \subseteq Codes)
    BY <1>16, <2>2, <2>3, <2>5, KindFixed, RowsFixed, IsDrop DEF ConfirmCode
  <2> QED BY <2>4, <2>5
<1>17. ASSUME NEW r \in Requests, SignInWithCode(r) PROVE Maps
  <2>1. PICK t \in Tokens : req[r].token = {t} /\ kind[t] = "code"
    BY <1>17, <1>t DEF SignInWithCode, TokensHeld, Holds, At
  <2>2. /\ Claimed(r) = {t}
        /\ \A q \in Requests : Claimed(q)' = IF q = r THEN {} ELSE Claimed(q)
    BY <1>17, <2>1, <1>t, EndsClaim DEF SignInWithCode, At, Ends
  <2>3. Deleted(Codes) /\ uses' = [uses EXCEPT ![t] = @ + 1] /\ UNCHANGED <<kind, age, attempts>>
    BY <1>17, <2>1 DEF SignInWithCode
  <2>4. Codes \in SUBSET Tokens /\ \A u \in Codes : Status(u) # "unissued"
    BY DEF Codes, Status
  <2>5. t \in Codes \/ Status(t) = "spent"
    BY <2>1, <1>t DEF TypeOK, Codes, Status
  <2>6. \A u \in Tokens : Status(u)' = IF u \in Codes \cup {t} THEN "spent" ELSE Status(u)
    BY <2>3, <2>4, <2>5, <1>t, DeletedSpent
  <2>7. t \notin StrictTokens
    BY <2>1 DEF StrictTokens, Challenges
  <2> QED BY <2>2, <2>3, <2>4, <2>6, <2>7, KindFixed, IsUse
<1>18. CASE CleanupExpiredNonces \/ CleanupExpiredChallenges
  <2>1. PICK S \in SUBSET Tokens : Deleted(S) /\ \A u \in S : row[u] \in {"live", "used"}
    BY <1>18 DEF CleanupExpiredNonces, CleanupExpiredChallenges
  <2>2. \A u \in S : row[u] # "none"
    BY <2>1
  <2>3. UNCHANGED <<kind, age, attempts, req, uses>>
    BY <1>18 DEF CleanupExpiredNonces, CleanupExpiredChallenges
  <2> QED BY <1>t, <2>1, <2>2, <2>3, RequestsFixed, DeletionWithdraws
<1>19. CASE Restart
  <2> DEFINE S == {t \in Tokens : kind[t] \in Challenges /\ row[t] = "live"}
  <2>1. Deleted(S) /\ UNCHANGED <<kind, age, attempts, uses>>
    BY <1>19 DEF Restart
  <2>2. S \in SUBSET Tokens /\ \A u \in S : Status(u) # "unissued"
    BY DEF Status
  <2>3. \A q \in Requests : Claimed(q)' = IF q \in Requests THEN {} ELSE Claimed(q)
    BY <1>19 DEF Restart, Claimed, Idle, NoToken
  <2> HIDE DEF S
  <2> QED BY <1>t, <2>1, <2>2, <2>3, DeletedSpent, KindFixed, IsWithdraw
<1> HIDE DEF Maps
<1> QED BY <1>1, <1>2, <1>3, <1>4, <1>5, <1>6, <1>7, <1>8, <1>9, <1>10, <1>11, <1>12, <1>13,
           <1>14, <1>15, <1>16, <1>17, <1>18, <1>19
        DEF Next, Kinds, Challenges, GenerateNonce, StorePendingAuth, GenerateChallenge,
            GenerateRegistrationOptions, GenerateRegistrationOptionsForNewUser,
            GenerateAuthenticationOptions

\* The one-time flows keep the promise of SingleUse.
THEOREM PromiseKept == Spec => KeepsPromise
<1>1. Init => Promise!Init
  BY PromiseInit
<1>2. CodesInv /\ UNCHANGED vars => UNCHANGED Promise!vars
  BY DEF vars, Promise!vars, Status, StrictTokens, Claimed
<1> QED BY <1>1, <1>2, PromiseStep, CodesInvariance, PTL DEF Spec, KeepsPromise, Promise!Spec

-----------------------------------------------------------------------------
(* What follows from the promise.                                          *)

Claimants(t) == {r \in Requests : Claimed(r) = {t}}

\* Promise!UsesBounded: a token is used by no more requests than may be in
\* flight together, those that still hold a claim on it included.
UsedWithinFlight ==
  \A t \in Tokens : uses[t] + Cardinality(Claimants(t)) <= Cardinality(Requests)

\* A token that can still be claimed was not used; after its first use the
\* claims that are left turn into uses one by one.
PromiseInv ==
  /\ uses \in [Tokens -> Nat]
  /\ \A t \in Tokens : Status(t) # "spent" => uses[t] = 0
  /\ Promise!StrictUsedOnce
  /\ UsedWithinFlight

LEMMA ClaimantsCounted ==
  ASSUME NEW t
  PROVE  /\ IsFiniteSet(Claimants(t))
         /\ Cardinality(Claimants(t)) \in Nat
         /\ Cardinality(Claimants(t)) <= Cardinality(Requests)
         /\ Cardinality(Requests) \in Nat
BY FiniteFlight, FS_Subset, FS_CardinalityType DEF Claimants

\* Claims are given up one by one ...
LEMMA ClaimEnded ==
  ASSUME NEW r \in Requests, NEW t \in Tokens, Claimed(r) = {t},
         \A q \in Requests : Claimed(q)' = IF q = r THEN {} ELSE Claimed(q)
  PROVE  /\ Cardinality(Claimants(t)') = Cardinality(Claimants(t)) - 1
         /\ \A u \in Tokens \ {t} : Claimants(u)' = Claimants(u)
<1>1. Claimants(t)' = Claimants(t) \ {r} /\ r \in Claimants(t)
  BY DEF Claimants
<1>2. \A u \in Tokens \ {t} : Claimants(u)' = Claimants(u)
  BY DEF Claimants
<1> QED BY <1>1, <1>2, ClaimantsCounted, FS_RemoveElement

\* ... or many together.
LEMMA ClaimsFewer ==
  ASSUME NEW t \in Tokens,
         \A q \in Requests : Claimed(q)' \in {{}, Claimed(q)}
  PROVE  /\ Cardinality(Claimants(t)') \in Nat
         /\ Cardinality(Claimants(t)') <= Cardinality(Claimants(t))
<1>1. Claimants(t)' \in SUBSET Claimants(t)
  BY DEF Claimants
<1> QED BY <1>1, ClaimantsCounted, FS_Subset, FS_CardinalityType

\* A request without a claim leaves room for its use.
LEMMA RoomForOne ==
  ASSUME NEW r \in Requests, NEW t \in Tokens, Claimed(r) = {}
  PROVE  Cardinality(Claimants(t)) + 1 <= Cardinality(Requests)
<1>1. Claimants(t) \in SUBSET (Requests \ {r})
  BY DEF Claimants
<1>2. /\ IsFiniteSet(Requests \ {r})
      /\ Cardinality(Requests \ {r}) = Cardinality(Requests) - 1
  BY FiniteFlight, FS_RemoveElement
<1> QED BY <1>1, <1>2, FS_Subset, ClaimantsCounted

LEMMA PromiseInvStep == PromiseInv /\ Promise!Next => PromiseInv'
<1> SUFFICES ASSUME PromiseInv, Promise!Next PROVE PromiseInv'
  OBVIOUS
<1> USE DEF PromiseInv, Promise!StrictUsedOnce
<1>1. ASSUME NEW t \in Tokens, Promise!Issue(t) PROVE PromiseInv'
  <2>1. /\ uses' = uses /\ Status(t) = "unissued" /\ StrictTokens' \in {StrictTokens, StrictTokens \cup {t}}
        /\ \A u \in Tokens : Status(u)' = IF u = t THEN "valid" ELSE Status(u)
    BY <1>1 DEF Promise!Issue
  <2>2. \A q \in Requests : Claimed(q)' \in {{}, Claimed(q)}
    BY <1>1 DEF Promise!Issue
  <2>3. UsedWithinFlight'
    BY <2>1, <2>2, ClaimsFewer, ClaimantsCounted DEF UsedWithinFlight
  <2> QED BY <2>1, <2>3
<1>2. ASSUME NEW S \in SUBSET Tokens, Promise!GoStale(S) PROVE PromiseInv'
  <2>1. /\ uses' = uses /\ StrictTokens' = StrictTokens /\ \A u \in S : Status(u) = "valid"
        /\ \A u \in Tokens : Status(u)' = IF u \in S THEN "stale" ELSE Status(u)
    BY <1>2 DEF Promise!GoStale
  <2>2. \A q \in Requests : Claimed(q)' \in {{}, Claimed(q)}
    BY <1>2 DEF Promise!GoStale
  <2>3. UsedWithinFlight'
    BY <2>1, <2>2, ClaimsFewer, ClaimantsCounted DEF UsedWithinFlight
  <2> QED BY <2>1, <2>3
<1>3. ASSUME NEW S \in SUBSET Tokens, NEW R \in SUBSET Requests, Promise!Withdraw(S, R) PROVE PromiseInv'
  <2>1. /\ uses' = uses /\ StrictTokens' = StrictTokens
        /\ \A u \in Tokens : Status(u)' = IF u \in S THEN "spent" ELSE Status(u)
    BY <1>3 DEF Promise!Withdraw
  <2>2. \A q \in Requests : Claimed(q)' \in {{}, Claimed(q)}
    BY <1>3 DEF Promise!Withdraw
  <2>3. UsedWithinFlight'
    BY <2>1, <2>2, ClaimsFewer, ClaimantsCounted DEF UsedWithinFlight
  <2> QED BY <2>1, <2>3
<1>4. ASSUME NEW r \in Requests, Promise!Drop(r) PROVE PromiseInv'
  <2>1. /\ uses' = uses /\ StrictTokens' = StrictTokens
        /\ \A u \in Tokens : Status(u)' = Status(u)
    BY <1>4 DEF Promise!Drop
  <2>2. \A q \in Requests : Claimed(q)' \in {{}, Claimed(q)}
    BY <1>4 DEF Promise!Drop
  <2>3. UsedWithinFlight'
    BY <2>1, <2>2, ClaimsFewer, ClaimantsCounted DEF UsedWithinFlight
  <2> QED BY <2>1, <2>3
<1>5. ASSUME NEW r \in Requests, NEW t \in Tokens, Promise!Claim(r, t) PROVE PromiseInv'
  <2>1. /\ uses' = uses /\ StrictTokens' = StrictTokens /\ Status(t) = "valid"
        /\ \A u \in Tokens : Status(u)' = Status(u)
    BY <1>5 DEF Promise!Claim
  <2>2. Claimed(r) = {} /\ \A q \in Requests : Claimed(q)' = IF q = r THEN {t} ELSE Claimed(q)
    BY <1>5 DEF Promise!Claim
  <2>3. ASSUME NEW u \in Tokens PROVE uses'[u] + Cardinality(Claimants(u)') <= Cardinality(Requests)
    <3>1. CASE u = t
      <4>1. Claimants(u)' \in SUBSET Requests
        BY DEF Claimants
      <4> QED BY <2>1, <3>1, <4>1, FiniteFlight, FS_Subset, FS_CardinalityType
    <3>2. CASE u # t
      <4>1. Claimants(u)' = Claimants(u)
        BY <2>2, <3>2 DEF Claimants
      <4> QED BY <2>1, <4>1 DEF UsedWithinFlight
    <3> QED BY <3>1, <3>2
  <2> QED BY <2>1, <2>3 DEF UsedWithinFlight
<1>6. ASSUME NEW r \in Requests, NEW t \in Tokens, Promise!UseAtOnce(r, t) PROVE PromiseInv'
  <2>1. /\ uses' = [uses EXCEPT ![t] = @ + 1] /\ StrictTokens' = StrictTokens
        /\ Status(t) = "valid" /\ Claimed(r) = {}
        /\ \A u \in Tokens : Status(u)' = IF u = t THEN "spent" ELSE Status(u)
    BY <1>6 DEF Promise!UseAtOnce
  <2>2. \A q \in Requests : Claimed(q)' \in {{}, Claimed(q)}
    BY <1>6 DEF Promise!UseAtOnce
  <2>3. UsedWithinFlight'
    BY <2>1, <2>2, ClaimsFewer, ClaimantsCounted, RoomForOne DEF UsedWithinFlight
  <2> QED BY <2>1, <2>3 DEF StrictTokens
<1>7. ASSUME NEW r \in Requests, NEW t \in Tokens, NEW S \in SUBSET Tokens, Promise!Use(r, t, S)
      PROVE PromiseInv'
  <2>1. /\ uses' = [uses EXCEPT ![t] = @ + 1] /\ StrictTokens' = StrictTokens
        /\ t \in StrictTokens => Status(t) # "spent"
        /\ \A u \in Tokens : Status(u)' = IF u \in S \cup {t} THEN "spent" ELSE Status(u)
    BY <1>7 DEF Promise!Use
  <2>2. Claimed(r) = {t} /\ \A q \in Requests : Claimed(q)' = IF q = r THEN {} ELSE Claimed(q)
    BY <1>7 DEF Promise!Use
  <2>3. UsedWithinFlight'
    BY <2>1, <2>2, ClaimEnded, ClaimantsCounted DEF UsedWithinFlight
  <2> QED BY <2>1, <2>3 DEF StrictTokens
<1> QED BY <1>1, <1>2, <1>3, <1>4, <1>5, <1>6, <1>7 DEF Promise!Next

LEMMA PromiseInvariance == Spec => []PromiseInv
<1>1. Init => PromiseInv
  <2> SUFFICES ASSUME Init PROVE PromiseInv
    OBVIOUS
  <2>1. uses = [t \in Tokens |-> 0]
    BY DEF Init
  <2> QED BY <2>1, ClaimantsCounted DEF PromiseInv, Promise!StrictUsedOnce, StrictTokens, UsedWithinFlight
<1>2. PromiseInv /\ UNCHANGED Promise!vars => PromiseInv'
  <2> SUFFICES ASSUME PromiseInv, UNCHANGED Promise!vars PROVE PromiseInv'
    OBVIOUS
  <2>1. /\ uses' = uses /\ StrictTokens' = StrictTokens
        /\ \A u \in Tokens : Status(u)' = Status(u)
        /\ \A q \in Requests : Claimed(q)' = Claimed(q)
    BY DEF Promise!vars
  <2>2. \A t \in Tokens : Claimants(t)' = Claimants(t)
    BY <2>1 DEF Claimants
  <2> QED BY <2>1, <2>2 DEF PromiseInv, Promise!StrictUsedOnce, UsedWithinFlight
<1> QED BY <1>1, <1>2, PromiseInvStep, PromiseKept, PTL DEF Promise!Spec, KeepsPromise, Spec

\* A pending sign-in or a challenge is used at most once, in whatever order the
\* steps of the requests that carry it are taken.
THEOREM StrictlyOnce == Spec => []Promise!StrictUsedOnce
<1>1. PromiseInv => Promise!StrictUsedOnce
  BY DEF PromiseInv
<1> QED BY <1>1, PromiseInvariance, PTL

\* Nobody who looks a token up after its first use gets to use it: there are
\* never more uses than requests that may be in flight together.
THEOREM UsesWithinFlight == Spec => []UsedWithinFlight
<1>1. PromiseInv => UsedWithinFlight
  BY DEF PromiseInv
<1> QED BY <1>1, PromiseInvariance, PTL

-----------------------------------------------------------------------------
(* The bounds on codes and guesses.                                        *)

AtStep(s) == {r \in Requests : At(r, s)}

LEMMA AtStepCounted ==
  ASSUME NEW s
  PROVE  /\ IsFiniteSet(AtStep(s))
         /\ Cardinality(AtStep(s)) \in Nat
         /\ Cardinality(Requests) \in Nat
         /\ Cardinality(AtStep(s)) <= Cardinality(Requests)
BY FiniteFlight, FS_Subset, FS_CardinalityType DEF AtStep

\* A request that goes from one step to another leaves and joins one set.
LEMMA StepsMove ==
  ASSUME TypeOK, NEW r \in Requests, NEW s, NEW T, Goes(r, s, T), NEW q
  PROVE  AtStep(q)' = IF q = s THEN AtStep(q) \cup {r} ELSE AtStep(q) \ {r}
BY DEF TypeOK, Goes, AtStep, At

LEMMA JoinsStep ==
  ASSUME TypeOK, NEW r \in Requests, NEW s, NEW T, Goes(r, s, T), ~At(r, s)
  PROVE  /\ Cardinality(AtStep(s)') = Cardinality(AtStep(s)) + 1
         /\ Cardinality(AtStep(s)) < Cardinality(Requests)
<1>1. AtStep(s)' = AtStep(s) \cup {r} /\ r \notin AtStep(s)
  BY StepsMove DEF AtStep
<1>2. AtStep(s)' \in SUBSET Requests
  BY DEF AtStep
<1>3. Cardinality(AtStep(s)') <= Cardinality(Requests)
  BY <1>2, FiniteFlight, FS_Subset
<1>4. IsFiniteSet(AtStep(s)) /\ Cardinality(AtStep(s)) \in Nat
  BY AtStepCounted
<1>5. Cardinality(AtStep(s) \cup {r}) = Cardinality(AtStep(s)) + 1
  BY <1>1, <1>4, FS_AddElement
<1> QED BY <1>1, <1>3, <1>4, <1>5, AtStepCounted

LEMMA LeavesStep ==
  ASSUME TypeOK, NEW r \in Requests, NEW s, NEW q, NEW T, At(r, q), q # s, Goes(r, s, T)
  PROVE  Cardinality(AtStep(q)') = Cardinality(AtStep(q)) - 1
<1>1. AtStep(q)' = AtStep(q) \ {r} /\ r \in AtStep(q)
  BY StepsMove DEF AtStep
<1> QED BY <1>1, AtStepCounted, FS_RemoveElement

LEMMA CodesCounted ==
  /\ IsFiniteSet(Codes) /\ Cardinality(Codes) \in Nat
  /\ \A S \in SUBSET Codes : Cardinality(S) \in Nat /\ Cardinality(S) <= Cardinality(Codes)
<1>1. Codes \in SUBSET Tokens
  BY DEF Codes
<1> QED BY <1>1, TokenNumbers, FS_Subset, FS_CardinalityType

\* Beside a send, a resend and the storing of what they send, no step adds to
\* the codes or to the requests that will.
LEMMA NoCodeComes ==
  ASSUME CodesInv, Next,
         ~ \E r \in Requests : \/ SendDelete(r) \/ ResendDelete(r)
                               \/ \E t \in Tokens : CreateCode(r, t)
  PROVE  Codes' \subseteq Codes /\ AtStep("creating")' \subseteq AtStep("creating")
<1> DEFINE Fewer == Codes' \subseteq Codes /\ AtStep("creating")' \subseteq AtStep("creating")
<1> USE DEF CodesInv, TypeOK, Codes, AtStep, At, Goes, Ends
<1>1. ASSUME NEW t \in Tokens, Age(t) \/ UpdateChannel(t) PROVE Fewer
  BY <1>1 DEF Age, UpdateChannel
<1>2. ASSUME NEW t \in Tokens, NEW k \in Kinds \ {"code"}, Generate(t, k), UNCHANGED req PROVE Fewer
  BY <1>2 DEF Generate
<1>3. ASSUME NEW r \in Requests, NEW t \in Tokens, ChannelNonce(r, t) PROVE Fewer
  BY <1>3 DEF ChannelNonce, Generate
<1>4. ASSUME NEW r \in Requests, NEW t \in Tokens,
             VerifyMessageLookup(r, t) \/ GetPendingAuthLookup(r, t) \/ ResendLookup(r, t)
             \/ MatchCode(r, t, "confirming") \/ MatchCode(r, t, "signing")
      PROVE Fewer
  BY <1>4 DEF VerifyMessageLookup, GetPendingAuthLookup, ResendLookup, MatchCode
<1>5. ASSUME NEW r \in Requests, NEW t \in Tokens, VerifyChallenge(r, t) PROVE Fewer
  BY <1>5 DEF VerifyChallenge
<1>6. ASSUME NEW r \in Requests, CreateChannel(r) \/ MissCode(r) \/ CountMiss(r) PROVE Fewer
  BY <1>6 DEF CreateChannel, MissCode, CountMiss
<1>7. ASSUME NEW r \in Requests, VerifyMessageMark(r) PROVE Fewer
  <2>1. PICK t \in Tokens : req[r].token = {t}
    BY <1>7 DEF VerifyMessageMark, TokensHeld, Holds
  <2>2. \A u \in Tokens : row'[u] = "live" => row[u] = "live"
    BY <1>7, <2>1 DEF VerifyMessageMark
  <2>3. Goes(r, "idle", NoToken) /\ UNCHANGED kind
    BY <1>7 DEF VerifyMessageMark
  <2> QED BY <2>2, <2>3
<1>8. ASSUME NEW r \in Requests, GetPendingAuthDelete(r) PROVE Fewer
  <2>1. PICK t \in Tokens : req[r].token = {t}
    BY <1>8 DEF GetPendingAuthDelete, TokensHeld, Holds
  <2>2. \A u \in Tokens : row'[u] = "live" => row[u] = "live"
    BY <1>8, <2>1 DEF GetPendingAuthDelete
  <2>3. Goes(r, "idle", NoToken) /\ UNCHANGED kind
    BY <1>8 DEF GetPendingAuthDelete
  <2> QED BY <2>2, <2>3
<1>9. ASSUME NEW r \in Requests, ConfirmCode(r) \/ ClearCodes(r) \/ SignInWithCode(r) PROVE Fewer
  <2>1. \A t \in Tokens : row'[t] = "live" => row[t] = "live"
    <3>1. CASE ConfirmCode(r)
      BY <3>1 DEF ConfirmCode, Deleted
    <3>2. CASE ClearCodes(r) \/ SignInWithCode(r)
      BY <3>2 DEF ClearCodes, SignInWithCode, Deleted
    <3> QED BY <1>9, <3>1, <3>2
  <2>2. PICK s \in {"idle", "clearing"} : Goes(r, s, NoToken)
    BY <1>9 DEF ConfirmCode, ClearCodes, SignInWithCode
  <2>3. UNCHANGED kind
    BY <1>9 DEF ConfirmCode, ClearCodes, SignInWithCode
  <2> QED BY <2>1, <2>2, <2>3
<1>10. CASE CleanupExpiredNonces \/ CleanupExpiredChallenges \/ Restart
  BY <1>10 DEF CleanupExpiredNonces, CleanupExpiredChallenges, Restart, Deleted, Idle
<1> HIDE DEF Fewer
<1> QED BY <1>1, <1>2, <1>3, <1>4, <1>5, <1>6, <1>7, <1>8, <1>9, <1>10
        DEF Next, Kinds, Challenges, GenerateNonce, StorePendingAuth, GenerateChallenge,
            GenerateRegistrationOptions, GenerateRegistrationOptionsForNewUser,
            GenerateAuthenticationOptions, Fewer

\* An address never has more codes, those about to be stored included, than
\* there may be requests in flight: the limit on codes is out of reach.
THEOREM CodesAreBounded == Spec => []CodesBounded
<1> DEFINE N == Cardinality(Requests)
           Bounded == Cardinality(Codes) + Cardinality(AtStep("creating")) <= N
<1>1. Bounded <=> CodesBounded
  BY DEF CodesBounded, AtStep
<1>2. Init => Bounded
  <2> SUFFICES ASSUME Init PROVE Bounded
    OBVIOUS
  <2>1. Codes = {} /\ AtStep("creating") = {}
    BY DEF Init, Codes, AtStep, At, Idle
  <2> QED BY <2>1, AtStepCounted, FS_EmptySet
<1>3. CodesInv /\ Bounded /\ Next => Bounded'
  <2> SUFFICES ASSUME CodesInv, Bounded, Next PROVE Bounded'
    OBVIOUS
  <2>t. TypeOK /\ TokensHeld
    BY DEF CodesInv
  <2>1. ASSUME NEW r \in Requests, SendDelete(r) PROVE Bounded'
    <3>1. Codes' = {}
      BY <2>1, <2>t DEF SendDelete, Deleted, Codes, TypeOK
    <3>2. Cardinality(AtStep("creating")') <= N
      BY <2>1, <2>t, JoinsStep, AtStepCounted DEF SendDelete, At
    <3> QED BY <3>1, <3>2, <2>1, <2>t, JoinsStep, AtStepCounted, FS_EmptySet DEF SendDelete, At
  <2>2. ASSUME NEW r \in Requests, ResendDelete(r) PROVE Bounded'
    <3>1. PICK t \in Tokens : req[r].token = {t} /\ kind[t] = "code"
      BY <2>2, <2>t DEF ResendDelete, TokensHeld, Holds, At
    <3>2. CASE t \in Codes
      <4>1. Codes' = Codes \ {t}
        BY <2>2, <2>t, <3>1, <3>2 DEF ResendDelete, Deleted, Codes, TypeOK
      <4>2. Cardinality(Codes') = Cardinality(Codes) - 1
        BY <4>1, <3>2, CodesCounted, FS_RemoveElement
      <4>3. Cardinality(AtStep("creating")') = Cardinality(AtStep("creating")) + 1
        BY <2>2, <2>t, <3>1, <3>2, JoinsStep DEF ResendDelete, At
      <4> QED BY <4>2, <4>3, CodesCounted, AtStepCounted
    <3>3. CASE t \notin Codes
      <4>1. UNCHANGED <<row, kind>> /\ Goes(r, "idle", NoToken) /\ ~At(r, "creating")
        BY <2>2, <3>1, <3>3 DEF ResendDelete, Ends, At
      <4>2. AtStep("creating")' = AtStep("creating") /\ Codes' = Codes
        BY <4>1, <2>t, StepsMove DEF AtStep, Codes
      <4> QED BY <4>2
    <3> QED BY <3>2, <3>3
  <2>3. ASSUME NEW r \in Requests, NEW t \in Tokens, CreateCode(r, t) PROVE Bounded'
    <3>1. Codes' = Codes \cup {t} /\ t \notin Codes
      BY <2>3, <2>t DEF CreateCode, Generate, Codes, TypeOK
    <3>2. Cardinality(Codes') = Cardinality(Codes) + 1
      <4>1. IsFiniteSet(Codes) /\ Cardinality(Codes) \in Nat
        BY CodesCounted
      <4> QED BY <3>1, <4>1, FS_AddElement
    <3>3. Cardinality(AtStep("creating")') = Cardinality(AtStep("creating")) - 1
      BY <2>3, <2>t, LeavesStep DEF CreateCode, Ends
    <3> QED BY <3>2, <3>3, CodesCounted, AtStepCounted
  <2>4. CASE Codes' \subseteq Codes /\ AtStep("creating")' \subseteq AtStep("creating")
    BY <2>4, CodesCounted, AtStepCounted, FS_Subset, FS_CardinalityType
  <2> HIDE DEF Bounded
  <2> QED BY <2>1, <2>2, <2>3, <2>4, NoCodeComes
<1>4. Bounded /\ UNCHANGED vars => Bounded'
  BY DEF vars, Codes, AtStep, At
<1> HIDE DEF Bounded
<1> QED BY <1>1, <1>2, <1>3, <1>4, CodesInvariance, PTL DEF Spec

\* Guesses are counted against a code as long as it is compared with any, late
\* by those of the requests that have yet to count, and of those that a restart
\* kept from it.
GuessInv ==
  /\ GuessesBounded
  /\ \A t \in Guessable :
       guesses[t] <= attempts[t] + Cardinality(AtStep("counting")) + restarts * Cardinality(Requests)

\* What a step may do to guesses when it is not a wrong guess, its counting or
\* a restart.
NoGuess ==
  /\ UNCHANGED <<guesses, attempts, restarts>>
  /\ \A t \in Tokens : t \in Guessable' => t \in Guessable \/ guesses[t] = 0
  /\ AtStep("counting")' = AtStep("counting")

LEMMA NoGuessMade ==
  ASSUME CodesInv, Next, ~Restart, ~ \E r \in Requests : MissCode(r) \/ CountMiss(r)
  PROVE  NoGuess
<1> USE DEF CodesInv, TypeOK, Untouched, NoGuess, Guessable, Unexpired, AtStep, At, Goes, Ends
<1>1. ASSUME NEW t \in Tokens, Age(t) \/ UpdateChannel(t) PROVE NoGuess
  BY <1>1 DEF Age, UpdateChannel
<1>2. ASSUME NEW t \in Tokens, NEW k \in Kinds, Generate(t, k),
             UNCHANGED <<age, attempts, channel, req, restarts, guesses, uses, verified>>
      PROVE NoGuess
  BY <1>2 DEF Generate
<1>3. ASSUME NEW r \in Requests, NEW t \in Tokens, ChannelNonce(r, t) \/ CreateCode(r, t) PROVE NoGuess
  BY <1>3 DEF ChannelNonce, CreateCode, Generate
<1>4. ASSUME NEW r \in Requests, NEW t \in Tokens,
             VerifyMessageLookup(r, t) \/ GetPendingAuthLookup(r, t) \/ ResendLookup(r, t)
             \/ MatchCode(r, t, "confirming") \/ MatchCode(r, t, "signing")
      PROVE NoGuess
  BY <1>4 DEF VerifyMessageLookup, GetPendingAuthLookup, ResendLookup, MatchCode
<1>5. ASSUME NEW r \in Requests, NEW t \in Tokens, VerifyChallenge(r, t) PROVE NoGuess
  BY <1>5 DEF VerifyChallenge
<1>6. ASSUME NEW r \in Requests, CreateChannel(r) PROVE NoGuess
  BY <1>6 DEF CreateChannel
<1>7. ASSUME NEW r \in Requests, VerifyMessageMark(r) PROVE NoGuess
  <2>1. PICK t \in Tokens : req[r].token = {t}
    BY <1>7 DEF VerifyMessageMark, TokensHeld, Holds
  <2>2. \A u \in Tokens : row'[u] = "live" => row[u] = "live"
    BY <1>7, <2>1 DEF VerifyMessageMark
  <2>3. Goes(r, "idle", NoToken) /\ req[r].step \in {"marking", "taking"}
        /\ UNCHANGED <<kind, age, attempts, guesses, restarts>>
    BY <1>7 DEF VerifyMessageMark
  <2> QED BY <2>2, <2>3
<1>8. ASSUME NEW r \in Requests, GetPendingAuthDelete(r) PROVE NoGuess
  <2>1. PICK t \in Tokens : req[r].token = {t}
    BY <1>8 DEF GetPendingAuthDelete, TokensHeld, Holds
  <2>2. \A u \in Tokens : row'[u] = "live" => row[u] = "live"
    BY <1>8, <2>1 DEF GetPendingAuthDelete
  <2>3. Goes(r, "idle", NoToken) /\ req[r].step \in {"marking", "taking"}
        /\ UNCHANGED <<kind, age, attempts, guesses, restarts>>
    BY <1>8 DEF GetPendingAuthDelete
  <2> QED BY <2>2, <2>3
<1>9. ASSUME NEW r \in Requests, SendDelete(r) PROVE NoGuess
  BY <1>9 DEF SendDelete, Deleted
<1>10. ASSUME NEW r \in Requests, ResendDelete(r) PROVE NoGuess
  BY <1>10 DEF ResendDelete, Deleted
<1>11. ASSUME NEW r \in Requests, ConfirmCode(r) PROVE NoGuess
  BY <1>11 DEF ConfirmCode, Deleted
<1>12. ASSUME NEW r \in Requests, ClearCodes(r) \/ SignInWithCode(r) PROVE NoGuess
  BY <1>12 DEF ClearCodes, SignInWithCode, Deleted
<1>13. CASE CleanupExpiredNonces \/ CleanupExpiredChallenges
  BY <1>13 DEF CleanupExpiredNonces, CleanupExpiredChallenges, Deleted
<1> HIDE DEF NoGuess
<1> QED BY <1>1, <1>2, <1>3, <1>4, <1>5, <1>6, <1>7, <1>8, <1>9, <1>10, <1>11, <1>12, <1>13
        DEF Next, Kinds, Challenges, GenerateNonce, StorePendingAuth, GenerateChallenge,
            GenerateRegistrationOptions, GenerateRegistrationOptionsForNewUser,
            GenerateAuthenticationOptions

LEMMA OneMore ==
  \A m, n \in Nat : m * n \in Nat /\ (m + 1) * n = m * n + n
OBVIOUS

LEMMA GuessStep == CodesInv /\ GuessInv /\ Next => GuessInv'
<1> DEFINE N == Cardinality(Requests)
           C == Cardinality(AtStep("counting"))
<1> SUFFICES ASSUME CodesInv, GuessInv, Next PROVE GuessInv'
  OBVIOUS
<1>t. TypeOK
  BY DEF CodesInv
<1>n. /\ N \in Nat /\ C \in Nat /\ C <= N /\ restarts \in Nat /\ MaxAttempts \in Nat \ {0}
      /\ restarts * N \in Nat /\ (restarts + 1) * N = restarts * N + N
      /\ \A t \in Tokens : guesses[t] \in Nat /\ attempts[t] \in 0..MaxAttempts
  <2>1. N \in Nat /\ C \in Nat /\ C <= N
    BY AtStepCounted
  <2>2. restarts \in Nat
    BY SomeRestarts, <1>t DEF TypeOK
  <2>3. restarts * N \in Nat /\ (restarts + 1) * N = restarts * N + N
    BY <2>1, <2>2, OneMore
  <2> QED BY <2>1, <2>2, <2>3, SomeAttempts, <1>t DEF TypeOK
<1>g. /\ \A t \in Tokens : guesses[t] < MaxAttempts + (restarts * N + N)
      /\ \A t \in Guessable : guesses[t] <= attempts[t] + C + restarts * N
  BY <1>n DEF GuessInv, GuessesBounded
<1>1. ASSUME NEW r \in Requests, MissCode(r) PROVE GuessInv'
  <2>1. /\ At(r, "idle") /\ Goes(r, "counting", NoToken)
        /\ guesses' = [t \in Tokens |-> IF t \in Guessable THEN guesses[t] + 1 ELSE guesses[t]]
        /\ UNCHANGED <<kind, row, age, attempts, restarts>>
    BY <1>1 DEF MissCode
  <2>2. C' = C + 1 /\ C < N
    BY <2>1, <1>t, JoinsStep DEF At
  <2>3. Guessable' = Guessable
    BY <2>1 DEF Guessable, Unexpired
  <2>4. \A t \in Guessable : t \in Tokens /\ attempts[t] < MaxAttempts
    BY DEF Guessable, Unexpired
  <2>5. \A t \in Tokens : guesses'[t] < MaxAttempts + (restarts * N + N)
    BY <2>1, <2>2, <2>4, <1>n, <1>g
  <2>6. \A t \in Guessable : guesses'[t] <= attempts[t] + C' + restarts * N
    BY <2>1, <2>2, <2>4, <1>n, <1>g
  <2> QED BY <2>1, <2>3, <2>5, <2>6, <1>n DEF GuessInv, GuessesBounded
<1>2. ASSUME NEW r \in Requests, CountMiss(r) PROVE GuessInv'
  <2>1. /\ At(r, "counting") /\ Goes(r, "idle", NoToken)
        /\ attempts' = [t \in Tokens |-> IF t \in Guessable THEN attempts[t] + 1 ELSE attempts[t]]
        /\ UNCHANGED <<kind, row, age, guesses, restarts>>
    BY <1>2 DEF CountMiss, Ends, Guessable
  <2>2. C' = C - 1
    BY <2>1, <1>t, LeavesStep
  <2>3. \A t \in Guessable' : t \in Guessable /\ t \in Tokens
    BY <2>1, <1>n DEF Guessable, Unexpired
  <2>4. \A t \in Guessable' : guesses[t] <= attempts'[t] + C' + restarts * N
    BY <2>1, <2>2, <2>3, <1>n, <1>g
  <2> QED BY <2>1, <2>4, <1>n, <1>g DEF GuessInv, GuessesBounded
<1>3. CASE Restart
  <2>1. restarts' = restarts + 1 /\ UNCHANGED <<kind, age, attempts, guesses>>
    BY <1>3 DEF Restart
  <2>2. \A t \in Guessable' : t \in Guessable /\ t \in Tokens
    BY <1>3, <1>t DEF Restart, Deleted, Guessable, Unexpired, TypeOK
  <2>3. AtStep("counting")' = {}
    BY <1>3 DEF Restart, AtStep, At, Idle
  <2>4. C' = 0
    BY <2>3, FS_EmptySet
  <2>5. restarts' * N = restarts * N + N /\ (restarts' + 1) * N = restarts * N + N + N
    BY <2>1, <1>n
  <2>6. \A t \in Guessable' : guesses[t] <= attempts[t] + C' + restarts' * N
    BY <2>2, <2>4, <2>5, <1>n, <1>g
  <2>7. \A t \in Tokens : guesses[t] < MaxAttempts + (restarts' + 1) * N
    BY <2>5, <1>n, <1>g
  <2> QED BY <2>1, <2>6, <2>7 DEF GuessInv, GuessesBounded
<1>4. CASE NoGuess
  <2>1. \A t \in Tokens : t \in Guessable' => guesses[t] <= attempts[t] + C + restarts * N
    BY <1>4, <1>n, <1>g DEF NoGuess
  <2>2. \A t \in Guessable' : t \in Tokens
    BY DEF Guessable, Unexpired
  <2> QED BY <1>4, <2>1, <2>2 DEF GuessInv, GuessesBounded, NoGuess
<1> QED BY <1>1, <1>2, <1>3, <1>4, NoGuessMade

\* No code is compared with more wrong guesses than are allowed, but for those
\* of the requests in flight, once more with every restart.
THEOREM GuessesAreBounded == Spec => []GuessesBounded
<1>1. Init => GuessInv
  <2> SUFFICES ASSUME Init PROVE GuessInv
    OBVIOUS
  <2>1. guesses = [t \in Tokens |-> 0] /\ restarts = 0 /\ Guessable = {}
    BY DEF Init, Guessable, Unexpired
  <2> QED BY <2>1, AtStepCounted, SomeAttempts DEF GuessInv, GuessesBounded
<1>2. GuessInv /\ UNCHANGED vars => GuessInv'
  BY DEF vars, GuessInv, GuessesBounded, Guessable, Unexpired, AtStep, At
<1>3. GuessInv => GuessesBounded
  BY DEF GuessInv
<1> QED BY <1>1, <1>2, <1>3, GuessStep, CodesInvariance, PTL DEF Spec
=============================================================================
