------------------------------ MODULE SingleUse ------------------------------
(***************************************************************************)
(* What the backend promises of a one-time token (a SIWE nonce, an e-mail  *)
(* code, a WebAuthn challenge, a pending sign-in), apart from how each     *)
(* service stores it.  A request first claims a token, which it can do     *)
(* only while the token is valid, and then uses it.  Tokens of a strict    *)
(* kind are used once; of the others, every request that claimed one       *)
(* before its first use may still use it, and no later one.                *)
(***************************************************************************)
EXTENDS Naturals, FiniteSets

CONSTANTS Tokens, Requests

VARIABLES
    status,  \* of a token: "unissued", "valid", "stale" or "spent"
    strict,  \* the issued tokens that are used at most once
    claim,   \* the set of tokens a request has claimed: none or one
    uses     \* how many requests have used a token

vars == <<status, strict, claim, uses>>

Init ==
    /\ status = [t \in Tokens |-> "unissued"]
    /\ strict = {}
    /\ claim = [r \in Requests |-> {}]
    /\ uses = [t \in Tokens |-> 0]

Issue(t) ==
    /\ status[t] = "unissued"
    /\ status' = [status EXCEPT ![t] = "valid"]
    /\ strict' \in {strict, strict \union {t}}
    /\ UNCHANGED <<claim, uses>>

\* Time, or wrong guesses: a token can no longer be claimed.
GoStale(S) ==
    /\ \A t \in S : status[t] = "valid"
    /\ status' = [t \in Tokens |-> IF t \in S THEN "stale" ELSE status[t]]
    /\ UNCHANGED <<strict, claim, uses>>

\* Tokens are withdrawn unused, and requests may be given up with them.
Withdraw(S, R) ==
    /\ \A t \in S : status[t] # "unissued"
    /\ status' = [t \in Tokens |-> IF t \in S THEN "spent" ELSE status[t]]
    /\ claim' = [r \in Requests |-> IF r \in R THEN {} ELSE claim[r]]
    /\ UNCHANGED <<strict, uses>>

Claim(r, t) ==
    /\ claim[r] = {}
    /\ status[t] = "valid"
    /\ claim' = [claim EXCEPT ![r] = {t}]
    /\ UNCHANGED <<status, strict, uses>>

Drop(r) ==
    /\ claim[r] # {}
    /\ claim' = [claim EXCEPT ![r] = {}]
    /\ UNCHANGED <<status, strict, uses>>

\* A request uses the token it claimed; with it other tokens may be withdrawn.
Use(r, t, S) ==
    /\ claim[r] = {t}
    /\ t \in strict => status[t] # "spent"
    /\ \A u \in S : status[u] # "unissued"
    /\ status' = [u \in Tokens |-> IF u \in S \union {t} THEN "spent" ELSE status[u]]
    /\ claim' = [claim EXCEPT ![r] = {}]
    /\ uses' = [uses EXCEPT ![t] = @ + 1]
    /\ UNCHANGED strict

\* A request that claims and uses a token without letting anything in between.
UseAtOnce(r, t) ==
    /\ claim[r] = {}
    /\ status[t] = "valid"
    /\ status' = [status EXCEPT ![t] = "spent"]
    /\ uses' = [uses EXCEPT ![t] = @ + 1]
    /\ UNCHANGED <<strict, claim>>

Next ==
    \/ \E t \in Tokens : Issue(t)
    \/ \E S \in SUBSET Tokens : GoStale(S)
    \/ \E S \in SUBSET Tokens, R \in SUBSET Requests : Withdraw(S, R)
    \/ \E r \in Requests : Drop(r)
    \/ \E r \in Requests, t \in Tokens : Claim(r, t) \/ UseAtOnce(r, t)
    \/ \E r \in Requests, t \in Tokens, S \in SUBSET Tokens : Use(r, t, S)

Spec == Init /\ [][Next]_vars

Claims(t) == {r \in Requests : claim[r] = {t}}

\* However its steps interleave, a token of a strict kind is used at most
\* once (an answered pending sign-in, a WebAuthn challenge).
StrictUsedOnce == \A t \in strict : uses[t] <= 1

\* A token is used by no more requests than were in flight together, the ones
\* that hold a claim on it included: the first use ends all claiming.
UsesBounded == \A t \in Tokens : uses[t] + Cardinality(Claims(t)) <= Cardinality(Requests)
=============================================================================
