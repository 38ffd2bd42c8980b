--------------------------- MODULE AccountFactors ---------------------------
(***************************************************************************)
(* Two-factor authentication and the passkey of one passkey account (the   *)
(* accounts share nothing here, and an account of another kind is one that *)
(* never takes the passkey actions).  Both live in the account's metadata, *)
(* one JSON column that every handler reads, changes in memory and writes  *)
(* back whole: update2FAMetadata replaces the twoFactor part of a copy     *)
(* read after the decision, a passkey sign-in the counter of the copy the  *)
(* decision was made on.                                                   *)
(***************************************************************************)
EXTENDS Naturals, FiniteSets

CONSTANTS
    Requests,     \* requests that may be in flight together
    BatchSize,    \* backup codes generated at a time (10 in the code)
    MaxBatches,   \* bound: secrets and batches of codes generated
    MaxAsserts    \* bound: assertions the authenticator makes

ASSUME FactorBounds == BatchSize \in Nat /\ MaxBatches \in Nat /\ MaxAsserts \in Nat

VARIABLES
    metadata,   \* the account's metadata: twoFactor and the passkey's counter
    batches,    \* secrets and batches of codes generated so far
    asserts,    \* the authenticator's own counter
    identifier, \* how the passkey's credential id is stored, "" before it is registered
    req,        \* of a request: its next step and what it holds in memory
    proven,     \* history: secrets a valid TOTP code was presented for
    renewed,    \* history: batches of codes generated while 2FA was on
    spent       \* history: backup codes a request was answered yes for

vars == <<metadata, batches, asserts, identifier, req, proven, renewed, spent>>

NoSecret == 0
Batch(n) == {<<n, i>> : i \in 1..BatchSize}
Codes == (1..MaxBatches) \X (1..BatchSize)
\* A token is the TOTP code <<n, 0>> of the secret n or a backup code.  (The key
\* routes validate a length of six, and a backup code rarely has less than
\* eight characters: the service takes both.)
NoToken == <<NoSecret, 1>>
Tokens == ((1..MaxBatches) \X (0..BatchSize)) \union {NoToken}
Off == [enabled |-> FALSE, secret |-> NoSecret, codes |-> {}]
TwoFactorMetadata ==
    [enabled : BOOLEAN, secret : 0..MaxBatches, codes : SUBSET Codes]
Metadata == [twoFactor : TwoFactorMetadata, counter : 0..MaxAsserts]
NoMetadata == [twoFactor |-> Off, counter |-> 0]

\* step: "updating" before update2FAMetadata's read, "storing" before a write,
\* "gated" between the two reads of requireTwoFactor.  new: the metadata to be
\* written.  token: the token presented.  through: the answer is yes.  off and
\* took: whether, at some time between the request's first read and its last,
\* 2FA was off, and whether what was stored took the token.
Request == [step : {"idle", "updating", "storing", "gated"}, new : Metadata, token : Tokens,
            off : BOOLEAN, took : BOOLEAN, through : BOOLEAN]
IdleRequest == [step |-> "idle", new |-> NoMetadata, token |-> NoToken,
                off |-> FALSE, took |-> FALSE, through |-> FALSE]

FactorsTypeOK ==
    /\ metadata \in Metadata
    /\ batches \in 0..MaxBatches
    /\ asserts \in 0..MaxAsserts
    /\ identifier \in {"", "id", "encoded"}
    /\ req \in [Requests -> Request]
    /\ proven \subseteq 1..MaxBatches /\ renewed \subseteq 1..MaxBatches
    /\ spent \subseteq Codes
    /\ metadata.twoFactor.enabled => metadata.twoFactor.secret # NoSecret
    /\ \A r \in Requests : req[r].new.twoFactor.enabled => req[r].new.twoFactor.secret # NoSecret

Init ==
    /\ metadata = NoMetadata
    /\ batches = 0
    /\ asserts = 0
    /\ identifier = ""
    /\ req = [r \in Requests |-> IdleRequest]
    /\ proven = {} /\ renewed = {} /\ spent = {}

\* A new request of the account, or a sign-in to it.
Idle(r) == req[r].step = "idle" /\ identifier = "id"
Current == metadata.twoFactor

\* A handler decides to replace the twoFactor part by t.
Updates(r, t) ==
    req' = [req EXCEPT ![r] = [IdleRequest EXCEPT !.step = "updating", !.new.twoFactor = t]]

-----------------------------------------------------------------------------
\* A secret and codes are generated and stored, not enabled yet.
SetupTwoFactor(r) ==
    /\ Idle(r) /\ ~Current.enabled /\ batches < MaxBatches
    /\ batches' = batches + 1
    /\ Updates(r, [enabled |-> FALSE, secret |-> batches + 1, codes |-> Batch(batches + 1)])
    /\ UNCHANGED <<metadata, asserts, identifier, proven, renewed, spent>>

\* The secret that was read is the one the code is checked with and the one
\* that is enabled.
VerifyAndEnableTwoFactor(r) ==
    /\ Idle(r) /\ ~Current.enabled /\ Current.secret # NoSecret
    /\ proven' = proven \union {Current.secret}
    /\ Updates(r, [Current EXCEPT !.enabled = TRUE])
    /\ UNCHANGED <<metadata, batches, asserts, identifier, renewed, spent>>

DisableTwoFactor(r) ==
    /\ Idle(r) /\ Current.enabled
    /\ Updates(r, Off)
    /\ UNCHANGED <<metadata, batches, asserts, identifier, proven, renewed, spent>>

GenerateBackupCodes(r) ==
    /\ Idle(r) /\ Current.enabled /\ batches < MaxBatches
    /\ batches' = batches + 1
    /\ renewed' = renewed \union {batches + 1}
    /\ Updates(r, [Current EXCEPT !.codes = Batch(batches + 1)])
    /\ UNCHANGED <<metadata, asserts, identifier, proven, spent>>

\* A mutation: what turns 2FA on, or changes its codes, is merged into the
\* second copy, which may hold a newer secret.
UpdateReadMerges(r) ==
    /\ req[r].step = "updating"
    /\ req' = [req EXCEPT ![r].step = "storing", ![r].new =
                  [metadata EXCEPT !.twoFactor =
                      IF req[r].new.twoFactor.enabled
                      THEN [req[r].new.twoFactor EXCEPT !.secret = Current.secret]
                      ELSE req[r].new.twoFactor]]
    /\ UNCHANGED <<metadata, batches, asserts, identifier, proven, renewed, spent>>

\* A mutation: enabling keeps the codes of the second copy.
UpdateReadKeepsCodes(r) ==
    /\ req[r].step = "updating"
    /\ req' = [req EXCEPT ![r].step = "storing", ![r].new =
                  [metadata EXCEPT !.twoFactor =
                      IF req[r].new.twoFactor.enabled /\ ~Current.enabled
                      THEN [req[r].new.twoFactor EXCEPT !.codes = Current.codes]
                      ELSE req[r].new.twoFactor]]
    /\ UNCHANGED <<metadata, batches, asserts, identifier, proven, renewed, spent>>

\* update2FAMetadata reads the metadata again ...
UpdateRead(r) ==
    /\ req[r].step = "updating"
    /\ req' = [req EXCEPT ![r].step = "storing", ![r].new.counter = metadata.counter]
    /\ UNCHANGED <<metadata, batches, asserts, identifier, proven, renewed, spent>>

\* The token is the TOTP code of the secret of t, or one of its backup codes.
Takes(t, token) == token = <<t.secret, 0>> \/ token \in t.codes

\* Requests at the gate remember what was stored in between.
Remember(t) ==
    [r \in Requests |->
        IF req[r].step = "gated"
        THEN [req[r] EXCEPT !.off = @ \/ ~t.enabled, !.took = @ \/ Takes(t, req[r].token)]
        ELSE req[r]]

\* ... and writes it back, as the passkey sign-in does.  A request that used
\* up a backup code is answered now.
Store(r) ==
    /\ req[r].step = "storing"
    /\ metadata' = req[r].new
    /\ req' = [Remember(req[r].new.twoFactor) EXCEPT ![r] =
                  [req[r] EXCEPT !.step = "idle", !.new = NoMetadata,
                                 !.through = req[r].token # NoToken]]
    /\ spent' = spent \union ({req[r].token} \intersect Codes)
    /\ UNCHANGED <<batches, asserts, identifier, proven, renewed>>

\* A query fails or the program stops: the request ends there.
RequestFails(r) ==
    /\ req[r].step # "idle"
    /\ req' = [req EXCEPT ![r] = IdleRequest]
    /\ UNCHANGED <<metadata, batches, asserts, identifier, proven, renewed, spent>>

-----------------------------------------------------------------------------
\* A request with a token that begins now.
Asks(token) ==
    [IdleRequest EXCEPT !.token = token, !.off = ~Current.enabled, !.took = Takes(Current, token)]

\* verifyToken's read, for the request q: 2FA is off, or the TOTP code is that
\* of the secret read, or a backup code is removed from the list read before
\* the answer.
Verifies(r, q) ==
    req' = [req EXCEPT ![r] =
        IF ~Current.enabled \/ q.token = <<Current.secret, 0>>
        THEN [q EXCEPT !.step = "idle", !.through = TRUE]
        ELSE IF q.token \in Current.codes
        THEN [q EXCEPT !.step = "updating",
                       !.new.twoFactor = [Current EXCEPT !.codes = @ \ {q.token}]]
        ELSE IdleRequest]

\* The route that only verifies a token.
VerifyRoute(r) ==
    /\ Idle(r)
    /\ \E token \in Tokens : Verifies(r, Asks(token))
    /\ UNCHANGED <<metadata, batches, asserts, identifier, proven, renewed, spent>>

\* requireTwoFactor, before a key is backed up, exported or rotated: isEnabled
\* first ...
RequireTwoFactor(r) ==
    /\ Idle(r)
    /\ \E token \in Tokens :
        req' = [req EXCEPT ![r] =
            IF Current.enabled THEN [Asks(token) EXCEPT !.step = "gated"]
            ELSE [Asks(token) EXCEPT !.through = TRUE]]
    /\ UNCHANGED <<metadata, batches, asserts, identifier, proven, renewed, spent>>

\* ... and verifyToken on a second read.
VerifyToken(r) ==
    /\ req[r].step = "gated"
    /\ Verifies(r, req[r])
    /\ UNCHANGED <<metadata, batches, asserts, identifier, proven, renewed, spent>>

-----------------------------------------------------------------------------
\* The registration of a passkey with an account encodes the credential id,
\* which the library hands out encoded, once more ...
VerifyRegistration ==
    /\ identifier = ""
    /\ identifier' = "encoded"
    /\ UNCHANGED <<metadata, batches, asserts, req, proven, renewed, spent>>

\* ... and the registration of a new user stores it as it is.
RegisterNewUserWithPasskey ==
    /\ identifier = ""
    /\ identifier' = "id"
    /\ UNCHANGED <<metadata, batches, asserts, req, proven, renewed, spent>>

\* A sign-in finds the account by the id the authenticator sends and verifies
\* an assertion, whose counter exceeds the one stored.  Challenges: see
\* OneTimeCodes.
VerifyAuthentication(r) ==
    /\ Idle(r) /\ asserts < MaxAsserts
    /\ asserts' = asserts + 1
    /\ IF asserts + 1 > metadata.counter
       THEN req' = [req EXCEPT ![r] = [IdleRequest EXCEPT !.step = "storing",
                        !.new = [metadata EXCEPT !.counter = asserts + 1]]]
       ELSE UNCHANGED req
    /\ UNCHANGED <<metadata, batches, identifier, proven, renewed, spent>>

Next ==
    \/ \E r \in Requests :
        \/ SetupTwoFactor(r) \/ VerifyAndEnableTwoFactor(r) \/ DisableTwoFactor(r)
        \/ GenerateBackupCodes(r) \/ UpdateRead(r) \/ Store(r) \/ RequestFails(r)
        \/ VerifyRoute(r) \/ RequireTwoFactor(r) \/ VerifyToken(r) \/ VerifyAuthentication(r)
    \/ VerifyRegistration \/ RegisterNewUserWithPasskey

Spec == Init /\ [][Next]_vars

-----------------------------------------------------------------------------
\* 2FA that is on uses a secret the user has shown to have in an authenticator
\* (or the user is locked out): a setup that runs while the previous one is
\* being verified does not slip another secret in
\* (twoFactorService.verifyAndEnableTwoFactor).
EnabledWasProven ==
    metadata.twoFactor.enabled => metadata.twoFactor.secret \in proven

\* What a setup hands out counts only once its secret was proven, and codes
\* generated later once 2FA was on.
Rightful(token) ==
    IF token \in Codes THEN token[1] \in proven \union renewed ELSE token[1] \in proven

\* A yes to a key operation, whatever setups, renewals, other tokens and
\* passkey sign-ins write the metadata back meanwhile: 2FA was off at some time
\* between the gate's two reads, or the token is one the account took at some
\* time between them and belongs to a secret the user has proven, or to codes
\* renewed under one; the codes and the secret of a setup nobody confirmed
\* open nothing (twoFactorService.requireTwoFactor, verifyToken).
GateNeedsProof ==
    \A r \in Requests :
        req[r].through => req[r].off \/ (req[r].took /\ Rightful(req[r].token))

\* "Backup codes are single-use and marked as used"
\* (api-sequence/9-two-factor-auth.md:200).  They are not: two requests accept
\* the same code, and a stale copy brings a used one back.
AcceptsNewCodes == \A r \in Requests : Store(r) => req[r].token \notin spent
BackupCodeUsedOnce == [][AcceptsNewCodes]_vars

\* Only the user's own request turns 2FA off.  It is not so: a passkey sign-in
\* writes the metadata back as it was before 2FA was turned on.
OffByRequest ==
    Current.enabled /\ ~Current'.enabled =>
        \E r \in Requests : Store(r) /\ req[r].new.counter = metadata.counter
StaysOn == [][OffByRequest]_vars

\* The counter of the passkey never goes back (a cloned authenticator would be
\* accepted).  It does: a 2FA update writes back the counter it read.
CounterForward == metadata'.counter >= metadata.counter
CounterNeverBack == [][CounterForward]_vars

\* A registered passkey can be found at sign-in ("We need to use the same
\* format that was stored during registration", passkeyService.ts:258).
RegisteredCanSignIn == identifier # "encoded"
=============================================================================
