----------------------- MODULE AccountFactorsProofs ------------------------
(***************************************************************************)
(* Theorems about two-factor authentication and the passkey's counter, for *)
(* any number of requests that change the metadata over each other, any    *)
(* number of generated secrets and codes and of assertions.  The invariant *)
(* speaks of the metadata in the database and of every copy of it a        *)
(* request still holds: a stale copy may undo much, but what it turns on   *)
(* was proven once.                                                        *)
(***************************************************************************)
EXTENDS AccountFactors, TLAPS

\* A twoFactor part is on only with a secret that was proven; its codes are
\* those of the secret, or were renewed when it was on.
OnlyProven(t) ==
    /\ t.enabled => t.secret \in proven /\ \A c \in t.codes : c[1] \in proven \union renewed
    /\ ~t.enabled => \A c \in t.codes : c[1] = t.secret

\* Stored or about to be stored.
AllProven ==
    /\ OnlyProven(metadata.twoFactor)
    /\ \A r \in Requests : OnlyProven(req[r].new.twoFactor)

\* A request between the two reads of the gate knows whether 2FA is off and
\* whether the token would be taken now.
Knows(q, t) ==
    q.step = "gated" => (t.enabled \/ q.off) /\ (Takes(t, q.token) => q.took)
GateRemembers == \A r \in Requests : Knows(req[r], metadata.twoFactor)

\* An answer of yes, given or about to be given, is right.
Right(q) ==
    /\ q.through => q.off \/ (q.took /\ Rightful(q.token))
    /\ q.step \in {"updating", "storing"} /\ q.token # NoToken
           => q.off \/ (q.took /\ Rightful(q.token))
    /\ q.step = "gated" => q.new = NoMetadata /\ ~q.through
AnswersRight == \A r \in Requests : Right(req[r])

FactorsInv == FactorsTypeOK /\ AllProven /\ GateRemembers /\ AnswersRight

-----------------------------------------------------------------------------
(* The operators the actions are built from.                               *)

\* A batch of codes that was generated.
LEMMA BatchCodes ==
    ASSUME NEW n \in 1..MaxBatches
    PROVE  Batch(n) \subseteq Codes /\ \A c \in Batch(n) : c[1] = n
  BY DEF Batch, Codes

\* The parts of the metadata are records of their kinds.
LEMMA NoMetadataTyped ==
    /\ Off \in TwoFactorMetadata
    /\ NoMetadata \in Metadata
    /\ NoToken \in Tokens
    /\ IdleRequest \in Request
    /\ NoMetadata.twoFactor = Off /\ ~Off.enabled /\ OnlyProven(Off)
  <1>1. 0 \in 0..MaxBatches /\ 0 \in 0..MaxAsserts
    BY FactorBounds
  <1>2. Off \in TwoFactorMetadata
    BY <1>1 DEF Off, NoSecret, TwoFactorMetadata
  <1>3. NoMetadata \in Metadata
    BY <1>1, <1>2 DEF NoMetadata, Metadata
  <1>4. NoToken \in Tokens
    BY DEF Tokens
  <1>5. IdleRequest \in Request
    BY <1>3, <1>4 DEF IdleRequest, Request
  <1> QED
    BY <1>2, <1>3, <1>4, <1>5 DEF NoMetadata, Off, OnlyProven

\* The request Updates leaves behind carries t in its copy and no token.
LEMMA UpdatesRequest ==
    ASSUME NEW t \in TwoFactorMetadata
    PROVE  LET q == [IdleRequest EXCEPT !.step = "updating", !.new.twoFactor = t]
           IN  /\ q \in Request
               /\ q.step = "updating" /\ q.new.twoFactor = t
               /\ q.token = NoToken /\ ~q.through
  <1>1. [NoMetadata EXCEPT !.twoFactor = t] \in Metadata
    BY NoMetadataTyped DEF Metadata
  <1>2. [NoMetadata EXCEPT !.twoFactor = t].twoFactor = t
    BY NoMetadataTyped DEF Metadata
  <1> QED
    BY <1>1, <1>2, NoMetadataTyped DEF IdleRequest, Request

\* What a step has to show when it replaces the request r by q and writes no
\* metadata.
LEMMA RequestStep ==
    ASSUME FactorsInv,
           NEW r \in Requests, NEW q \in Request,
           req' = [req EXCEPT ![r] = q],
           metadata' = metadata, batches' \in 0..MaxBatches, asserts' \in 0..MaxAsserts,
           identifier' = identifier,
           proven \subseteq proven', proven' \subseteq 1..MaxBatches,
           renewed \subseteq renewed', renewed' \subseteq 1..MaxBatches,
           spent' \subseteq Codes,
           q.new.twoFactor.enabled => q.new.twoFactor.secret # NoSecret,
           OnlyProven(q.new.twoFactor)', Knows(q, metadata.twoFactor), Right(q)'
    PROVE  FactorsInv'
  <1> USE DEF FactorsInv
  <1>1. \A s \in Requests : req'[s] = IF s = r THEN q ELSE req[s]
    BY DEF FactorsTypeOK
  <1>2. FactorsTypeOK'
    <2>1. req' \in [Requests -> Request]
      BY DEF FactorsTypeOK
    <2>2. \A s \in Requests :
             req'[s].new.twoFactor.enabled => req'[s].new.twoFactor.secret # NoSecret
      BY <1>1 DEF FactorsTypeOK
    <2> QED
      BY <2>1, <2>2 DEF FactorsTypeOK
  <1>3. AllProven'
    <2>1. ASSUME NEW s \in Requests PROVE OnlyProven(req[s].new.twoFactor)'
      <3>1. CASE s = r
        BY <1>1, <3>1 DEF OnlyProven
      <3>2. CASE s # r
        <4>1. OnlyProven(req[s].new.twoFactor) /\ req'[s] = req[s]
          BY <1>1, <3>2 DEF AllProven
        <4> QED
          BY <4>1 DEF OnlyProven
      <3> QED
        BY <3>1, <3>2
    <2>2. OnlyProven(metadata.twoFactor)'
      BY DEF AllProven, OnlyProven
    <2> QED
      BY <2>1, <2>2 DEF AllProven
  <1>4. GateRemembers'
    BY <1>1 DEF GateRemembers, Knows, Takes
  <1>5. AnswersRight'
    <2>1. ASSUME NEW s \in Requests PROVE Right(req[s])'
      <3>1. CASE s = r
        BY <1>1, <3>1 DEF Right, Rightful
      <3>2. CASE s # r
        <4>1. Right(req[s]) /\ req'[s] = req[s]
          BY <1>1, <3>2 DEF AnswersRight
        <4> QED
          BY <4>1 DEF Right, Rightful
      <3> QED
        BY <3>1, <3>2
    <2> QED
      BY <2>1 DEF AnswersRight
  <1> QED
    BY <1>2, <1>3, <1>4, <1>5

\* ... and when the request decides to replace the twoFactor part by t.
LEMMA UpdatesStep ==
    ASSUME FactorsInv,
           NEW r \in Requests, NEW t \in TwoFactorMetadata,
           Updates(r, t),
           metadata' = metadata, batches' \in 0..MaxBatches, asserts' = asserts,
           identifier' = identifier,
           proven \subseteq proven', proven' \subseteq 1..MaxBatches,
           renewed \subseteq renewed', renewed' \subseteq 1..MaxBatches,
           spent' = spent,
           t.enabled => t.secret # NoSecret,
           OnlyProven(t)'
    PROVE  FactorsInv'
  <1>1. PICK q : q = [IdleRequest EXCEPT !.step = "updating", !.new.twoFactor = t]
    OBVIOUS
  <1>2. /\ q \in Request /\ q.step = "updating"
        /\ q.new.twoFactor = t /\ q.token = NoToken /\ ~q.through
    BY <1>1, UpdatesRequest
  <1>3. req' = [req EXCEPT ![r] = q]
    BY <1>1 DEF Updates
  <1>4. asserts' \in 0..MaxAsserts /\ spent' \subseteq Codes
    BY DEF FactorsInv, FactorsTypeOK
  <1>5. Knows(q, metadata.twoFactor) /\ Right(q)'
    BY <1>2 DEF Knows, Right
  <1>6. OnlyProven(q.new.twoFactor)'
    BY <1>2
  <1> QED
    BY <1>2, <1>3, <1>4, <1>5, <1>6, RequestStep

\* ... and when it ends with nothing.
LEMMA IdleStep ==
    ASSUME FactorsInv, NEW r \in Requests,
           req' = [req EXCEPT ![r] = IdleRequest],
           UNCHANGED <<metadata, batches, asserts, identifier, proven, renewed, spent>>
    PROVE  FactorsInv'
  <1>1. PICK q : q = IdleRequest
    OBVIOUS
  <1>2. q \in Request /\ q.step = "idle" /\ q.new = NoMetadata /\ ~q.through
    BY <1>1, NoMetadataTyped DEF IdleRequest
  <1>3. OnlyProven(q.new.twoFactor)' /\ ~q.new.twoFactor.enabled
    BY <1>2, NoMetadataTyped DEF Off, OnlyProven
  <1>4. Knows(q, metadata.twoFactor) /\ Right(q)'
    BY <1>2 DEF Knows, Right
  <1>5. /\ batches' \in 0..MaxBatches /\ asserts' \in 0..MaxAsserts /\ spent' \subseteq Codes
        /\ proven' \subseteq 1..MaxBatches /\ renewed' \subseteq 1..MaxBatches
    BY DEF FactorsInv, FactorsTypeOK
  <1> QED
    BY <1>1, <1>2, <1>3, <1>4, <1>5, RequestStep

\* ... and when no request and no metadata changes.
LEMMA SameRequests ==
    ASSUME FactorsInv, UNCHANGED <<metadata, batches, req, proven, renewed, spent>>,
           asserts' \in 0..MaxAsserts, identifier' \in {"", "id", "encoded"}
    PROVE  FactorsInv'
  BY DEF FactorsInv, FactorsTypeOK, AllProven, OnlyProven, GateRemembers, Knows, Takes,
         AnswersRight, Right, Rightful

-----------------------------------------------------------------------------
(* The invariant.                                                          *)

LEMMA FactorsInit == Init => FactorsInv
  <1> SUFFICES ASSUME Init PROVE FactorsInv
    OBVIOUS
  <1>1. \A r \in Requests : req[r] = IdleRequest
    BY DEF Init
  <1>2. IdleRequest.new = NoMetadata /\ IdleRequest.step = "idle" /\ ~IdleRequest.through
    BY DEF IdleRequest
  <1>3. FactorsTypeOK
    <2>1. 0 \in 0..MaxBatches /\ 0 \in 0..MaxAsserts
      BY FactorBounds
    <2>2. req \in [Requests -> Request]
      BY NoMetadataTyped DEF Init
    <2> QED
      BY <1>1, <1>2, <2>1, <2>2, NoMetadataTyped DEF Init, FactorsTypeOK
  <1>4. AllProven
    BY <1>1, <1>2, NoMetadataTyped DEF Init, AllProven
  <1>5. GateRemembers /\ AnswersRight
    BY <1>1, <1>2 DEF GateRemembers, AnswersRight, Knows, Right
  <1> QED
    BY <1>3, <1>4, <1>5 DEF FactorsInv

\* What holds of the metadata and of a request before a step of it.
LEMMA FactorsHere ==
    ASSUME FactorsInv, NEW r \in Requests
    PROVE  /\ metadata \in Metadata /\ Current \in TwoFactorMetadata
           /\ metadata.counter \in 0..MaxAsserts
           /\ OnlyProven(Current) /\ (Current.enabled => Current.secret # NoSecret)
           /\ req[r] \in Request /\ req[r].new \in Metadata
           /\ req[r].new.twoFactor.enabled => req[r].new.twoFactor.secret # NoSecret
           /\ OnlyProven(req[r].new.twoFactor)
           /\ Knows(req[r], Current) /\ Right(req[r])
           /\ batches \in 0..MaxBatches /\ asserts \in 0..MaxAsserts
           /\ proven \subseteq 1..MaxBatches /\ renewed \subseteq 1..MaxBatches
           /\ spent \subseteq Codes
  BY DEF FactorsInv, FactorsTypeOK, Metadata, Request, Current, AllProven, GateRemembers,
         AnswersRight

\* The decisions to replace the twoFactor part.
LEMMA DecisionsKeep ==
    ASSUME FactorsInv, NEW r \in Requests,
           \/ SetupTwoFactor(r) \/ VerifyAndEnableTwoFactor(r) \/ DisableTwoFactor(r)
           \/ GenerateBackupCodes(r)
    PROVE  FactorsInv'
  <1> USE FactorsHere
  <1>1. CASE SetupTwoFactor(r)
    <2>1. batches + 1 \in 1..MaxBatches
      BY <1>1, FactorBounds DEF SetupTwoFactor
    <2>2. PICK t : t = [enabled |-> FALSE, secret |-> batches + 1, codes |-> Batch(batches + 1)]
      OBVIOUS
    <2>3. t \in TwoFactorMetadata /\ ~t.enabled /\ OnlyProven(t)'
      BY <2>1, <2>2, BatchCodes DEF TwoFactorMetadata, OnlyProven
    <2>4. batches' \in 0..MaxBatches /\ Updates(r, t)
      BY <1>1, <2>1, <2>2 DEF SetupTwoFactor
    <2> QED
      BY <1>1, <2>3, <2>4, UpdatesStep DEF SetupTwoFactor
  <1>2. CASE VerifyAndEnableTwoFactor(r)
    <2>1. PICK t : t = [Current EXCEPT !.enabled = TRUE]
      OBVIOUS
    <2>2. /\ t \in TwoFactorMetadata /\ t.enabled
          /\ t.secret = Current.secret /\ t.codes = Current.codes
          /\ Current.secret \in 0..MaxBatches
      BY <2>1 DEF TwoFactorMetadata
    <2>3. Current.secret \in 1..MaxBatches /\ t.secret # NoSecret
      BY <1>2, <2>2, FactorBounds DEF VerifyAndEnableTwoFactor, NoSecret
    <2>4. proven' = proven \union {Current.secret} /\ renewed' = renewed /\ Updates(r, t)
      BY <1>2, <2>1 DEF VerifyAndEnableTwoFactor
    <2>5. OnlyProven(t)'
      <3>1. \A c \in t.codes : c[1] = t.secret
        BY <1>2, <2>2 DEF VerifyAndEnableTwoFactor, OnlyProven
      <3> QED
        BY <2>2, <2>4, <3>1 DEF OnlyProven
    <2> QED
      BY <1>2, <2>2, <2>3, <2>4, <2>5, UpdatesStep DEF VerifyAndEnableTwoFactor
  <1>3. CASE DisableTwoFactor(r)
    <2>1. Off \in TwoFactorMetadata /\ ~Off.enabled /\ OnlyProven(Off)'
      BY NoMetadataTyped DEF Off, OnlyProven
    <2> QED
      BY <1>3, <2>1, UpdatesStep DEF DisableTwoFactor
  <1>4. CASE GenerateBackupCodes(r)
    <2>1. batches + 1 \in 1..MaxBatches
      BY <1>4, FactorBounds DEF GenerateBackupCodes
    <2>2. PICK t : t = [Current EXCEPT !.codes = Batch(batches + 1)]
      OBVIOUS
    <2>3. /\ t \in TwoFactorMetadata /\ t.secret = Current.secret /\ t.enabled
          /\ t.codes = Batch(batches + 1)
      BY <1>4, <2>1, <2>2, BatchCodes DEF TwoFactorMetadata, GenerateBackupCodes
    <2>4. /\ batches' \in 0..MaxBatches /\ Updates(r, t)
          /\ renewed' = renewed \union {batches + 1} /\ proven' = proven
      BY <1>4, <2>1, <2>2 DEF GenerateBackupCodes
    <2>5. OnlyProven(t)'
      BY <1>4, <2>1, <2>3, <2>4, BatchCodes DEF OnlyProven, GenerateBackupCodes
    <2>6. t.enabled => t.secret # NoSecret
      BY <1>4, <2>3 DEF GenerateBackupCodes
    <2> QED
      BY <1>4, <2>1, <2>3, <2>4, <2>5, <2>6, UpdatesStep DEF GenerateBackupCodes
  <1> QED
    BY <1>1, <1>2, <1>3, <1>4

\* The second read and the write of update2FAMetadata.
LEMMA UpdateReadKeeps ==
    ASSUME FactorsInv, NEW r \in Requests, UpdateRead(r)
    PROVE  FactorsInv'
  <1> USE FactorsHere
  <1>1. PICK n : n = [req[r].new EXCEPT !.counter = metadata.counter]
    OBVIOUS
  <1>2. n \in Metadata /\ n.twoFactor = req[r].new.twoFactor
    BY <1>1 DEF Metadata
  <1>3. PICK q : q = [req[r] EXCEPT !.step = "storing", !.new = n]
    OBVIOUS
  <1>4. /\ q \in Request /\ q.step = "storing" /\ q.new = n /\ q.token = req[r].token
        /\ q.through = req[r].through /\ q.took = req[r].took /\ q.off = req[r].off
    BY <1>2, <1>3 DEF Request
  <1>5. req' = [req EXCEPT ![r] = q]
    BY <1>1, <1>3 DEF UpdateRead, FactorsInv, FactorsTypeOK, Request
  <1>6. UNCHANGED <<metadata, batches, asserts, identifier, proven, renewed, spent>>
    BY DEF UpdateRead
  <1>7. OnlyProven(q.new.twoFactor)'
    <2>1. q.new.twoFactor = req[r].new.twoFactor
      BY <1>2, <1>4
    <2>2. PICK t : t = req[r].new.twoFactor
      OBVIOUS
    <2> QED
      BY <1>6, <2>1, <2>2 DEF OnlyProven
  <1>8. Knows(q, metadata.twoFactor) /\ Right(q)'
    BY <1>4, <1>6 DEF UpdateRead, Knows, Right, Rightful
  <1>9. q.new.twoFactor.enabled => q.new.twoFactor.secret # NoSecret
    BY <1>2, <1>4
  <1> QED
    BY <1>4, <1>5, <1>6, <1>7, <1>8, <1>9, RequestStep

LEMMA StoreKeeps ==
    ASSUME FactorsInv, NEW r \in Requests, Store(r)
    PROVE  FactorsInv'
  <1> USE FactorsHere
  <1>1. PICK m : m = req[r].new
    OBVIOUS
  <1>2. PICK a : a = [req[r] EXCEPT !.step = "idle", !.new = NoMetadata,
                                    !.through = req[r].token # NoToken]
    OBVIOUS
  <1>3. /\ a \in Request /\ a.step = "idle" /\ a.new = NoMetadata /\ a.token = req[r].token
        /\ a.through = (req[r].token # NoToken) /\ a.took = req[r].took /\ a.off = req[r].off
    BY <1>2, NoMetadataTyped DEF Request
  <1>4. /\ metadata' = m
        /\ UNCHANGED <<batches, asserts, identifier, proven, renewed>>
        /\ req' = [Remember(m.twoFactor) EXCEPT ![r] = a]
        /\ spent' = spent \union ({req[r].token} \intersect Codes)
    BY <1>1, <1>2 DEF Store
  <1>5. m \in Metadata /\ m.twoFactor.enabled \in BOOLEAN
    BY <1>1 DEF Metadata, TwoFactorMetadata
  <1>6. /\ req' = [s \in Requests |-> IF s = r THEN a ELSE Remember(m.twoFactor)[s]]
        /\ req'[r] = a
    <2>1. DOMAIN Remember(m.twoFactor) = Requests
      BY DEF Remember
    <2> QED
      BY <1>4, <2>1 DEF Remember
  <1>7. \A s \in Requests : s # r =>
           /\ req'[s] \in Request
           /\ req'[s].step = req[s].step /\ req'[s].new = req[s].new
           /\ req'[s].token = req[s].token /\ req'[s].through = req[s].through
           /\ IF req[s].step = "gated"
              THEN /\ req'[s].off = (req[s].off \/ ~m.twoFactor.enabled)
                   /\ req'[s].took = (req[s].took \/ Takes(m.twoFactor, req[s].token))
              ELSE req'[s].off = req[s].off /\ req'[s].took = req[s].took
    <2> SUFFICES ASSUME NEW s \in Requests, s # r
                 PROVE  /\ req'[s] \in Request
                        /\ req'[s].step = req[s].step /\ req'[s].new = req[s].new
                        /\ req'[s].token = req[s].token /\ req'[s].through = req[s].through
                        /\ IF req[s].step = "gated"
                           THEN /\ req'[s].off = (req[s].off \/ ~m.twoFactor.enabled)
                                /\ req'[s].took = (req[s].took \/ Takes(m.twoFactor, req[s].token))
                           ELSE req'[s].off = req[s].off /\ req'[s].took = req[s].took
      OBVIOUS
    <2>1. req[s] \in Request
      BY DEF FactorsInv, FactorsTypeOK
    <2>2. Takes(m.twoFactor, req[s].token) \in BOOLEAN
      BY DEF Takes
    <2>3. req'[s] = Remember(m.twoFactor)[s]
      BY <1>6
    <2>4. CASE req[s].step = "gated"
      <3>1. req'[s] = [req[s] EXCEPT !.off = @ \/ ~m.twoFactor.enabled,
                                     !.took = @ \/ Takes(m.twoFactor, req[s].token)]
        BY <2>3, <2>4 DEF Remember
      <3> HIDE DEF Takes
      <3> QED
        BY <1>5, <2>1, <2>2, <2>4, <3>1 DEF Request
    <2>5. CASE req[s].step # "gated"
      BY <2>1, <2>3, <2>5 DEF Remember
    <2> QED
      BY <2>4, <2>5
  <1>8. FactorsTypeOK'
    <2>1. req' \in [Requests -> Request]
      BY <1>3, <1>6, <1>7
    <2>2. \A s \in Requests :
             req'[s].new.twoFactor.enabled => req'[s].new.twoFactor.secret # NoSecret
      <3>1. \A s \in Requests :
               req[s].new.twoFactor.enabled => req[s].new.twoFactor.secret # NoSecret
        BY DEF FactorsInv, FactorsTypeOK
      <3>2. ~req'[r].new.twoFactor.enabled
        BY <1>3, <1>6, NoMetadataTyped
      <3> QED
        BY <1>7, <3>1, <3>2
    <2>3. metadata'.twoFactor.enabled => metadata'.twoFactor.secret # NoSecret
      BY <1>1, <1>4
    <2> QED
      BY <1>4, <1>5, <2>1, <2>2, <2>3 DEF FactorsInv, FactorsTypeOK
  <1>9. AllProven'
    <2>1. OnlyProven(metadata.twoFactor)'
      BY <1>1, <1>4 DEF OnlyProven
    <2>2. \A s \in Requests : OnlyProven(req[s].new.twoFactor)
      BY DEF FactorsInv, AllProven
    <2>3. OnlyProven(Off)'
      BY NoMetadataTyped DEF Off, OnlyProven
    <2>4. ASSUME NEW s \in Requests PROVE OnlyProven(req[s].new.twoFactor)'
      <3>1. CASE s = r
        BY <1>3, <1>6, <2>3, <3>1, NoMetadataTyped DEF OnlyProven
      <3>2. CASE s # r
        BY <1>4, <1>7, <2>2, <3>2 DEF OnlyProven
      <3> QED
        BY <3>1, <3>2
    <2> QED
      BY <2>1, <2>4 DEF AllProven
  <1>10. GateRemembers'
    <2>1. ASSUME NEW s \in Requests PROVE Knows(req[s], metadata.twoFactor)'
      <3>1. CASE s = r
        BY <1>3, <1>6, <3>1 DEF Knows
      <3>2. CASE s # r
        BY <1>4, <1>7, <3>2 DEF Knows, Takes
      <3> QED
        BY <3>1, <3>2
    <2> QED
      BY <2>1 DEF GateRemembers
  <1>11. AnswersRight'
    <2>1. ASSUME NEW s \in Requests PROVE Right(req[s])'
      <3>1. CASE s = r
        BY <1>3, <1>4, <1>6, <3>1 DEF Right, Rightful, Store
      <3>2. CASE s # r
        <4>1. Right(req[s])
          BY DEF FactorsInv, AnswersRight
        <4> QED
          BY <1>4, <1>7, <3>2, <4>1 DEF Right, Rightful
      <3> QED
        BY <3>1, <3>2
    <2> QED
      BY <2>1 DEF AnswersRight
  <1> QED
    BY <1>8, <1>9, <1>10, <1>11 DEF FactorsInv

\* What a request with a token starts from.
LEMMA AsksKnows ==
    ASSUME Current \in TwoFactorMetadata, NEW token \in Tokens
    PROVE  /\ Asks(token) \in Request
           /\ Asks(token).step = "idle" /\ Asks(token).new = NoMetadata
           /\ Asks(token).token = token /\ ~Asks(token).through
           /\ Asks(token).off = ~Current.enabled
           /\ Asks(token).took = Takes(Current, token)
  <1>1. Takes(Current, token) \in BOOLEAN /\ Current.enabled \in BOOLEAN
    BY DEF Takes, TwoFactorMetadata
  <1>2. PICK b \in BOOLEAN : b = Takes(Current, token)
    BY <1>1
  <1>3. PICK e \in BOOLEAN : e = Current.enabled
    BY <1>1
  <1>4. Asks(token) = [IdleRequest EXCEPT !.token = token, !.off = ~e, !.took = b]
    BY <1>2, <1>3 DEF Asks
  <1> QED
    BY <1>2, <1>3, <1>4, NoMetadataTyped DEF IdleRequest, Request

\* verifyToken's read answers a request that knows what is stored.
LEMMA VerifiesStep ==
    ASSUME FactorsInv, NEW r \in Requests, NEW q \in Request,
           q.new = NoMetadata, ~q.through,
           Current.enabled \/ q.off, Takes(Current, q.token) => q.took,
           Verifies(r, q),
           UNCHANGED <<metadata, batches, asserts, identifier, proven, renewed, spent>>
    PROVE  FactorsInv'
  <1> USE FactorsHere
  <1>1. OnlyProven(NoMetadata.twoFactor)' /\ ~NoMetadata.twoFactor.enabled
    BY NoMetadataTyped DEF Off, OnlyProven
  <1>2. Current.secret \in 0..MaxBatches /\ Current.codes \subseteq Codes
    BY DEF TwoFactorMetadata
  <1>3. CASE ~Current.enabled \/ q.token = <<Current.secret, 0>>
    <2>1. PICK a : a = [q EXCEPT !.step = "idle", !.through = TRUE]
      OBVIOUS
    <2>2. /\ a \in Request /\ a.step = "idle" /\ a.new = NoMetadata /\ a.token = q.token
          /\ a.off = q.off /\ a.took = q.took
      BY <2>1 DEF Request
    <2>3. req' = [req EXCEPT ![r] = a]
      BY <1>3, <2>1 DEF Verifies
    <2>4. a.off \/ (a.took /\ Rightful(a.token))
      <3>1. CASE ~Current.enabled
        BY <2>2, <3>1
      <3>2. CASE Current.enabled /\ q.token = <<Current.secret, 0>>
        <4>1. q.took /\ Current.secret \in proven
          BY <3>2 DEF Takes, OnlyProven
        <4>2. q.token[1] = Current.secret /\ q.token \notin Codes
          BY <3>2 DEF Codes
        <4> QED
          BY <2>2, <4>1, <4>2 DEF Rightful
      <3> QED
        BY <1>3, <3>1, <3>2
    <2>5. Knows(a, metadata.twoFactor) /\ Right(a)'
      BY <2>2, <2>4 DEF Knows, Right, Rightful
    <2>6. OnlyProven(a.new.twoFactor)' /\ ~a.new.twoFactor.enabled
      BY <1>1, <2>2
    <2> QED
      BY <2>2, <2>3, <2>5, <2>6, RequestStep
  <1>4. CASE Current.enabled /\ q.token # <<Current.secret, 0>> /\ q.token \in Current.codes
    <2>1. PICK t : t = [Current EXCEPT !.codes = @ \ {q.token}]
      OBVIOUS
    <2>2. /\ t \in TwoFactorMetadata /\ t.secret = Current.secret
          /\ t.enabled = Current.enabled /\ t.codes = Current.codes \ {q.token}
      BY <2>1 DEF TwoFactorMetadata
    <2>3. PICK n : n = [NoMetadata EXCEPT !.twoFactor = t]
      OBVIOUS
    <2>4. n \in Metadata /\ n.twoFactor = t
      BY <2>2, <2>3, NoMetadataTyped DEF Metadata
    <2>5. PICK a : a = [q EXCEPT !.step = "updating", !.new = n]
      OBVIOUS
    <2>6. /\ a \in Request /\ a.step = "updating" /\ a.new = n /\ a.token = q.token
          /\ a.off = q.off /\ a.took = q.took /\ ~a.through
      BY <2>4, <2>5 DEF Request
    <2>7. req' = [req EXCEPT ![r] = a]
      BY <1>4, <2>1, <2>3, <2>5 DEF Verifies, Request
    <2>8. a.took /\ Rightful(a.token)
      <3>1. q.took
        BY <1>4 DEF Takes
      <3>2. q.token \in Codes /\ q.token[1] \in proven \union renewed
        BY <1>2, <1>4 DEF OnlyProven
      <3> QED
        BY <2>6, <3>1, <3>2 DEF Rightful
    <2>9. Knows(a, metadata.twoFactor) /\ Right(a)'
      BY <2>6, <2>8 DEF Knows, Right, Rightful
    <2>10. OnlyProven(a.new.twoFactor)'
      <3>1. OnlyProven(t)'
        BY <1>4, <2>2 DEF OnlyProven
      <3> QED
        BY <2>4, <2>6, <3>1
    <2>11. a.new.twoFactor.enabled => a.new.twoFactor.secret # NoSecret
      BY <2>2, <2>4, <2>6
    <2> QED
      BY <2>6, <2>7, <2>9, <2>10, <2>11, RequestStep
  <1>5. CASE Current.enabled /\ q.token # <<Current.secret, 0>> /\ q.token \notin Current.codes
    <2>1. req' = [req EXCEPT ![r] = IdleRequest]
      BY <1>5 DEF Verifies
    <2> QED
      BY <1>1, <2>1, NoMetadataTyped, IdleStep
  <1> QED
    BY <1>3, <1>4, <1>5

\* The step of one request.
LEMMA FactorsRequest ==
    ASSUME FactorsInv, NEW r \in Requests,
           \/ SetupTwoFactor(r) \/ VerifyAndEnableTwoFactor(r) \/ DisableTwoFactor(r)
           \/ GenerateBackupCodes(r) \/ UpdateRead(r) \/ Store(r) \/ RequestFails(r)
           \/ VerifyRoute(r) \/ RequireTwoFactor(r) \/ VerifyToken(r) \/ VerifyAuthentication(r)
    PROVE  FactorsInv'
  <1> USE FactorsHere
  <1>1. CASE \/ SetupTwoFactor(r) \/ VerifyAndEnableTwoFactor(r) \/ DisableTwoFactor(r)
             \/ GenerateBackupCodes(r)
    BY <1>1, DecisionsKeep
  <1>2. CASE UpdateRead(r)
    BY <1>2, UpdateReadKeeps
  <1>3. CASE Store(r)
    BY <1>3, StoreKeeps
  <1>4. CASE RequestFails(r)
    BY <1>4, IdleStep DEF RequestFails
  <1>5. CASE VerifyRoute(r)
    <2>1. PICK token \in Tokens : Verifies(r, Asks(token))
      BY <1>5 DEF VerifyRoute
    <2>2. PICK q : q = Asks(token)
      OBVIOUS
    <2>3. /\ q \in Request /\ q.new = NoMetadata /\ ~q.through
          /\ (Current.enabled \/ q.off) /\ (Takes(Current, q.token) => q.took)
      BY <2>2, AsksKnows
    <2>4. UNCHANGED <<metadata, batches, asserts, identifier, proven, renewed, spent>>
      BY <1>5 DEF VerifyRoute
    <2>5. Verifies(r, q)
      BY <2>1, <2>2
    <2> QED
      BY <2>3, <2>4, <2>5, VerifiesStep
  <1>6. CASE RequireTwoFactor(r)
    <2>1. PICK token \in Tokens :
             req' = [req EXCEPT ![r] =
                IF Current.enabled THEN [Asks(token) EXCEPT !.step = "gated"]
                ELSE [Asks(token) EXCEPT !.through = TRUE]]
      BY <1>6 DEF RequireTwoFactor
    <2>2. PICK q : q = IF Current.enabled THEN [Asks(token) EXCEPT !.step = "gated"]
                       ELSE [Asks(token) EXCEPT !.through = TRUE]
      OBVIOUS
    <2>3. /\ q \in Request /\ q.new = NoMetadata /\ q.token = token
          /\ q.off = ~Current.enabled /\ q.took = Takes(Current, token)
          /\ q.step \in {"idle", "gated"} /\ (q.step = "gated" => ~q.through)
          /\ (q.through => ~Current.enabled)
      <3>1. CASE Current.enabled
        BY <2>2, <3>1, AsksKnows DEF Request
      <3>2. CASE ~Current.enabled
        <4>1. PICK w : w = Asks(token)
          OBVIOUS
        <4>2. /\ w \in Request /\ w.step = "idle" /\ w.new = NoMetadata /\ w.token = token
              /\ w.off = ~Current.enabled /\ w.took = Takes(Current, token)
          BY <4>1, AsksKnows
        <4>3. q = [w EXCEPT !.through = TRUE]
          BY <2>2, <3>2, <4>1
        <4>4. /\ q \in Request /\ q.step = "idle" /\ q.new = w.new
              /\ q.token = w.token /\ q.off = w.off /\ q.took = w.took
          BY <4>2, <4>3 DEF Request
        <4> QED
          BY <3>2, <4>2, <4>4
      <3> QED
        BY <3>1, <3>2
    <2>4. req' = [req EXCEPT ![r] = q]
      BY <2>1, <2>2
    <2>5. UNCHANGED <<metadata, batches, asserts, identifier, proven, renewed, spent>>
      BY <1>6 DEF RequireTwoFactor
    <2>6. Knows(q, metadata.twoFactor) /\ Right(q)'
      BY <2>3 DEF Knows, Right, Current
    <2>7. OnlyProven(q.new.twoFactor)' /\ ~q.new.twoFactor.enabled
      BY <2>3, NoMetadataTyped DEF Off, OnlyProven
    <2> QED
      BY <2>3, <2>4, <2>5, <2>6, <2>7, RequestStep
  <1>7. CASE VerifyToken(r)
    <2>1. req[r].step = "gated" /\ Verifies(r, req[r])
      BY <1>7 DEF VerifyToken
    <2>2. UNCHANGED <<metadata, batches, asserts, identifier, proven, renewed, spent>>
      BY <1>7 DEF VerifyToken
    <2>3. req[r].new = NoMetadata /\ ~req[r].through
      BY <2>1 DEF Right
    <2>4. (Current.enabled \/ req[r].off) /\ (Takes(Current, req[r].token) => req[r].took)
      BY <2>1 DEF Knows
    <2>5. PICK q : q = req[r]
      OBVIOUS
    <2> QED
      BY <2>1, <2>2, <2>3, <2>4, <2>5, VerifiesStep
  <1>8. CASE VerifyAuthentication(r)
    <2>1. asserts + 1 \in 0..MaxAsserts /\ asserts' \in 0..MaxAsserts
      BY <1>8, FactorBounds DEF VerifyAuthentication
    <2>2. CASE asserts + 1 > metadata.counter
      <3>1. PICK n : n = [metadata EXCEPT !.counter = asserts + 1]
        OBVIOUS
      <3>2. n \in Metadata /\ n.twoFactor = Current
        BY <2>1, <3>1 DEF Metadata, Current
      <3>3. PICK q : q = [IdleRequest EXCEPT !.step = "storing", !.new = n]
        OBVIOUS
      <3>4. q \in Request /\ q.new = n /\ q.step = "storing" /\ ~q.through /\ q.token = NoToken
        BY <3>2, <3>3, NoMetadataTyped DEF IdleRequest, Request
      <3>5. req' = [req EXCEPT ![r] = q]
        BY <1>8, <2>2, <3>1, <3>3 DEF VerifyAuthentication
      <3>6. UNCHANGED <<metadata, batches, identifier, proven, renewed, spent>>
        BY <1>8 DEF VerifyAuthentication
      <3>7. OnlyProven(q.new.twoFactor)'
        BY <3>2, <3>4, <3>6 DEF OnlyProven
      <3>8. Knows(q, metadata.twoFactor) /\ Right(q)'
        BY <3>4 DEF Knows, Right
      <3>9. q.new.twoFactor.enabled => q.new.twoFactor.secret # NoSecret
        BY <3>2, <3>4
      <3> QED
        BY <2>1, <3>4, <3>5, <3>6, <3>7, <3>8, <3>9, RequestStep
    <2>3. CASE ~(asserts + 1 > metadata.counter)
      <3>1. UNCHANGED <<metadata, batches, identifier, proven, renewed, spent, req>>
        BY <1>8, <2>3 DEF VerifyAuthentication
      <3> QED
        BY <2>1, <3>1, SameRequests DEF FactorsInv, FactorsTypeOK
    <2> QED
      BY <2>2, <2>3
  <1> QED
    BY <1>1, <1>2, <1>3, <1>4, <1>5, <1>6, <1>7, <1>8

LEMMA FactorsStep == FactorsInv /\ [Next]_vars => FactorsInv'
  <1> SUFFICES ASSUME FactorsInv, [Next]_vars PROVE FactorsInv'
    OBVIOUS
  <1>1. CASE VerifyRegistration \/ RegisterNewUserWithPasskey
    <2>1. /\ UNCHANGED <<metadata, batches, asserts, req, proven, renewed, spent>>
          /\ identifier' \in {"", "id", "encoded"}
      BY <1>1 DEF VerifyRegistration, RegisterNewUserWithPasskey
    <2>2. asserts' \in 0..MaxAsserts
      BY <2>1 DEF FactorsInv, FactorsTypeOK
    <2> QED
      BY <2>1, <2>2, SameRequests
  <1>2. CASE UNCHANGED vars
    <2>1. asserts' \in 0..MaxAsserts /\ identifier' \in {"", "id", "encoded"}
      BY <1>2 DEF vars, FactorsInv, FactorsTypeOK
    <2> QED
      BY <1>2, <2>1, SameRequests DEF vars
  <1>3. CASE \E r \in Requests :
                \/ SetupTwoFactor(r) \/ VerifyAndEnableTwoFactor(r) \/ DisableTwoFactor(r)
                \/ GenerateBackupCodes(r) \/ UpdateRead(r) \/ Store(r) \/ RequestFails(r)
                \/ VerifyRoute(r) \/ RequireTwoFactor(r) \/ VerifyToken(r)
                \/ VerifyAuthentication(r)
    BY <1>3, FactorsRequest
  <1> QED
    BY <1>1, <1>2, <1>3 DEF Next

LEMMA FactorsAlways == Spec => []FactorsInv
  BY FactorsInit, FactorsStep, PTL DEF Spec

-----------------------------------------------------------------------------
\* The metadata, and every copy a request holds, is always a record of its
\* kind, and 2FA is on only with a secret (twoFactorService.update2FAMetadata).
THEOREM FactorsTypeCorrect == Spec => []FactorsTypeOK
  <1>1. FactorsInv => FactorsTypeOK
    BY DEF FactorsInv
  <1> QED
    BY <1>1, FactorsAlways, PTL

\* 2FA that is on uses a secret the user has shown to have, whatever setups,
\* passkey sign-ins and other updates write the metadata back meanwhile
\* (twoFactorService.verifyAndEnableTwoFactor).
THEOREM OnMeansProven == Spec => []EnabledWasProven
  <1>1. FactorsInv => EnabledWasProven
    BY DEF FactorsInv, AllProven, OnlyProven, EnabledWasProven
  <1> QED
    BY <1>1, FactorsAlways, PTL

\* A key operation, or the route that verifies a token, is answered yes only
\* with a TOTP code or a backup code that the account took at some time between
\* the request's reads, of a secret the user had proven or of codes renewed
\* under one, or when 2FA was off at some time between them
\* (twoFactorService.requireTwoFactor, verifyToken).
THEOREM GateHolds == Spec => []GateNeedsProof
  <1>1. FactorsInv => GateNeedsProof
    BY DEF FactorsInv, AnswersRight, Right, GateNeedsProof
  <1> QED
    BY <1>1, FactorsAlways, PTL
=============================================================================
