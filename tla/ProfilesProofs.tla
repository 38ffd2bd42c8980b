--------------------------- MODULE ProfilesProofs ---------------------------
(***************************************************************************)
(* Proofs about profiles: how they come to be (ProfileSetup), for any      *)
(* profiles, clients and requests, any number of crashes and of audit rows *)
(* that fail; and what is on them (Desktop), for any number of folders,    *)
(* apps, names and links.                                                  *)
(***************************************************************************)
EXTENDS ProfileSetup, Desktop, FiniteSetTheorems, TLAPS

-----------------------------------------------------------------------------
(* The invariants.                                                         *)

Creations == [pc : {"none"} \cup Running \cup Ended, tries : 0..MaxAttempts]

\* What a creation has asked of Orby so far: nothing before the profile is
\* committed, then one call with each attempt, the one under way excepted.
Asked(c, n) ==
  /\ c.pc = "none" => c.tries = 0
  /\ c.pc \in {"none", "transaction", "rolledBack"} => n = 0
  /\ c.pc = "transaction" => c.tries <= MaxTransactions
  /\ c.pc = "attempt" => n < c.tries
  /\ c.pc = "backoff" => n <= c.tries /\ c.tries < MaxAttempts
  /\ n <= MaxAttempts

Calls(p) == clusters[p] + abandoned[p]

ClusterInv ==
  /\ creation \in [Profiles -> Creations]
  /\ clusters \in [Profiles -> Nat]
  /\ abandoned \in [Profiles -> Nat]
  /\ \A p \in Profiles : Asked(creation[p], Calls(p))

\* Before its transaction commits nothing is generated for a profile.  An
\* address is that of a key issued for the profile, a mapping stands beside an
\* address, and a notification on its way has left both behind; the linked
\* account is that of the mapping.
KeyInv ==
  /\ \A p \in Profiles : creation[p].pc \in {"none", "transaction"} =>
       /\ ~exists[p]
       /\ \A c \in Clients : client[c] # p
       /\ \A k \in Keys : issued[k] # p
  /\ \A r \in Requests : request[r].pc # "idle" =>
       request[r].key \in Keys /\ issued[request[r].key] \in Profiles
  /\ \A p \in Profiles, k \in Keys : address[p] = k => issued[k] = p
  /\ \A p \in Profiles, k \in Keys : mapping[p] = Encrypt(k) =>
       issued[k] = p /\ address[p] # None
  /\ \A r \in Requests : request[r].pc \in {"addressed", "mapped"} =>
       address[issued[request[r].key]] # None
  /\ \A r \in Requests : request[r].pc = "mapped" =>
       \/ ~exists[issued[request[r].key]]
       \/ mapping[issued[request[r].key]] = Encrypt(request[r].key)
  /\ \A p \in Profiles, k \in Keys : wallet[p] = k => mapping[p] = Encrypt(k)

-----------------------------------------------------------------------------
(* The calls at Orby.                                                      *)

LEMMA ClusterStep == ClusterInv /\ SetupNext => ClusterInv'
<1> SUFFICES ASSUME ClusterInv, SetupNext PROVE ClusterInv'
  OBVIOUS
<1> USE DEF Creations, Running, Ended, MaxAttempts, MaxTransactions, Asked, Calls,
            At, Moves, Tries
<1>1. CASE KeySteps
  BY <1>1 DEF KeySteps, setupVars, ClusterInv
<1>2. ASSUME NEW p \in Profiles, CreateProfile(p) \/ TransactionCommits(p) \/ TransactionFails(p)
      PROVE ClusterInv'
  <2>1. CASE CreateProfile(p)
    BY <2>1 DEF CreateProfile, ClusterInv
  <2>2. CASE TransactionCommits(p)
    BY <2>2 DEF TransactionCommits, ClusterInv
  <2>3. CASE TransactionFails(p)
    BY <2>3 DEF TransactionFails, ClusterInv
  <2> QED BY <1>2, <2>1, <2>2, <2>3
<1>3. ASSUME NEW p \in Profiles, OrbyCreates(p) \/ OrbyRefuses(p) \/ TimesOut(p)
      PROVE ClusterInv'
  <2>1. CASE OrbyCreates(p)
    BY <2>1 DEF OrbyCreates, ClusterInv
  <2>2. CASE OrbyRefuses(p)
    BY <2>2 DEF OrbyRefuses, BackOff, ClusterInv
  <2>3. CASE TimesOut(p)
    <3>1. /\ creation[p] \in Creations /\ creation[p].pc = "attempt"
          /\ clusters[p] \in Nat /\ abandoned[p] \in Nat
          /\ clusters[p] + abandoned[p] < creation[p].tries
      BY <2>3 DEF TimesOut, ClusterInv
    <3>2. PICK pc \in {"failed", "backoff"} :
            /\ creation' = [creation EXCEPT ![p].pc = pc]
            /\ pc = "backoff" => creation[p].tries # MaxAttempts
      BY <2>3 DEF TimesOut, BackOff
    <3>3. abandoned' = [abandoned EXCEPT ![p] = @ + 1] /\ UNCHANGED clusters
      BY <2>3 DEF TimesOut
    <3>4. /\ creation' \in [Profiles -> Creations]
          /\ abandoned' \in [Profiles -> Nat] /\ clusters' \in [Profiles -> Nat]
      BY <3>1, <3>2, <3>3 DEF ClusterInv
    <3>5. Asked(creation[p], Calls(p))'
      BY <3>1, <3>2, <3>3 DEF ClusterInv
    <3>6. ASSUME NEW q \in Profiles, q # p PROVE Asked(creation[q], Calls(q))'
      BY <3>2, <3>3, <3>6 DEF ClusterInv
    <3> QED BY <3>4, <3>5, <3>6 DEF ClusterInv
  <2> QED BY <1>3, <2>1, <2>2, <2>3
<1>4. ASSUME NEW p \in Profiles, LateAnswer(p) PROVE ClusterInv'
  BY <1>4 DEF LateAnswer, ClusterInv
<1>5. ASSUME NEW p \in Profiles, NextAttempt(p) \/ AuditCreated(p) \/ AuditFailed(p) \/ Respond(p)
      PROVE ClusterInv'
  BY <1>5 DEF NextAttempt, AuditCreated, AuditFailed, Respond, ClusterInv
<1>6. CASE SetupCrash
  BY <1>6 DEF SetupCrash, ClusterInv
<1> QED BY <1>1, <1>2, <1>3, <1>4, <1>5, <1>6 DEF SetupNext, SetupSteps

LEMMA ClusterStart == SetupInit => ClusterInv
  BY DEF SetupInit, ClusterInv, Creations, Asked, Calls, MaxAttempts, MaxTransactions

LEMMA ClusterStutter == ClusterInv /\ UNCHANGED profileVars => ClusterInv'
  BY DEF profileVars, setupVars, ClusterInv, Calls

\* However late Orby answers, and whatever a crash cuts short, a creation
\* leaves at most three clusters, and none if its transaction never committed.
THEOREM AtMostThreeClusters == SetupSpec => []ClustersBounded
<1>1. ClusterInv => ClustersBounded
  BY DEF ClusterInv, ClustersBounded, Asked, Calls
<1> QED BY <1>1, ClusterStart, ClusterStutter, ClusterStep, PTL DEF SetupSpec

-----------------------------------------------------------------------------
(* Address and key mapping.                                                *)

\* A notification that is being handled names a key.
Notified == \A r \in Requests : request[r].pc # "idle" => request[r].key \in Keys
KeysTyped == MpcTypeOK /\ Notified

LEMMA KeyTypeStep == KeysTyped /\ SetupNext => KeysTyped'
<1> SUFFICES ASSUME KeysTyped, SetupNext PROVE KeysTyped'
  OBVIOUS
<1> USE DEF KeysTyped, MpcTypeOK, Notified, Mappings, NoMapping, Encrypt, IdleRequest
<1>1. ASSUME NEW c \in Clients, NEW p \in Profiles, GenerateKey(c, p) PROVE KeysTyped'
  BY <1>1 DEF GenerateKey
<1>2. ASSUME NEW c \in Clients, KeyIssued(c) PROVE KeysTyped'
  BY <1>2 DEF KeyIssued
<1>3. ASSUME NEW r \in Requests, NEW key \in Keys, Receive(r, key) PROVE KeysTyped'
  BY <1>3 DEF Receive
<1>r. ASSUME NEW r \in Requests, request[r].pc # "idle",
             Fail(r) \/ Goto(r, "addressed") \/ Goto(r, "mapped")
      PROVE  /\ request' \in [Requests ->
                  [pc : {"idle", "received", "addressed", "mapped"}, key : Keys \cup {None}]]
             /\ Notified'
  <2>1. request[r].key \in Keys
    BY <1>r
  <2>2. CASE Fail(r)
    BY <2>2 DEF Fail
  <2>3. CASE Goto(r, "addressed") \/ Goto(r, "mapped")
    BY <2>1, <2>3 DEF Goto
  <2> QED BY <1>r, <2>2, <2>3
<1>4. ASSUME NEW r \in Requests, RequestSteps(r) PROVE KeysTyped'
  <2>1. request[r].pc # "idle" /\ (Fail(r) \/ Goto(r, "addressed") \/ Goto(r, "mapped"))
    BY <1>4 DEF RequestSteps, SetAddress, CreateMapping, LinkWallet, LinkFails
  <2>2. /\ request[r].key \in Keys
        /\ UNCHANGED <<exists, client, issued, crashes>>
    BY <1>4, <2>1 DEF RequestSteps, SetAddress, CreateMapping, LinkWallet, LinkFails
  <2>3. address' \in [Profiles -> Keys \cup {None}]
    BY <1>4, <2>2 DEF RequestSteps, SetAddress, CreateMapping, LinkWallet, LinkFails
  <2>4. mapping' \in [Profiles -> Mappings]
    BY <1>4, <2>2 DEF RequestSteps, SetAddress, CreateMapping, LinkWallet, LinkFails
  <2>5. wallet' \in [Profiles -> Keys \cup {None}]
    BY <1>4, <2>2 DEF RequestSteps, SetAddress, CreateMapping, LinkWallet, LinkFails
  <2> QED BY <1>r, <2>1, <2>2, <2>3, <2>4, <2>5
<1>5. ASSUME NEW p \in Profiles, DeleteProfile(p) PROVE KeysTyped'
  BY <1>5 DEF DeleteProfile
<1>w. ASSUME NEW r \in Requests, WriteFails(r) PROVE KeysTyped'
  <2>1. crashes' \in 0..MaxCrashes
    BY <1>w, MpcConstants DEF WriteFails
  <2>2. request[r].pc # "idle" /\ Fail(r)
    BY <1>w DEF WriteFails
  <2> QED BY <1>w, <1>r, <2>1, <2>2 DEF WriteFails
<1>6. CASE Crash
  BY <1>6, MpcConstants DEF Crash
<1>7. ASSUME NEW p \in Profiles, TransactionCommits(p) PROVE KeysTyped'
  BY <1>7 DEF TransactionCommits
<1>8. CASE UNCHANGED mpcVars
  BY <1>8 DEF mpcVars
<1>9. ASSUME NEW p \in Profiles,
             CreateProfile(p) \/ SetupSteps(p) \/ LateAnswer(p), ~TransactionCommits(p)
      PROVE UNCHANGED mpcVars
  BY <1>9 DEF CreateProfile, SetupSteps, LateAnswer, TransactionFails, OrbyCreates,
     OrbyRefuses, TimesOut, NextAttempt, AuditCreated, AuditFailed, Respond
<1> QED BY <1>1, <1>2, <1>3, <1>4, <1>5, <1>w, <1>6, <1>7, <1>8, <1>9
        DEF SetupNext, KeySteps, SetupSteps, SetupCrash

\* No step takes the linked account from the mapping, or leaves a mapping
\* without the address of a key of the profile.
LEMMA KeyStep == KeysTyped /\ ClusterInv /\ KeyInv /\ SetupNext => KeyInv'
<1> SUFFICES ASSUME KeysTyped, ClusterInv, KeyInv, SetupNext PROVE KeyInv'
  OBVIOUS
<1>k. \A k, j \in Keys : Encrypt(k) = Encrypt(j) => k = j
  BY DEF Encrypt
<1>n. \A k \in Keys : Encrypt(k) # NoMapping
  BY DEF Encrypt, NoMapping
<1>t. /\ request \in [Requests -> [pc : {"idle", "received", "addressed", "mapped"}, key : Keys \cup {None}]]
      /\ exists \in [Profiles -> BOOLEAN]
      /\ issued \in [Keys -> Profiles \cup {None}]
      /\ address \in [Profiles -> Keys \cup {None}]
      /\ mapping \in [Profiles -> Mappings]
      /\ wallet \in [Profiles -> Keys \cup {None}]
      /\ client \in [Clients -> Profiles \cup {None}]
      /\ None \notin Keys /\ None \notin Profiles
  BY MpcConstants DEF KeysTyped, MpcTypeOK
<1>c. creation \in [Profiles -> Creations]
  BY DEF ClusterInv
<1>f. ASSUME NEW r \in Requests, Fail(r),
             UNCHANGED <<exists, address, mapping, wallet, client, issued, creation>>
      PROVE KeyInv'
  <2>1. \A s \in Requests : request'[s].pc # "idle" => request'[s] = request[s]
    BY <1>f, <1>t DEF Fail, IdleRequest
  <2> QED BY <1>f, <2>1 DEF KeyInv
<1>1. ASSUME NEW c \in Clients, NEW p \in Profiles, GenerateKey(c, p), UNCHANGED creation
      PROVE KeyInv'
  BY <1>1, <1>t DEF GenerateKey, KeyInv
<1>2. ASSUME NEW c \in Clients, KeyIssued(c), UNCHANGED creation PROVE KeyInv'
  <2> DEFINE key == CHOOSE k \in NewKeys : TRUE
  <2>1. key \in Keys /\ issued[key] = None
    BY <1>2 DEF KeyIssued, NewKeys
  <2>2. /\ issued' = [issued EXCEPT ![key] = client[c]] /\ client[c] # None
        /\ client' = [client EXCEPT ![c] = None]
        /\ UNCHANGED <<exists, address, mapping, wallet, request>>
    BY <1>2 DEF KeyIssued
  <2> HIDE DEF key
  <2>3. client[c] \in Profiles
    BY <2>2, <1>t
  <2>4. \A k \in Keys : k # key => issued'[k] = issued[k]
    BY <2>2, <1>t
  <2>5. \A p \in Profiles : address[p] # key
    BY <2>1, <1>t DEF KeyInv
  <2>6. \A r \in Requests : request[r].pc # "idle" => request[r].key # key
    BY <2>1, <1>t DEF KeyInv
  <2>7. \A p \in Profiles : mapping[p] # Encrypt(key)
    BY <2>1, <1>t DEF KeyInv
  <2>8. \A p \in Profiles : creation[p].pc \in {"none", "transaction"} =>
          /\ ~exists[p] /\ client[c] # p
          /\ \A d \in Clients : client'[d] # p
          /\ \A k \in Keys : issued'[k] # p
    <3> SUFFICES ASSUME NEW p \in Profiles, creation[p].pc \in {"none", "transaction"}
                 PROVE  /\ ~exists[p] /\ client[c] # p
                        /\ \A d \in Clients : client'[d] # p
                        /\ \A k \in Keys : issued'[k] # p
      OBVIOUS
    <3>1. /\ ~exists[p]
          /\ \A d \in Clients : client[d] # p
          /\ \A k \in Keys : issued[k] # p
      BY DEF KeyInv
    <3> QED BY <3>1, <2>2, <1>t
  <2> QED BY <1>2, <2>1, <2>2, <2>3, <2>4, <2>5, <2>6, <2>7, <2>8, <1>t DEF KeyInv
<1>3. ASSUME NEW r \in Requests, NEW key \in Keys, Receive(r, key), UNCHANGED creation
      PROVE KeyInv'
  BY <1>3, <1>t DEF Receive, KeyInv
<1>4. ASSUME NEW r \in Requests, SetAddress(r), UNCHANGED creation PROVE KeyInv'
  <2> DEFINE key == request[r].key
             p == issued[key]
  <2>1. /\ request[r].pc = "received" /\ key \in Keys /\ p \in Profiles
        /\ UNCHANGED <<exists, mapping, wallet, client, issued>>
    BY <1>4 DEF SetAddress, KeyInv
  <2>2. CASE exists[p]
    <3>1. /\ address' = [address EXCEPT ![p] = key]
          /\ request' = [request EXCEPT ![r].pc = "addressed"]
      BY <1>4, <2>2 DEF SetAddress, ProfileOf, Goto
    <3>2. \A s \in Requests : /\ request'[s].key = request[s].key
                              /\ s # r => request'[s].pc = request[s].pc
                              /\ request'[r].pc = "addressed"
      BY <3>1, <1>t
    <3>3. \A q \in Profiles : /\ address'[q] # address[q] => q = p /\ address'[q] = key
                              /\ address[q] # None => address'[q] # None
      BY <3>1, <2>1, <1>t
    <3>4. address'[p] = key /\ key # None
      BY <3>1, <2>1, <1>t
    <3>5. \A q \in Profiles, k \in Keys : address'[q] = k => issued[k] = q
      BY <3>3, <2>1, <1>t DEF KeyInv
    <3>6. ASSUME NEW s \in Requests, request'[s].pc \in {"addressed", "mapped"}
          PROVE address'[issued[request[s].key]] # None
      <4>1. CASE s = r
        BY <4>1, <3>4
      <4>2. CASE s # r
        <5>1. issued[request[s].key] \in Profiles /\ address[issued[request[s].key]] # None
          BY <3>2, <3>6, <4>2 DEF KeyInv
        <5> QED BY <5>1, <3>3
      <4> QED BY <4>1, <4>2
    <3>7. ASSUME NEW s \in Requests, request'[s].pc # "idle"
          PROVE request[s].key \in Keys /\ issued[request[s].key] \in Profiles
      BY <3>2, <3>7, <2>1 DEF KeyInv
    <3> HIDE DEF key, p
    <3> QED BY <1>4, <2>1, <3>2, <3>3, <3>5, <3>6, <3>7 DEF KeyInv
  <2>3. CASE ~exists[p]
    BY <1>4, <2>3, <1>f DEF SetAddress, ProfileOf
  <2> QED BY <2>2, <2>3
<1>5. ASSUME NEW r \in Requests, CreateMapping(r), UNCHANGED creation PROVE KeyInv'
  <2> DEFINE key == request[r].key
             p == issued[key]
  <2>1. /\ request[r].pc = "addressed" /\ key \in Keys /\ p \in Profiles
        /\ address[p] # None
        /\ UNCHANGED <<exists, address, wallet, client, issued>>
    BY <1>5 DEF CreateMapping, KeyInv
  <2>2. CASE exists[p] /\ mapping[p] = NoMapping
    <3>1. /\ mapping' = [mapping EXCEPT ![p] = Encrypt(key)]
          /\ request' = [request EXCEPT ![r].pc = "mapped"]
      BY <1>5, <2>2 DEF CreateMapping, ProfileOf, Goto
    <3>2. mapping'[p] = Encrypt(key) /\ \A q \in Profiles : q # p => mapping'[q] = mapping[q]
      BY <3>1, <2>1, <1>t
    <3>3. \A q \in Profiles, k \in Keys : mapping'[q] = Encrypt(k) =>
            issued[k] = q /\ address[q] # None
      BY <3>2, <2>1, <1>k DEF KeyInv
    <3>4. \A s \in Requests : /\ request'[s].key = request[s].key
                              /\ s # r => request'[s].pc = request[s].pc
                              /\ request'[r].pc = "mapped"
      BY <3>1, <1>t
    <3>5. wallet[p] = None
      BY <2>1, <2>2, <1>n, <1>t DEF KeyInv
    <3>6. \A q \in Profiles, k \in Keys : wallet[q] = k => mapping'[q] = Encrypt(k)
      BY <3>2, <3>5, <1>t DEF KeyInv
    <3>7. ASSUME NEW s \in Requests, request'[s].pc = "mapped"
          PROVE \/ ~exists[issued[request[s].key]]
                \/ mapping'[issued[request[s].key]] = Encrypt(request[s].key)
      <4>1. CASE s = r
        BY <4>1, <3>2
      <4>2. CASE s # r
        <5>1. /\ issued[request[s].key] \in Profiles /\ request[s].key \in Keys
              /\ \/ ~exists[issued[request[s].key]]
                 \/ mapping[issued[request[s].key]] = Encrypt(request[s].key)
          BY <3>4, <3>7, <4>2 DEF KeyInv
        <5> QED BY <5>1, <3>2, <2>2, <1>n
      <4> QED BY <4>1, <4>2
    <3>8. ASSUME NEW s \in Requests, request'[s].pc # "idle"
          PROVE request[s].key \in Keys /\ issued[request[s].key] \in Profiles
      BY <3>4, <3>8, <2>1 DEF KeyInv
    <3>9. ASSUME NEW s \in Requests, request'[s].pc \in {"addressed", "mapped"}
          PROVE address[issued[request[s].key]] # None
      BY <3>4, <3>9, <2>1 DEF KeyInv
    <3> HIDE DEF key, p
    <3> QED BY <1>5, <2>1, <3>3, <3>4, <3>6, <3>7, <3>8, <3>9 DEF KeyInv
  <2>3. CASE ~(exists[p] /\ mapping[p] = NoMapping)
    BY <1>5, <2>3, <1>f DEF CreateMapping, ProfileOf
  <2> QED BY <2>2, <2>3
<1>6. ASSUME NEW r \in Requests, LinkWallet(r), UNCHANGED creation PROVE KeyInv'
  <2> DEFINE key == request[r].key
             p == issued[key]
  <2>1. /\ request[r].pc = "mapped" /\ key \in Keys /\ p \in Profiles
        /\ Fail(r) /\ UNCHANGED <<exists, address, mapping, client, issued>>
        /\ exists[p] => mapping[p] = Encrypt(key)
    BY <1>6 DEF LinkWallet, KeyInv
  <2>2. \A s \in Requests : request'[s].pc # "idle" => request'[s] = request[s]
    BY <2>1, <1>t DEF Fail, IdleRequest
  <2>3. CASE exists[p]
    <3>1. wallet' = [wallet EXCEPT ![p] = key]
      BY <1>6, <2>3 DEF LinkWallet, ProfileOf
    <3>2. \A q \in Profiles, k \in Keys : wallet'[q] = k => mapping[q] = Encrypt(k)
      BY <3>1, <2>1, <2>3, <1>t DEF KeyInv
    <3> HIDE DEF key, p
    <3> QED BY <1>6, <2>1, <2>2, <3>2 DEF KeyInv
  <2>4. CASE ~exists[p]
    BY <1>6, <2>1, <2>4, <1>f DEF LinkWallet, ProfileOf
  <2> QED BY <2>3, <2>4
<1>7. ASSUME NEW r \in Requests, LinkFails(r) \/ WriteFails(r), UNCHANGED creation PROVE KeyInv'
  BY <1>7, <1>f DEF LinkFails, WriteFails
<1>8. ASSUME NEW p \in Profiles, DeleteProfile(p), UNCHANGED creation PROVE KeyInv'
  <2>1. /\ exists' = [exists EXCEPT ![p] = FALSE]
        /\ mapping' = [mapping EXCEPT ![p] = NoMapping]
        /\ wallet' = [wallet EXCEPT ![p] = None]
        /\ UNCHANGED <<address, client, issued, request>>
    BY <1>8 DEF DeleteProfile
  <2>2. \A q \in Profiles : /\ exists'[q] => exists[q] /\ q # p
                            /\ q # p => mapping'[q] = mapping[q] /\ wallet'[q] = wallet[q]
    BY <2>1, <1>t
  <2>3. mapping'[p] = NoMapping /\ wallet'[p] = None
    BY <2>1, <1>t
  <2>4. \A r \in Requests : request[r].pc = "mapped" =>
          \/ ~exists'[issued[request[r].key]]
          \/ mapping'[issued[request[r].key]] = Encrypt(request[r].key)
    BY <2>2 DEF KeyInv
  <2>5. \A q \in Profiles, k \in Keys :
          /\ mapping'[q] = Encrypt(k) => mapping[q] = Encrypt(k)
          /\ wallet'[q] = k => mapping'[q] = Encrypt(k)
    BY <2>2, <2>3, <1>n, <1>t DEF KeyInv
  <2> QED BY <1>8, <2>1, <2>2, <2>4, <2>5 DEF KeyInv
<1>9. ASSUME NEW p \in Profiles, TransactionCommits(p) PROVE KeyInv'
  <2>1. /\ creation[p].pc = "transaction"
        /\ creation' = [creation EXCEPT ![p] = [pc |-> "attempt", tries |-> 1]]
        /\ exists' = [exists EXCEPT ![p] = TRUE]
        /\ UNCHANGED <<address, mapping, wallet, client, issued, request>>
    BY <1>9 DEF TransactionCommits, At
  <2>2. \A q \in Profiles : q # p => exists'[q] = exists[q]
    BY <2>1, <1>t
  <2>3. \A q \in Profiles : creation'[q].pc \in {"none", "transaction"} =>
          q # p /\ creation[q].pc \in {"none", "transaction"}
    BY <2>1, <1>c
  <2>4. \A k \in Keys : issued[k] # p
    BY <2>1 DEF KeyInv
  <2>5. \A r \in Requests : request[r].pc # "idle" => issued[request[r].key] # p
    BY <2>4 DEF KeyInv
  <2>6. \A r \in Requests : request[r].pc = "mapped" =>
          \/ ~exists'[issued[request[r].key]]
          \/ mapping[issued[request[r].key]] = Encrypt(request[r].key)
    BY <2>2, <2>5 DEF KeyInv
  <2> QED BY <2>1, <2>2, <2>3, <2>6 DEF KeyInv
<1>10. ASSUME \A p \in Profiles : creation'[p].pc \in {"none", "transaction"} =>
                                      creation[p].pc \in {"none", "transaction"},
              UNCHANGED <<exists, address, mapping, wallet, client, issued>>,
              \/ UNCHANGED request
              \/ request' = [r \in Requests |-> IdleRequest]
       PROVE KeyInv'
  BY <1>10 DEF IdleRequest, KeyInv
<1>11. CASE SetupCrash
  <2>1. \A p \in Profiles : creation'[p].pc \in {"none", "transaction"} =>
                              creation[p].pc \in {"none", "transaction"}
    BY <1>11 DEF SetupCrash
  <2> QED BY <1>11, <2>1, <1>10 DEF SetupCrash, Crash
<1>12. ASSUME NEW p \in Profiles, CreateProfile(p) \/ SetupSteps(p) \/ LateAnswer(p),
              ~TransactionCommits(p)
       PROVE KeyInv'
  <2>1. UNCHANGED mpcVars
    BY <1>12 DEF CreateProfile, SetupSteps, LateAnswer, TransactionFails, OrbyCreates,
       OrbyRefuses, TimesOut, NextAttempt, AuditCreated, AuditFailed, Respond
  <2>2. \A q \in Profiles : creation'[q].pc \in {"none", "transaction"} =>
                              creation[q].pc \in {"none", "transaction"}
    <3>1. CASE CreateProfile(p) \/ TransactionFails(p)
      BY <3>1, <1>c DEF CreateProfile, TransactionFails, At, Moves, Creations, Tries
    <3>2. CASE OrbyCreates(p) \/ OrbyRefuses(p) \/ TimesOut(p)
      BY <3>2, <1>c DEF OrbyCreates, OrbyRefuses, TimesOut, BackOff, At, Moves, Creations
    <3>3. CASE LateAnswer(p) \/ NextAttempt(p)
      BY <3>3, <1>c DEF LateAnswer, NextAttempt, At, Tries, Creations
    <3>4. CASE AuditCreated(p) \/ AuditFailed(p) \/ Respond(p)
      BY <3>4, <1>c DEF AuditCreated, AuditFailed, Respond, At, Moves, Creations
    <3> QED BY <1>12, <3>1, <3>2, <3>3, <3>4 DEF SetupSteps
  <2> QED BY <2>1, <2>2, <1>10 DEF mpcVars
<1> HIDE DEF KeyInv
<1> QED BY <1>1, <1>2, <1>3, <1>4, <1>5, <1>6, <1>7, <1>8, <1>9, <1>11, <1>12
        DEF SetupNext, KeySteps, RequestSteps, SetupSteps, setupVars

\* However many keys are generated for a profile, its linked MPC wallet is the
\* one whose key backup and export use, and its address is of a key generated
\* for it, whatever notifications are repeated, interleaved or cut short.
THEOREM WalletIsMapped == SetupSpec => []WalletMatchesMapping
<1> DEFINE Inv == KeysTyped /\ ClusterInv /\ KeyInv
<1>1. SetupInit => Inv
  BY MpcConstants, ClusterStart DEF SetupInit, WalletInit, KeysTyped, Notified, MpcTypeOK, KeyInv, Mappings,
     NoMapping, Encrypt, IdleRequest
<1>2. Inv /\ SetupNext => Inv'
  BY KeyTypeStep, KeyStep, ClusterStep
<1>3. Inv /\ UNCHANGED profileVars => Inv'
  BY ClusterStutter DEF profileVars, setupVars, mpcVars, KeysTyped, Notified, MpcTypeOK, KeyInv
<1>4. Inv => WalletMatchesMapping
  BY MpcConstants DEF KeysTyped, MpcTypeOK, KeyInv, WalletMatchesMapping
<1> QED BY <1>1, <1>2, <1>3, <1>4, PTL DEF SetupSpec

-----------------------------------------------------------------------------
(* The desktop of profiles: folders and bookmarked apps.                   *)

IsFolder(f) == folder[f] # NoFolder
IsApp(a) == app[a] # NoApp

DesktopTypes ==
  /\ folder \in [Folders -> FolderRow \union {NoFolder}]
  /\ app \in [Apps -> AppRow \union {NoApp}]

\* An app is at the root or in a folder that exists and has its profile.
AppsPlaced ==
  \A a \in Apps : IsApp(a) =>
      \/ app[a].place = Root
      \/ /\ app[a].place \in Folders /\ IsFolder(app[a].place)
         /\ folder[app[a].place].profile = app[a].profile

PublicLinked == \A f \in Folders : IsFolder(f) /\ folder[f].public => folder[f].link # NoLink

\* Links stay apart, public or not, and so do the names in a profile.
LinksApart ==
  \A f, g \in Folders :
      IsFolder(f) /\ IsFolder(g) /\ folder[f].link = folder[g].link /\ folder[f].link # NoLink
          => f = g
NamesApart ==
  \A f, g \in Folders :
      IsFolder(f) /\ IsFolder(g) /\ folder[f].profile = folder[g].profile
          => (folder[f].name = folder[g].name => f = g)

DesktopInv == DesktopTypes /\ AppsPlaced /\ PublicLinked /\ LinksApart /\ NamesApart

\* Rows of either kind differ from their absence, and have their fields.
LEMMA FolderFields ==
  /\ NoFolder \notin FolderRow
  /\ \A row \in FolderRow :
       /\ row.profile \in Owners /\ row.name \in Names /\ row.position \in Position
       /\ row.public \in BOOLEAN /\ row.link \in Links \union {NoLink}
       /\ row = [profile |-> row.profile, name |-> row.name, position |-> row.position,
                 public |-> row.public, link |-> row.link]
  <1>1. \A row \in FolderRow : "profile" \in DOMAIN row
    BY DEF FolderRow
  <1>2. "profile" \notin DOMAIN NoFolder
    BY DEF NoFolder
  <1>3. NoFolder \notin FolderRow
    BY <1>1, <1>2
  <1> QED BY <1>3 DEF FolderRow

LEMMA AppFields ==
  /\ NoApp \notin AppRow
  /\ NoApp.place = Absent
  /\ \A row \in AppRow :
       /\ row.profile \in Owners /\ row.place \in Folders \union {Root}
       /\ row.position \in Position
       /\ row = [profile |-> row.profile, place |-> row.place, position |-> row.position]
  <1>1. \A row \in AppRow : "profile" \in DOMAIN row
    BY DEF AppRow
  <1>2. "profile" \notin DOMAIN NoApp
    BY DEF NoApp
  <1>3. NoApp \notin AppRow
    BY <1>1, <1>2
  <1> QED BY <1>3 DEF AppRow, NoApp

LEMMA FolderRows ==
  ASSUME DesktopTypes, NEW f \in Folders, IsFolder(f)
  PROVE  folder[f] \in FolderRow
  BY DEF DesktopTypes, IsFolder

LEMMA AppRows ==
  ASSUME DesktopTypes, NEW a \in Apps, IsApp(a)
  PROVE  app[a] \in AppRow
  BY DEF DesktopTypes, IsApp

-----------------------------------------------------------------------------
(* Positions.                                                              *)

\* A set of numbers has a least one, and a bounded one a greatest.
LEMMA LeastNumber ==
  ASSUME NEW T \in SUBSET Nat, T # {}
  PROVE  \E n \in T : \A m \in T : n <= m
  <1> DEFINE Below == {0..m : m \in T}
  <1>1. Below \subseteq FiniteSubsetsOf(Nat)
    <2> SUFFICES ASSUME NEW m \in T PROVE IsFiniteSet(0..m)
      BY DEF FiniteSubsetsOf
    <2> QED BY FS_Interval
  <1>2. Below # {}
    OBVIOUS
  <1>3. \E x \in Below : \A y \in Below : ~(<<y, x>> \in StrictSubsetOrdering(Nat))
    BY <1>1, <1>2, FS_StrictSubsetOrderingWellFounded, WFMin
  <1>4. PICK n \in T : \A m \in T : ~(<<0..m, 0..n>> \in StrictSubsetOrdering(Nat))
    BY <1>3
  <1>5. SUFFICES ASSUME NEW m \in T, m < n PROVE FALSE
    OBVIOUS
  <1>6. 0..m \subseteq 0..n /\ 0..m # 0..n /\ 0..m \in SUBSET Nat /\ 0..n \in SUBSET Nat
    BY <1>5
  <1> QED BY <1>4, <1>6 DEF StrictSubsetOrdering

LEMMA GreatestNumber ==
  ASSUME NEW l \in Int, NEW n \in Int, NEW S \in SUBSET (l..n), S # {}
  PROVE  \E m \in S : \A x \in S : m >= x
  <1> DEFINE Bounds == {m \in Nat : \A x \in S : x <= l + m}
  <1>1. n - l \in Bounds
    <2>1. PICK x \in S : TRUE
      OBVIOUS
    <2>2. \A y \in S : y \in Int /\ l <= y /\ y <= n
      OBVIOUS
    <2>3. n - l \in Nat /\ l + (n - l) = n
      BY <2>1, <2>2
    <2> QED BY <2>2, <2>3
  <1>2. PICK m \in Bounds : \A k \in Bounds : m <= k
    <2>1. Bounds \subseteq Nat /\ Bounds # {}
      BY <1>1
    <2> HIDE DEF Bounds
    <2> QED BY <2>1, LeastNumber
  <1>3. l + m \in S
    <2>1. SUFFICES ASSUME l + m \notin S PROVE FALSE
      OBVIOUS
    <2>2. \A x \in S : x \in Int /\ l <= x /\ x <= l + (m - 1)
      BY <2>1
    <2>3. m - 1 \in Nat
      <3>1. PICK x \in S : TRUE
        OBVIOUS
      <3>2. x \in Int /\ l <= x /\ x <= l + (m - 1) /\ m \in Nat
        BY <2>2, <3>1
      <3> QED BY <3>2
    <2>4. m - 1 \in Bounds
      BY <2>2, <2>3
    <2> QED BY <1>2, <2>3, <2>4
  <1>4. \A x \in S : x \in Int /\ x <= l + m
    OBVIOUS
  <1> QED BY <1>3, <1>4

\* The position after the last one is greater than each.
LEMMA AfterLastIsLast ==
  ASSUME NEW S \in SUBSET Position, NEW x \in S
  PROVE  x < AfterLast(S)
  <1>1. /\ MinPosition \in Int /\ MaxPosition \in Int
        /\ S \in SUBSET (MinPosition..MaxPosition) /\ S # {}
    BY DesktopConstants DEF Position
  <1>2. \E m \in S : \A y \in S : m >= y
    BY <1>1, GreatestNumber
  <1>3. Max(S) \in S /\ \A y \in S : Max(S) >= y
    BY <1>2 DEF Max
  <1>4. Max(S) \in Int /\ x \in Int
    <2>1. S \subseteq Int
      BY <1>1
    <2> QED BY <1>3, <2>1
  <1>5. AfterLast(S) = Max(S) + 1
    BY DEF AfterLast
  <1> QED BY <1>3, <1>4, <1>5

\* An order of a set lists each of its elements once, at a number up to its size.
LEMMA OrderPositions ==
  ASSUME NEW S, IsFiniteSet(S), NEW order \in SetToSeqs(S)
  PROVE  /\ ToSet(order) = S
         /\ Len(order) = Cardinality(S) /\ Cardinality(S) \in Nat
         /\ \A x \in S : \E i \in 1..Cardinality(S) : order[i] = x
  <1> DEFINE n == Cardinality(S)
  <1>1. /\ order \in [1..n -> S]
        /\ \A i, j \in 1..n : i # j => order[i] # order[j]
    BY DEF SetToSeqs
  <1>2. n \in Nat /\ IsFiniteSet(1..n) /\ Cardinality(1..n) = n
    <2>1. n \in Nat
      BY FS_CardinalityType
    <2> HIDE DEF n
    <2> QED BY <2>1, FS_Interval
  <1>3. order \in Injection(1..n, S)
    BY <1>1 DEF Injection, IsInjective
  <1>4. order \in Surjection(1..n, S)
    <2> HIDE DEF n
    <2> QED BY <1>2, <1>3, FS_Injection DEF n
  <1>5. \A x \in S : \E i \in 1..n : order[i] = x
    BY <1>4 DEF Surjection
  <1>6. Len(order) = n
    <2> HIDE DEF n
    <2> QED BY <1>1, <1>2
  <1>7. ToSet(order) = S
    BY <1>1, <1>5 DEF ToSet
  <1> QED BY <1>2, <1>5, <1>6, <1>7

\* The positions that a new order gives.
LEMMA ReorderedPosition ==
  ASSUME NEW S, S \subseteq Folders \/ S \subseteq Apps,
         NEW order \in SetToSeqs(S), NEW x \in S
  PROVE  (CHOOSE i \in DOMAIN order : order[i] = x) \in Position
  <1>1. /\ MaxPosition \in Nat
        /\ IsFiniteSet(Folders) /\ Cardinality(Folders) <= MaxPosition
        /\ IsFiniteSet(Apps) /\ Cardinality(Apps) <= MaxPosition
    BY DesktopConstants
  <1>2. IsFiniteSet(S) /\ Cardinality(S) \in Nat /\ Cardinality(S) <= MaxPosition
    <2>1. CASE S \subseteq Folders
      <3>1. IsFiniteSet(S) /\ Cardinality(S) <= Cardinality(Folders)
        BY <1>1, <2>1, FS_Subset
      <3>2. Cardinality(S) \in Nat /\ Cardinality(Folders) \in Nat
        BY <1>1, <3>1, FS_CardinalityType
      <3> QED BY <1>1, <3>1, <3>2
    <2>2. CASE S \subseteq Apps
      <3>1. IsFiniteSet(S) /\ Cardinality(S) <= Cardinality(Apps)
        BY <1>1, <2>2, FS_Subset
      <3>2. Cardinality(S) \in Nat /\ Cardinality(Apps) \in Nat
        BY <1>1, <3>1, FS_CardinalityType
      <3> QED BY <1>1, <3>1, <3>2
    <2> QED BY <2>1, <2>2
  <1>3. DOMAIN order = 1..Cardinality(S)
    BY DEF SetToSeqs
  <1>4. \E i \in DOMAIN order : order[i] = x
    BY <1>2, <1>3, OrderPositions
  <1>5. (CHOOSE i \in DOMAIN order : order[i] = x) \in DOMAIN order
    BY <1>4
  <1>6. \A i \in 1..Cardinality(S) : i \in MinPosition..MaxPosition
    BY <1>1, <1>2, DesktopConstants
  <1> QED BY <1>3, <1>5, <1>6 DEF Position

-----------------------------------------------------------------------------
(* Changes of folders.                                                     *)

\* Folders that keep their profiles keep the apps in place.
LEMMA AppsStayPlaced ==
  ASSUME DesktopTypes, AppsPlaced, UNCHANGED app,
         \A f \in Folders : IsFolder(f) => /\ folder'[f] # NoFolder
                                        /\ folder'[f].profile = folder[f].profile
  PROVE  AppsPlaced'
  BY DEF AppsPlaced, IsFolder, IsApp

\* Rows that keep all but their positions.
LEMMA FoldersMoved ==
  ASSUME DesktopInv, UNCHANGED app, folder' \in [Folders -> FolderRow \union {NoFolder}],
         \A f \in Folders :
             /\ folder'[f] = NoFolder <=> folder[f] = NoFolder
             /\ folder[f] # NoFolder =>
                  /\ folder'[f].profile = folder[f].profile /\ folder'[f].name = folder[f].name
                  /\ folder'[f].public = folder[f].public /\ folder'[f].link = folder[f].link
  PROVE  DesktopInv'
  <1>1. DesktopTypes'
    BY DEF DesktopInv, DesktopTypes
  <1>2. AppsPlaced'
    BY AppsStayPlaced DEF DesktopInv, IsFolder
  <1>3. PublicLinked'
    BY DEF DesktopInv, PublicLinked, IsFolder
  <1>4. LinksApart'
    BY DEF DesktopInv, LinksApart, IsFolder
  <1>5. NamesApart'
    BY DEF DesktopInv, NamesApart, IsFolder
  <1> QED BY <1>1, <1>2, <1>3, <1>4, <1>5 DEF DesktopInv

\* A row of a profile with a link and a name that no other row stands in the way of.
Fits(f, row) ==
  /\ IsFolder(f) => row.profile = folder[f].profile
  /\ row.public => row.link # NoLink
  /\ \A g \in Folders \ {f} : IsFolder(g) =>
       /\ row.link # NoLink => folder[g].link # row.link
       /\ ~(folder[g].profile = row.profile /\ folder[g].name = row.name)

LEMMA FolderWritten ==
  ASSUME DesktopInv, UNCHANGED app, NEW f \in Folders, NEW row \in FolderRow,
         folder' = [folder EXCEPT ![f] = row], Fits(f, row)
  PROVE  DesktopInv'
  <1>1. /\ folder'[f] = row /\ row # NoFolder
        /\ \A g \in Folders \ {f} : folder'[g] = folder[g]
        /\ folder' \in [Folders -> FolderRow \union {NoFolder}]
    BY FolderFields DEF DesktopInv, DesktopTypes
  <1>2. DesktopTypes'
    BY <1>1 DEF DesktopInv, DesktopTypes
  <1>3. AppsPlaced'
    BY <1>1, AppsStayPlaced DEF DesktopInv, IsFolder, Fits
  <1>4. PublicLinked'
    BY <1>1 DEF DesktopInv, PublicLinked, IsFolder, Fits
  <1>5. LinksApart'
    BY <1>1 DEF DesktopInv, LinksApart, IsFolder, Fits
  <1>6. NamesApart'
    BY <1>1 DEF DesktopInv, NamesApart, IsFolder, Fits
  <1> QED BY <1>2, <1>3, <1>4, <1>5, <1>6 DEF DesktopInv

LEMMA NameFree ==
  ASSUME NEW p, NEW name, NEW but, ~NameTaken(p, name, but)
  PROVE  \A g \in Folders \ {but} :
            IsFolder(g) => ~(folder[g].profile = p /\ folder[g].name = name)
  BY DEF NameTaken, FoldersOf, IsFolder

LEMMA CreateFolderKeeps ==
  ASSUME DesktopInv, CreateFolder
  PROVE  DesktopInv'
  <1>1. PICK p \in Owners, name \in Names, position \in Given :
          FoldersService_createFolder(p, name, position)
    BY DEF CreateFolder
  <1> DEFINE at == IF position = <<>>
                   THEN AfterLast({folder[f].position : f \in FoldersOf(p)}) ELSE position[1]
             row == [profile |-> p, name |-> name, position |-> at, public |-> FALSE,
                     link |-> NoLink]
  <1>2. /\ ~NameTaken(p, name, Absent) /\ at \in Position /\ UNCHANGED app
        /\ \E f \in Folders : folder[f] = NoFolder /\ folder' = [folder EXCEPT ![f] = row]
    BY <1>1 DEF FoldersService_createFolder
  <1> HIDE DEF at
  <1>3. PICK f \in Folders : folder[f] = NoFolder /\ folder' = [folder EXCEPT ![f] = row]
    BY <1>2
  <1>4. /\ row \in FolderRow /\ row.profile = p /\ row.name = name
        /\ row.public = FALSE /\ row.link = NoLink
    BY <1>2 DEF FolderRow
  <1>5. \A g \in Folders : IsFolder(g) => ~(folder[g].profile = p /\ folder[g].name = name)
    BY <1>2, NameFree, DesktopConstants
  <1> HIDE DEF row
  <1>6. Fits(f, row)
    BY <1>3, <1>4, <1>5 DEF Fits, IsFolder
  <1> QED BY <1>2, <1>3, <1>4, <1>6, FolderWritten

LEMMA UpdateFolderKeeps ==
  ASSUME DesktopInv, UpdateFolder
  PROVE  DesktopInv'
  <1>1. PICK f \in Folders, name \in Names : FoldersService_updateFolder(f, name)
    BY DEF UpdateFolder
  <1> DEFINE row == [folder[f] EXCEPT !.name = name]
  <1>2. /\ IsFolder(f) /\ ~NameTaken(folder[f].profile, name, f) /\ UNCHANGED app
        /\ folder' = [folder EXCEPT ![f] = row]
    BY <1>1 DEF FoldersService_updateFolder, IsFolder
  <1>3. folder[f] \in FolderRow
    BY <1>2, FolderRows DEF DesktopInv
  <1>4. /\ row \in FolderRow /\ row.profile = folder[f].profile /\ row.name = name
        /\ row.public = folder[f].public /\ row.link = folder[f].link
    BY <1>3 DEF FolderRow
  <1>5. \A g \in Folders \ {f} :
          IsFolder(g) => ~(folder[g].profile = row.profile /\ folder[g].name = row.name)
    BY <1>2, <1>4, NameFree
  <1>6. /\ row.public => row.link # NoLink
        /\ \A g \in Folders \ {f} : IsFolder(g) =>
             (row.link # NoLink => folder[g].link # row.link)
    BY <1>2, <1>4 DEF DesktopInv, PublicLinked, LinksApart
  <1> HIDE DEF row
  <1>7. Fits(f, row)
    BY <1>4, <1>5, <1>6 DEF Fits
  <1> QED BY <1>2, <1>4, <1>7, FolderWritten

LEMMA ShareFolderKeeps ==
  ASSUME DesktopInv, ShareFolder
  PROVE  DesktopInv'
  <1>1. PICK f \in Folders : FoldersService_shareFolder(f)
    BY DEF ShareFolder
  <1>2. IsFolder(f) /\ UNCHANGED app
    BY <1>1 DEF FoldersService_shareFolder, IsFolder
  <1>3. PICK l \in (IF folder[f].link = NoLink THEN Unused ELSE {folder[f].link}) :
          folder' = [folder EXCEPT ![f].public = TRUE, ![f].link = l]
    BY <1>1 DEF FoldersService_shareFolder
  <1> DEFINE row == [folder[f] EXCEPT !.public = TRUE, !.link = l]
  <1>4. folder[f] \in FolderRow /\ folder \in [Folders -> FolderRow \union {NoFolder}]
    BY <1>2, FolderRows DEF DesktopInv, DesktopTypes
  <1>5. folder' = [folder EXCEPT ![f] = row]
    BY <1>3, <1>4
  <1>6. /\ l \in Links
        /\ \A g \in Folders \ {f} : IsFolder(g) => folder[g].link # l
    <2>1. CASE folder[f].link = NoLink
      BY <1>3, <2>1 DEF Unused, IsFolder
    <2>2. CASE folder[f].link # NoLink
      BY <1>2, <1>3, <1>4, <2>2, FolderFields DEF DesktopInv, LinksApart
    <2> QED BY <2>1, <2>2
  <1>7. /\ row \in FolderRow /\ row.profile = folder[f].profile /\ row.name = folder[f].name
        /\ row.link = l
    BY <1>4, <1>6 DEF FolderRow
  <1>8. row.link # NoLink
    BY <1>6, <1>7, DesktopConstants
  <1>9. \A g \in Folders \ {f} :
          IsFolder(g) => ~(folder[g].profile = row.profile /\ folder[g].name = row.name)
    BY <1>2, <1>7 DEF DesktopInv, NamesApart
  <1> HIDE DEF row
  <1>10. Fits(f, row)
    BY <1>6, <1>7, <1>8, <1>9 DEF Fits
  <1> QED BY <1>2, <1>5, <1>7, <1>10, FolderWritten

LEMMA UnshareFolderKeeps ==
  ASSUME DesktopInv, UnshareFolder
  PROVE  DesktopInv'
  <1>1. PICK f \in Folders : FoldersService_unshareFolder(f)
    BY DEF UnshareFolder
  <1> DEFINE row == [folder[f] EXCEPT !.public = FALSE]
  <1>2. IsFolder(f) /\ UNCHANGED app /\ folder' = [folder EXCEPT ![f] = row]
    BY <1>1 DEF FoldersService_unshareFolder, IsFolder
  <1>3. folder[f] \in FolderRow
    BY <1>2, FolderRows DEF DesktopInv
  <1>4. /\ row \in FolderRow /\ row.profile = folder[f].profile /\ row.name = folder[f].name
        /\ row.public = FALSE /\ row.link = folder[f].link
    BY <1>3 DEF FolderRow
  <1>5. \A g \in Folders \ {f} : IsFolder(g) =>
          /\ row.link # NoLink => folder[g].link # row.link
          /\ ~(folder[g].profile = row.profile /\ folder[g].name = row.name)
    BY <1>2, <1>4 DEF DesktopInv, LinksApart, NamesApart
  <1> HIDE DEF row
  <1>6. Fits(f, row)
    BY <1>4, <1>5 DEF Fits
  <1> QED BY <1>2, <1>4, <1>6, FolderWritten

LEMMA ReorderFoldersKeeps ==
  ASSUME DesktopInv, ReorderFolders
  PROVE  DesktopInv'
  <1>1. PICK p \in Owners : \E chosen \in SUBSET FoldersOf(p) :
          \E order \in SetToSeqs(chosen) : FoldersService_reorderFolders(p, order)
    BY DEF ReorderFolders
  <1>2. PICK chosen \in SUBSET FoldersOf(p) :
          \E order \in SetToSeqs(chosen) : FoldersService_reorderFolders(p, order)
    BY <1>1
  <1>3. PICK order \in SetToSeqs(chosen) : FoldersService_reorderFolders(p, order)
    BY <1>2
  <1>4. chosen \subseteq Folders /\ \A f \in chosen : IsFolder(f)
    BY DEF FoldersOf, IsFolder
  <1>5. ToSet(order) = chosen
    <2>1. IsFiniteSet(chosen)
      BY <1>4, DesktopConstants, FS_Subset
    <2> QED BY <2>1, OrderPositions
  <1> DEFINE at(f) == CHOOSE i \in DOMAIN order : order[i] = f
  <1>6. /\ UNCHANGED app
        /\ folder' = [f \in Folders |->
               IF f \in chosen THEN [folder[f] EXCEPT !.position = at(f)] ELSE folder[f]]
    BY <1>3, <1>5 DEF FoldersService_reorderFolders
  <1>7. \A f \in chosen : at(f) \in Position
    BY <1>4, ReorderedPosition
  <1> HIDE DEF at
  <1>8. ASSUME NEW f \in Folders
        PROVE  /\ folder'[f] \in FolderRow \union {NoFolder}
               /\ folder'[f] = NoFolder <=> folder[f] = NoFolder
               /\ folder[f] # NoFolder =>
                    /\ folder'[f].profile = folder[f].profile /\ folder'[f].name = folder[f].name
                    /\ folder'[f].public = folder[f].public /\ folder'[f].link = folder[f].link
    <2>1. CASE f \in chosen
      <3>1. folder'[f] = [folder[f] EXCEPT !.position = at(f)]
        BY <1>6, <2>1
      <3>2. folder[f] \in FolderRow /\ at(f) \in Position
        BY <1>4, <1>7, <2>1, FolderRows DEF DesktopInv
      <3> DEFINE row == [folder[f] EXCEPT !.position = at(f)]
      <3>3. /\ row \in FolderRow /\ row.profile = folder[f].profile
            /\ row.name = folder[f].name /\ row.public = folder[f].public
            /\ row.link = folder[f].link
        BY <3>2 DEF FolderRow
      <3> HIDE DEF row
      <3> QED BY <3>1, <3>2, <3>3, FolderFields DEF row
    <2>2. CASE f \notin chosen
      BY <1>6, <2>2 DEF DesktopInv, DesktopTypes
    <2> QED BY <2>1, <2>2
  <1>9. folder' \in [Folders -> FolderRow \union {NoFolder}]
    BY <1>6, <1>8
  <1> QED BY <1>6, <1>8, <1>9, FoldersMoved

\* The apps of a deleted folder are at the root; all others keep their folder.
LEMMA DeleteFolderKeeps ==
  ASSUME DesktopInv, DeleteFolder
  PROVE  DesktopInv'
  <1>1. PICK f \in Folders : FoldersService_deleteFolder(f)
    BY DEF DeleteFolder
  <1>2. /\ IsFolder(f) /\ folder' = [folder EXCEPT ![f] = NoFolder]
        /\ app' = [a \in Apps |-> IF app[a].place = f THEN [app[a] EXCEPT !.place = Root]
                                  ELSE app[a]]
    BY <1>1 DEF FoldersService_deleteFolder, IsFolder
  <1>3. f # Root /\ f # Absent
    BY DesktopConstants
  <1>4. /\ folder' \in [Folders -> FolderRow \union {NoFolder}]
        /\ folder'[f] = NoFolder
        /\ \A g \in Folders \ {f} : folder'[g] = folder[g]
    BY <1>2 DEF DesktopInv, DesktopTypes
  <1>5. ASSUME NEW a \in Apps
        PROVE  /\ app'[a] \in AppRow \union {NoApp}
               /\ app'[a] # NoApp <=> IsApp(a)
               /\ IsApp(a) =>
                    /\ app'[a].profile = app[a].profile
                    /\ app'[a].place = IF app[a].place = f THEN Root ELSE app[a].place
    <2>1. CASE app[a].place = f
      <3>1. app'[a] = [app[a] EXCEPT !.place = Root]
        BY <1>2, <2>1
      <3>2. app[a] \in AppRow /\ IsApp(a)
        BY <1>3, <2>1, AppFields, AppRows DEF DesktopInv, DesktopTypes, IsApp
      <3> DEFINE row == [app[a] EXCEPT !.place = Root]
      <3>3. row \in AppRow /\ row.profile = app[a].profile /\ row.place = Root
        BY <3>2 DEF AppRow
      <3> HIDE DEF row
      <3> QED BY <2>1, <3>1, <3>2, <3>3, AppFields DEF row, IsApp
    <2>2. CASE app[a].place # f
      BY <1>2, <2>2 DEF DesktopInv, DesktopTypes, IsApp
    <2> QED BY <2>1, <2>2
  <1>6. app' \in [Apps -> AppRow \union {NoApp}]
    BY <1>2, <1>5
  <1>7. DesktopTypes'
    BY <1>4, <1>6 DEF DesktopTypes
  <1>8. AppsPlaced'
    <2> SUFFICES ASSUME NEW a \in Apps, app'[a] # NoApp, app'[a].place # Root
                 PROVE  /\ app'[a].place \in Folders /\ folder'[app'[a].place] # NoFolder
                        /\ folder'[app'[a].place].profile = app'[a].profile
      BY DEF AppsPlaced, IsApp, IsFolder
    <2>1. IsApp(a) /\ app'[a].profile = app[a].profile /\ app'[a].place = app[a].place
          /\ app[a].place # f /\ app[a].place # Root
      BY <1>5
    <2>2. /\ app[a].place \in Folders /\ IsFolder(app[a].place)
          /\ folder[app[a].place].profile = app[a].profile
      BY <2>1 DEF DesktopInv, AppsPlaced
    <2>3. folder'[app[a].place] = folder[app[a].place]
      BY <1>4, <2>1, <2>2
    <2> QED BY <2>1, <2>2, <2>3 DEF IsFolder
  <1>9. \A g \in Folders : folder'[g] # NoFolder => IsFolder(g) /\ folder'[g] = folder[g]
    BY <1>4 DEF IsFolder
  <1>10. PublicLinked'
    BY <1>9 DEF DesktopInv, PublicLinked, IsFolder
  <1>11. LinksApart'
    BY <1>9 DEF DesktopInv, LinksApart, IsFolder
  <1>12. NamesApart'
    <2> SUFFICES ASSUME NEW g \in Folders, NEW h \in Folders,
                        folder'[g] # NoFolder, folder'[h] # NoFolder,
                        folder'[g].profile = folder'[h].profile,
                        folder'[g].name = folder'[h].name
                 PROVE  g = h
      BY DEF NamesApart, IsFolder
    <2> QED BY <1>9 DEF DesktopInv, NamesApart
  <1> QED BY <1>7, <1>8, <1>10, <1>11, <1>12 DEF DesktopInv

-----------------------------------------------------------------------------
(* Changes of apps.                                                        *)

\* Folders do not change, and every app is of a profile and in a valid place.
LEMMA AppsChanged ==
  ASSUME DesktopInv, UNCHANGED folder, app' \in [Apps -> AppRow \union {NoApp}],
         \A a \in Apps : app'[a] # NoApp =>
             ValidPlace(app'[a].profile, app'[a].place)
  PROVE  DesktopInv'
  <1>1. DesktopTypes'
    BY DEF DesktopInv, DesktopTypes
  <1>2. AppsPlaced'
    BY DEF AppsPlaced, ValidPlace, FoldersOf, IsApp, IsFolder
  <1>3. PublicLinked' /\ LinksApart' /\ NamesApart'
    BY DEF DesktopInv, PublicLinked, LinksApart, NamesApart, IsFolder
  <1> QED BY <1>1, <1>2, <1>3 DEF DesktopInv

\* Where an app is, it may be.
LEMMA PlaceValid ==
  ASSUME DesktopInv, NEW a \in Apps, IsApp(a)
  PROVE  ValidPlace(app[a].profile, app[a].place)
  BY DEF DesktopInv, AppsPlaced, ValidPlace, FoldersOf, IsFolder

\* One app is written.
LEMMA AppWritten ==
  ASSUME DesktopInv, UNCHANGED folder, NEW a \in Apps, NEW row \in AppRow,
         app' = [app EXCEPT ![a] = row], ValidPlace(row.profile, row.place)
  PROVE  DesktopInv'
  <1>1. /\ app' \in [Apps -> AppRow \union {NoApp}] /\ app'[a] = row
        /\ \A b \in Apps \ {a} : app'[b] = app[b]
    BY DEF DesktopInv, DesktopTypes
  <1>2. ASSUME NEW b \in Apps, app'[b] # NoApp
        PROVE  ValidPlace(app'[b].profile, app'[b].place)
    <2>1. CASE b = a
      BY <1>1, <2>1
    <2>2. CASE b # a
      BY <1>1, <1>2, <2>2, PlaceValid DEF IsApp
    <2> QED BY <2>1, <2>2
  <1> QED BY <1>1, <1>2, AppsChanged

LEMMA CreateAppKeeps ==
  ASSUME DesktopInv, CreateApp
  PROVE  DesktopInv'
  <1>1. PICK p \in Owners, place \in Folders \union {Root}, position \in Given :
          AppsService_createApp(p, place, position)
    BY DEF CreateApp
  <1> DEFINE at == IF position = <<>>
                   THEN AfterLast({app[a].position : a \in AppsIn(p, place)}) ELSE position[1]
             row == [profile |-> p, place |-> place, position |-> at]
  <1>2. /\ ValidPlace(p, place) /\ at \in Position /\ UNCHANGED folder
        /\ \E a \in Apps : app[a] = NoApp /\ app' = [app EXCEPT ![a] = row]
    BY <1>1 DEF AppsService_createApp
  <1> HIDE DEF at
  <1>3. row \in AppRow /\ row.profile = p /\ row.place = place
    BY <1>2 DEF AppRow
  <1> HIDE DEF row
  <1> QED BY <1>2, <1>3, AppWritten

LEMMA DeleteAppKeeps ==
  ASSUME DesktopInv, DeleteApp
  PROVE  DesktopInv'
  <1>1. PICK a \in Apps : AppsService_deleteApp(a)
    BY DEF DeleteApp
  <1>2. UNCHANGED folder /\ app' = [app EXCEPT ![a] = NoApp]
    BY <1>1 DEF AppsService_deleteApp
  <1>3. /\ app' \in [Apps -> AppRow \union {NoApp}]
        /\ \A b \in Apps : app'[b] # NoApp => app'[b] = app[b]
    BY <1>2 DEF DesktopInv, DesktopTypes
  <1> QED BY <1>2, <1>3, PlaceValid, AppsChanged DEF IsApp

LEMMA ReorderAppsKeeps ==
  ASSUME DesktopInv, ReorderApps
  PROVE  DesktopInv'
  <1>1. PICK p \in Owners : \E chosen \in SUBSET AppsIn(p, Root) :
          \E order \in SetToSeqs(chosen) : AppsService_reorderApps(p, order, Root)
    BY DEF ReorderApps
  <1>2. PICK chosen \in SUBSET AppsIn(p, Root) :
          \E order \in SetToSeqs(chosen) : AppsService_reorderApps(p, order, Root)
    BY <1>1
  <1>3. PICK order \in SetToSeqs(chosen) : AppsService_reorderApps(p, order, Root)
    BY <1>2
  <1>4. chosen \subseteq Apps /\ \A a \in chosen : IsApp(a)
    BY DEF AppsIn, IsApp
  <1>5. ToSet(order) = chosen
    <2>1. IsFiniteSet(chosen)
      BY <1>4, DesktopConstants, FS_Subset
    <2> QED BY <2>1, OrderPositions
  <1> DEFINE at(a) == CHOOSE i \in DOMAIN order : order[i] = a
  <1>6. /\ UNCHANGED folder
        /\ app' = [a \in Apps |->
               IF a \in chosen THEN [app[a] EXCEPT !.position = at(a)] ELSE app[a]]
    BY <1>3, <1>5 DEF AppsService_reorderApps
  <1>7. \A a \in chosen : at(a) \in Position
    BY <1>4, ReorderedPosition
  <1> HIDE DEF at
  <1>8. ASSUME NEW a \in Apps
        PROVE  /\ app'[a] \in AppRow \union {NoApp}
               /\ app'[a] # NoApp =>
                    IsApp(a) /\ app'[a].profile = app[a].profile /\ app'[a].place = app[a].place
    <2>1. CASE a \in chosen
      <3> DEFINE row == [app[a] EXCEPT !.position = at(a)]
      <3>1. app'[a] = row
        BY <1>6, <2>1
      <3>2. app[a] \in AppRow /\ at(a) \in Position
        BY <1>4, <1>7, <2>1, AppRows DEF DesktopInv
      <3>3. row \in AppRow /\ row.profile = app[a].profile /\ row.place = app[a].place
        BY <3>2 DEF AppRow
      <3> HIDE DEF row
      <3> QED BY <1>4, <2>1, <3>1, <3>3
    <2>2. CASE a \notin chosen
      BY <1>6, <2>2 DEF DesktopInv, DesktopTypes, IsApp
    <2> QED BY <2>1, <2>2
  <1>9. app' \in [Apps -> AppRow \union {NoApp}]
    BY <1>6, <1>8
  <1>10. \A a \in Apps : app'[a] # NoApp => ValidPlace(app'[a].profile, app'[a].place)
    BY <1>8, PlaceValid
  <1> QED BY <1>6, <1>9, <1>10, AppsChanged

\* What a move writes.
LEMMA MovedRow ==
  ASSUME DesktopInv, NEW a \in Apps, NEW place, AppsService_moveAppToFolder(a, place)
  PROVE  LET p == app[a].profile
             there == IF place = Absent THEN AppsOf(p) ELSE AppsIn(p, place)
             to == IF place = Absent THEN app[a].place ELSE place
             at == AfterLast({app[b].position : b \in there})
             row == [profile |-> p, place |-> to, position |-> at]
         IN  /\ IsApp(a) /\ at \in Position /\ UNCHANGED folder
             /\ app' = [app EXCEPT ![a] = row]
             /\ row \in AppRow /\ ValidPlace(p, to)
             /\ app' \in [Apps -> AppRow \union {NoApp}]
  <1> DEFINE p == app[a].profile
             there == IF place = Absent THEN AppsOf(p) ELSE AppsIn(p, place)
             to == IF place = Absent THEN app[a].place ELSE place
             at == AfterLast({app[b].position : b \in there})
             row == [profile |-> p, place |-> to, position |-> at]
  <1>1. /\ IsApp(a) /\ at \in Position /\ UNCHANGED folder
        /\ place # Absent => ValidPlace(p, place)
        /\ app' = [app EXCEPT ![a] = row]
    BY DEF AppsService_moveAppToFolder, IsApp
  <1>2. ValidPlace(p, to)
    BY <1>1, PlaceValid
  <1>3. to \in Folders \union {Root}
    BY <1>2 DEF ValidPlace, FoldersOf
  <1>4. p \in Owners
    BY <1>1, AppRows, AppFields DEF DesktopInv
  <1>5. row \in AppRow
    <2> HIDE DEF p, to, at
    <2> QED BY <1>1, <1>3, <1>4 DEF AppRow
  <1>6. app' \in [Apps -> AppRow \union {NoApp}]
    <2> HIDE DEF row
    <2> QED BY <1>1, <1>5 DEF DesktopInv, DesktopTypes
  <1> QED BY <1>1, <1>2, <1>5, <1>6

LEMMA MoveAppKeeps ==
  ASSUME DesktopInv, MoveAppToFolder
  PROVE  DesktopInv'
  <1>1. PICK a \in Apps, place \in Folders \union {Root, Absent} :
          AppsService_moveAppToFolder(a, place)
    BY DEF MoveAppToFolder
  <1> DEFINE p == app[a].profile
             there == IF place = Absent THEN AppsOf(p) ELSE AppsIn(p, place)
             to == IF place = Absent THEN app[a].place ELSE place
             at == AfterLast({app[b].position : b \in there})
             row == [profile |-> p, place |-> to, position |-> at]
  <1>2. /\ UNCHANGED folder /\ app' = [app EXCEPT ![a] = row]
        /\ row \in AppRow /\ ValidPlace(p, to)
    BY <1>1, MovedRow
  <1> HIDE DEF p, to, at
  <1>3. ValidPlace(row.profile, row.place)
    BY <1>2
  <1> HIDE DEF row
  <1> QED BY <1>2, <1>3, AppWritten

-----------------------------------------------------------------------------
(* Theorems about the desktop.                                             *)

LEMMA DesktopStart == Init => DesktopInv
  <1> SUFFICES ASSUME Init PROVE DesktopInv
    OBVIOUS
  <1>1. folder = [f \in Folders |-> NoFolder] /\ app = [a \in Apps |-> NoApp]
    BY DEF Init
  <1>2. DesktopTypes
    BY <1>1 DEF DesktopTypes
  <1>3. (\A f \in Folders : ~IsFolder(f)) /\ (\A a \in Apps : ~IsApp(a))
    BY <1>1 DEF IsFolder, IsApp
  <1>4. AppsPlaced /\ PublicLinked
    BY <1>3 DEF AppsPlaced, PublicLinked
  <1>5. LinksApart /\ NamesApart
    BY <1>3 DEF LinksApart, NamesApart
  <1> QED BY <1>2, <1>4, <1>5 DEF DesktopInv

LEMMA DesktopStep ==
  DesktopInv /\ [Next]_(vars) => DesktopInv'
  <1> SUFFICES ASSUME DesktopInv, [Next]_(vars) PROVE DesktopInv'
    OBVIOUS
  <1>1. CASE UNCHANGED vars
    <2>1. UNCHANGED <<folder, app>>
      BY <1>1 DEF vars
    <2> QED BY <2>1 DEF DesktopInv, DesktopTypes, AppsPlaced, PublicLinked, LinksApart,
                        NamesApart, IsFolder, IsApp
  <1>2. CASE CreateFolder
    BY <1>2, CreateFolderKeeps
  <1>3. CASE UpdateFolder
    BY <1>3, UpdateFolderKeeps
  <1>4. CASE DeleteFolder
    BY <1>4, DeleteFolderKeeps
  <1>5. CASE ReorderFolders
    BY <1>5, ReorderFoldersKeeps
  <1>6. CASE ShareFolder
    BY <1>6, ShareFolderKeeps
  <1>7. CASE UnshareFolder
    BY <1>7, UnshareFolderKeeps
  <1>8. CASE CreateApp
    BY <1>8, CreateAppKeeps
  <1>9. CASE DeleteApp
    BY <1>9, DeleteAppKeeps
  <1>10. CASE ReorderApps
    BY <1>10, ReorderAppsKeeps
  <1>11. CASE MoveAppToFolder
    BY <1>11, MoveAppKeeps
  <1> QED BY <1>1, <1>2, <1>3, <1>4, <1>5, <1>6, <1>7, <1>8, <1>9, <1>10, <1>11 DEF Next

LEMMA DesktopInvariance ==
  Spec => []DesktopInv
  <1>1. Init => DesktopInv
    BY DesktopStart
  <1>2. DesktopInv /\ [Next]_(vars) => DesktopInv'
    BY DesktopStep
  <1> QED BY <1>1, <1>2, PTL DEF Spec

\* Folders that are all the same are one at most.
LEMMA OneAtMost ==
  ASSUME NEW S, \A x, y \in S : x = y
  PROVE  Cardinality(S) <= 1
  <1>1. CASE S = {}
    BY <1>1, FS_EmptySet
  <1>2. CASE S # {}
    <2>1. PICK x \in S : TRUE
      BY <1>2
    <2>2. S = {x}
      BY <2>1
    <2>3. Cardinality({x}) = 1
      BY FS_Singleton
    <2> QED BY <2>2, <2>3
  <1> QED BY <1>1, <1>2

\* An app is in a folder of its profile, or at the root, whatever is moved or
\* deleted; and a link that is shared leads to one folder (DesktopTypeOK).
THEOREM DesktopIsTyped ==
  Spec => []DesktopTypeOK
  <1>1. ASSUME DesktopInv PROVE DesktopTypeOK
    <2>1. \A p \in Owners : \A a \in AppsOf(p) : app[a].place \in FoldersOf(p) \union {Root}
      BY <1>1 DEF DesktopInv, AppsPlaced, AppsOf, FoldersOf, IsApp, IsFolder
    <2>2. \A p \in Owners : \A f \in FoldersOf(p) :
            folder[f].public => folder[f].link # NoLink
      BY <1>1 DEF DesktopInv, PublicLinked, FoldersOf, IsFolder
    <2>3. ASSUME NEW l \in Links PROVE Cardinality(GetSharedFolder(l)) <= 1
      <3>1. l # NoLink
        BY DesktopConstants
      <3>2. \A f, g \in GetSharedFolder(l) : f = g
        BY <1>1, <3>1 DEF DesktopInv, LinksApart, GetSharedFolder, IsFolder
      <3> QED BY <3>2, OneAtMost
    <2> QED BY <1>1, <2>1, <2>2, <2>3 DEF DesktopInv, DesktopTypes, DesktopTypeOK
  <1>2. Spec => []DesktopInv
    BY DesktopInvariance
  <1>3. DesktopInv => DesktopTypeOK
    BY <1>1
  <1> QED BY <1>2, <1>3, PTL

\* No two folders of a profile have the same name, though only the checks of
\* createFolder and updateFolder keep them apart (FoldersNamedApart).
THEOREM FoldersAreNamedApart ==
  Spec => []FoldersNamedApart
  <1>1. DesktopInv => FoldersNamedApart
    BY DEF DesktopInv, NamesApart, FoldersNamedApart, FoldersOf, IsFolder
  <1>2. Spec => []DesktopInv
    BY DesktopInvariance
  <1> QED BY <1>1, <1>2, PTL

-----------------------------------------------------------------------------
(* What is added or moved is listed last.                                  *)

\* In a list without repetitions, sorted by a measure, what has the greatest
\* measure is last.
LEMMA GreatestIsLast ==
  ASSUME NEW S, IsFiniteSet(S), NEW q \in SetToSeqs(S), NEW x \in S,
         NEW at \in [S -> Int], \A y \in S \ {x} : at[y] < at[x],
         \A i, j \in DOMAIN q : i < j => at[q[i]] <= at[q[j]]
  PROVE  Last(q) = x
  <1>1. /\ Len(q) = Cardinality(S) /\ Cardinality(S) \in Nat
        /\ \E i \in 1..Cardinality(S) : q[i] = x
    BY OrderPositions
  <1>2. DOMAIN q = 1..Cardinality(S) /\ q \in [1..Cardinality(S) -> S]
    BY DEF SetToSeqs
  <1> DEFINE n == Cardinality(S)
  <1>3. PICK i \in 1..n : q[i] = x
    BY <1>1
  <1> HIDE DEF n
  <1>4. n \in Nat /\ DOMAIN q = 1..n /\ q \in [1..n -> S] /\ Len(q) = n
    BY <1>1, <1>2 DEF n
  <1>5. n \in 1..n
    BY <1>3, <1>4
  <1>6. q[n] = x
    <2>1. SUFFICES ASSUME q[n] # x PROVE FALSE
      OBVIOUS
    <2>2. i < n
      BY <1>3, <1>4, <2>1
    <2>3. at[x] <= at[q[n]]
      BY <1>3, <1>4, <1>5, <2>2
    <2>4. q[n] \in S \ {x}
      BY <1>4, <1>5, <2>1
    <2> QED BY <2>3, <2>4
  <1> QED BY <1>4, <1>6 DEF Last

\* A moved app is behind all that are in the place it comes to.
LEMMA MoveIsToEnd ==
  ASSUME DesktopInv, NEW a \in Apps,
         NEW place \in Folders \union {Root, Absent}, AppsService_moveAppToFolder(a, place),
         NEW q \in SortedApps(AppsIn(app[a].profile, app[a].place))'
  PROVE  Last(q) = a
  <1> DEFINE p == app[a].profile
             there == IF place = Absent THEN AppsOf(p) ELSE AppsIn(p, place)
             to == IF place = Absent THEN app[a].place ELSE place
             taken == {app[b].position : b \in there}
             at == AfterLast(taken)
             row == [profile |-> p, place |-> to, position |-> at]
  <1>1. /\ IsApp(a) /\ at \in Position
        /\ app' = [app EXCEPT ![a] = row]
        /\ row \in AppRow
        /\ app' \in [Apps -> AppRow \union {NoApp}]
    BY MovedRow
  <1>2. app \in [Apps -> AppRow \union {NoApp}]
    BY DEF DesktopInv, DesktopTypes
  <1>3. /\ app'[a] = row
        /\ \A b \in Apps \ {a} : app'[b] = app[b]
    <2> HIDE DEF row
    <2> QED BY <1>1, <1>2
  <1> DEFINE S == AppsIn(app[a].profile, app[a].place)'
  <1>4. /\ app'[a].profile = p /\ app'[a].place = to /\ app'[a].position = at
    BY <1>3
  <1>5. \A b \in S : b \in Apps /\ app'[b] \in AppRow
    BY <1>1 DEF AppsIn
  <1>6. a \in S
    BY <1>1, <1>3, <1>4, AppFields DEF AppsIn
  <1>7. \A b \in S \ {a} : b \in there /\ app'[b] = app[b]
    BY <1>3 DEF AppsIn, AppsOf
  <1>8. \A b \in there : app[b].position \in taken /\ app[b] \in AppRow
    BY <1>2 DEF AppsIn, AppsOf
  <1>9. taken \in SUBSET Position
    BY <1>8, AppFields
  <1>10. \A x \in taken : x < at
    <2> HIDE DEF taken
    <2> QED BY <1>9, AfterLastIsLast
  <1>11. \A b \in S \ {a} : app'[b].position < app'[a].position
    BY <1>4, <1>7, <1>8, <1>10
  <1>12. Position \subseteq Int
    BY DesktopConstants DEF Position
  <1> DEFINE measure == [b \in S |-> app'[b].position]
  <1>13. measure \in [S -> Int] /\ \A b \in S : measure[b] = app'[b].position
    BY <1>5, <1>12, AppFields
  <1>14. /\ q \in SetToSeqs(S)
         /\ \A i, j \in DOMAIN q : i < j => app'[q[i]].position <= app'[q[j]].position
    BY <1>4 DEF SortedApps
  <1>15. IsFiniteSet(S)
    BY <1>5, DesktopConstants, FS_Subset
  <1>16. DOMAIN q = 1..Cardinality(S) /\ q \in [1..Cardinality(S) -> S]
    BY <1>14 DEF SetToSeqs
  <1> HIDE DEF S, measure
  <1>17. /\ \A b \in S \ {a} : measure[b] < measure[a]
         /\ \A i, j \in DOMAIN q : i < j => measure[q[i]] <= measure[q[j]]
    BY <1>6, <1>11, <1>13, <1>14, <1>16
  <1> QED BY <1>6, <1>13, <1>14, <1>15, <1>17, GreatestIsLast

\* So is a new folder behind the folders of its profile.
LEMMA CreationIsAtEnd ==
  ASSUME DesktopInv, NEW p \in Owners, NEW name \in Names,
         FoldersService_createFolder(p, name, <<>>),
         NEW f \in FoldersOf(p)' \ FoldersOf(p), NEW q \in GetProfileFolders(p)'
  PROVE  Last(q) = f
  <1> DEFINE taken == {folder[g].position : g \in FoldersOf(p)}
             at == AfterLast(taken)
             row == [profile |-> p, name |-> name, position |-> at, public |-> FALSE,
                     link |-> NoLink]
  <1>1. /\ at \in Position
        /\ \E g \in Folders : folder[g] = NoFolder /\ folder' = [folder EXCEPT ![g] = row]
    BY DEF FoldersService_createFolder
  <1>2. folder \in [Folders -> FolderRow \union {NoFolder}]
    BY DEF DesktopInv, DesktopTypes
  <1>3. row \in FolderRow /\ row.position = at
    BY <1>1 DEF FolderRow
  <1>4. PICK g \in Folders : folder[g] = NoFolder /\ folder' = [folder EXCEPT ![g] = row]
    BY <1>1
  <1>5. /\ folder'[g] = row
        /\ \A h \in Folders \ {g} : folder'[h] = folder[h]
        /\ folder' \in [Folders -> FolderRow \union {NoFolder}]
    <2> HIDE DEF row
    <2> QED BY <1>2, <1>3, <1>4
  <1>6. f = g
    BY <1>5 DEF FoldersOf
  <1> DEFINE S == FoldersOf(p)'
  <1>7. \A h \in S : h \in Folders /\ folder'[h] \in FolderRow
    BY <1>5 DEF FoldersOf
  <1>8. f \in S
    OBVIOUS
  <1>9. \A h \in S \ {f} : h \in FoldersOf(p) /\ folder'[h] = folder[h]
    BY <1>5, <1>6 DEF FoldersOf
  <1>10. \A h \in FoldersOf(p) : folder[h].position \in taken /\ folder[h] \in FolderRow
    BY <1>2 DEF FoldersOf
  <1>11. taken \in SUBSET Position
    BY <1>10, FolderFields
  <1>12. \A x \in taken : x < at
    <2> HIDE DEF taken
    <2> QED BY <1>11, AfterLastIsLast
  <1>13. folder'[f].position = at
    BY <1>3, <1>5, <1>6
  <1>14. \A h \in S \ {f} : folder'[h].position < folder'[f].position
    BY <1>9, <1>10, <1>12, <1>13
  <1>15. Position \subseteq Int
    BY DesktopConstants DEF Position
  <1> DEFINE measure == [h \in S |-> folder'[h].position]
  <1>16. measure \in [S -> Int] /\ \A h \in S : measure[h] = folder'[h].position
    BY <1>7, <1>15, FolderFields
  <1>17. /\ q \in SetToSeqs(S)
         /\ \A i, j \in DOMAIN q : i < j => folder'[q[i]].position <= folder'[q[j]].position
    BY DEF GetProfileFolders
  <1>18. IsFiniteSet(S)
    BY <1>7, DesktopConstants, FS_Subset
  <1>19. DOMAIN q = 1..Cardinality(S) /\ q \in [1..Cardinality(S) -> S]
    BY <1>17 DEF SetToSeqs
  <1> HIDE DEF S, measure
  <1>20. /\ \A h \in S \ {f} : measure[h] < measure[f]
         /\ \A i, j \in DOMAIN q : i < j => measure[q[i]] <= measure[q[j]]
    BY <1>8, <1>14, <1>16, <1>17, <1>19
  <1> QED BY <1>8, <1>16, <1>17, <1>18, <1>20, GreatestIsLast

\* "When moved to a new location, the app is placed at the end"
\* (api-sequence/2-apps-management.md:453), and a new folder too, in any order
\* that the query may give rows of equal positions (PlacedAtEnd).
THEOREM MovesAreToTheEnd ==
  Spec => PlacedAtEnd
  <1>1. ASSUME DesktopInv PROVE MovedToEnd
    <2> SUFFICES ASSUME NEW a \in Apps, NEW place \in Folders \union {Root, Absent},
                        AppsService_moveAppToFolder(a, place)
                 PROVE  /\ \A f \in FoldersOf(app[a].profile) : app'[a].place = f =>
                             \A q \in GetFolderApps(f, app[a].profile)' : Last(q) = a
                        /\ app'[a].place = Root =>
                             \A q \in GetRootApps(app[a].profile)' : Last(q) = a
      BY DEF MovedToEnd
    <2>1. \A q \in SortedApps(AppsIn(app[a].profile, app[a].place))' : Last(q) = a
      BY <1>1, MoveIsToEnd
    <2> QED BY <2>1 DEF GetFolderApps, GetRootApps
  <1>2. ASSUME DesktopInv PROVE AddedAtEnd
    BY <1>2, CreationIsAtEnd DEF AddedAtEnd
  <1>3. DesktopInv => [MovedToEnd /\ AddedAtEnd]_(vars)
    BY <1>1, <1>2
  <1>4. Spec => []DesktopInv
    BY DesktopInvariance
  <1> QED BY <1>3, <1>4, PTL DEF PlacedAtEnd
=============================================================================
