------------------------------ MODULE MpcKeys ------------------------------
(***************************************************************************)
(* How a profile comes by its MPC wallet.  A client asks for the cloud     *)
(* public key (generateKey), generates the key with the duo node, and the  *)
(* backend is told of the key: by the client (MpcControllerV2) and by the  *)
(* duo node (MpcWebhookController), in any order and any number of times.  *)
(* handleKeyGenerated then takes three awaited steps outside any database  *)
(* transaction: the profile's address, the key mapping, the linked account.*)
(***************************************************************************)
EXTENDS Naturals, FiniteSets

CONSTANTS
  Profiles,
  Keys,         \* keys the duo node may issue; a key stands for its address too
  Clients,      \* devices that generate keys
  Requests,     \* handleKeyGenerated requests under way at the same time
  KeysPerProfile, \* bound on the keys generated for one profile
  LinkMayFail,  \* may storing the linked account throw
  MaxCrashes,   \* bound: stops of the process and writes that fail
  None          \* no key, no profile, the placeholder address

ASSUME MpcConstants ==
  /\ None \notin Keys /\ None \notin Profiles
  /\ KeysPerProfile \in Nat /\ MaxCrashes \in Nat
  /\ LinkMayFail \in BOOLEAN

VARIABLES
  exists,    \* the smart_profiles rows
  address,   \* SmartProfile.sessionWalletAddress
  mapping,   \* MpcKeyMapping.silenceLabsKeyId of the profile's row
  wallet,    \* the profile's LinkedAccount of walletType 'mpc'
  client,    \* the profile each device may generate a key for
  issued,    \* external: the profile each key was generated for
  request,   \* where each handleKeyGenerated stands
  crashes

mpcVars ==
  <<exists, address, mapping, wallet, client, issued, request, crashes>>

\* encrypt() of utils/crypto: what is stored is not the id itself, and two
\* encryptions of an id differ, so that the unique index compares nothing.
Encrypt(key) == [encrypted |-> TRUE, id |-> key]
Plain(key) == [encrypted |-> FALSE, id |-> key]

NoMapping == [encrypted |-> FALSE, id |-> None]
Mappings == {NoMapping} \cup {Encrypt(key) : key \in Keys}

IdleRequest == [pc |-> "idle", key |-> None]

\* No profile has a wallet yet: its address is a placeholder.
WalletInit ==
  /\ address = [p \in Profiles |-> None]
  /\ mapping = [p \in Profiles |-> NoMapping]
  /\ wallet = [p \in Profiles |-> None]
  /\ client = [c \in Clients |-> None]
  /\ issued = [key \in Keys |-> None]
  /\ request = [r \in Requests |-> IdleRequest]
  /\ crashes = 0

MpcInit == WalletInit /\ exists = [p \in Profiles |-> TRUE]

-----------------------------------------------------------------------------
\* generateKey answers with the cloud public key, unless the profile already
\* has a key mapping (409).
GenerateKey(c, p) ==
  /\ exists[p]
  /\ mapping[p] = NoMapping
  /\ client' = [client EXCEPT ![c] = p]
  /\ UNCHANGED <<exists, address, mapping, wallet, issued, request, crashes>>

\* External: device and duo node generate a new key, whichever; the backend
\* takes no part.
NewKeys == {key \in Keys : issued[key] = None}

KeyIssued(c) ==
  /\ client[c] # None
  /\ NewKeys # {}
  /\ Cardinality({key \in Keys : issued[key] = client[c]}) < KeysPerProfile
  /\ issued' = [issued EXCEPT ![CHOOSE key \in NewKeys : TRUE] = client[c]]
  /\ client' = [client EXCEPT ![c] = None]
  /\ UNCHANGED <<exists, address, mapping, wallet, request, crashes>>

\* One of the notifications for a key arrives: the first, a second or a retry.
Receive(r, key) ==
  /\ request[r].pc = "idle"
  /\ issued[key] # None
  /\ request' = [request EXCEPT ![r] = [pc |-> "received", key |-> key]]
  /\ UNCHANGED <<exists, address, mapping, wallet, client, issued, crashes>>

ProfileOf(r) == issued[request[r].key]

Fail(r) == request' = [request EXCEPT ![r] = IdleRequest]
Goto(r, pc) == request' = [request EXCEPT ![r].pc = pc]

\* A mutation: a notification that brings no new address is taken for done.
SetAddressOnce(r) ==
  LET p == ProfileOf(r)
  IN /\ request[r].pc = "received"
     /\ IF exists[p] /\ address[p] # request[r].key
        THEN /\ address' = [address EXCEPT ![p] = request[r].key]
             /\ Goto(r, "addressed")
        ELSE Fail(r) /\ UNCHANGED address
     /\ UNCHANGED <<exists, mapping, wallet, client, issued, crashes>>

\* The profile's address is overwritten; without the profile that throws.
SetAddress(r) ==
  LET p == ProfileOf(r)
  IN /\ request[r].pc = "received"
     /\ IF exists[p]
        THEN /\ address' = [address EXCEPT ![p] = request[r].key]
             /\ Goto(r, "addressed")
        ELSE Fail(r) /\ UNCHANGED address
     /\ UNCHANGED <<exists, mapping, wallet, client, issued, crashes>>

\* A mutation: the mapping is created or updated, as the linked account is.
CreateOrUpdateMapping(r) ==
  LET p == ProfileOf(r)
  IN /\ request[r].pc = "addressed"
     /\ IF exists[p]
        THEN /\ mapping' = [mapping EXCEPT ![p] = Encrypt(request[r].key)]
             /\ Goto(r, "mapped")
        ELSE Fail(r) /\ UNCHANGED mapping
     /\ UNCHANGED <<exists, address, wallet, client, issued, crashes>>

\* createKeyMapping; profileId is unique, so that a second one throws and the
\* request ends with an error, its address already written.
CreateMapping(r) ==
  LET p == ProfileOf(r)
  IN /\ request[r].pc = "addressed"
     /\ IF exists[p] /\ mapping[p] = NoMapping
        THEN /\ mapping' = [mapping EXCEPT ![p] = Encrypt(request[r].key)]
             /\ Goto(r, "mapped")
        ELSE Fail(r) /\ UNCHANGED mapping
     /\ UNCHANGED <<exists, address, wallet, client, issued, crashes>>

\* Any other database error ends the request with the writes before it kept.
WriteFails(r) ==
  /\ crashes < MaxCrashes
  /\ crashes' = crashes + 1
  /\ request[r].pc \in {"received", "addressed"}
  /\ Fail(r)
  /\ UNCHANGED <<exists, address, mapping, wallet, client, issued>>

\* The mpc linked account is looked up, then created or updated.  Only the
\* request that stored the profile's one mapping comes here, so that no other
\* request is between this lookup and this write.  An error is logged only.
LinkWallet(r) ==
  LET p == ProfileOf(r)
  IN /\ request[r].pc = "mapped"
     /\ wallet' = IF exists[p] THEN [wallet EXCEPT ![p] = request[r].key] ELSE wallet
     /\ Fail(r)
     /\ UNCHANGED <<exists, address, mapping, client, issued, crashes>>

LinkFails(r) ==
  /\ LinkMayFail
  /\ request[r].pc = "mapped"
  /\ Fail(r)
  /\ UNCHANGED <<exists, address, mapping, wallet, client, issued, crashes>>

\* What backupKey and exportKey send to the duo node, unless there is no mapping
\* (404): the id as it is stored.  They change nothing here.
BackupKey(p) == mapping[p]

\* Deleting the profile cascades to its mapping and its linked accounts.
DeleteProfile(p) ==
  /\ exists[p]
  /\ exists' = [exists EXCEPT ![p] = FALSE]
  /\ mapping' = [mapping EXCEPT ![p] = NoMapping]
  /\ wallet' = [wallet EXCEPT ![p] = None]
  /\ UNCHANGED <<address, client, issued, request, crashes>>

Crash ==
  /\ crashes < MaxCrashes
  /\ crashes' = crashes + 1
  /\ request' = [r \in Requests |-> IdleRequest]
  /\ UNCHANGED <<exists, address, mapping, wallet, client, issued>>

RequestSteps(r) == SetAddress(r) \/ CreateMapping(r) \/ LinkWallet(r) \/ LinkFails(r)

MpcNext ==
  \/ \E c \in Clients : KeyIssued(c) \/ \E p \in Profiles : GenerateKey(c, p)
  \/ \E r \in Requests :
       \/ \E key \in Keys : Receive(r, key)
       \/ RequestSteps(r) \/ WriteFails(r)
  \/ \E p \in Profiles : DeleteProfile(p)
  \/ Crash

MpcSpec == MpcInit /\ [][MpcNext]_mpcVars

\* A request once begun goes on, and the notification of a key is retried.
MpcFairness ==
  /\ \A r \in Requests : WF_mpcVars(RequestSteps(r))
  /\ \A key \in Keys : SF_mpcVars(\E r \in Requests : Receive(r, key))

MpcFairSpec == MpcSpec /\ MpcFairness

-----------------------------------------------------------------------------
(* Properties.                                                             *)

MpcTypeOK ==
  /\ exists \in [Profiles -> BOOLEAN]
  /\ address \in [Profiles -> Keys \cup {None}]
  /\ mapping \in [Profiles -> Mappings]
  /\ wallet \in [Profiles -> Keys \cup {None}]
  /\ client \in [Clients -> Profiles \cup {None}]
  /\ issued \in [Keys -> Profiles \cup {None}]
  /\ request \in [Requests ->
       [pc : {"idle", "received", "addressed", "mapped"}, key : Keys \cup {None}]]
  /\ crashes \in 0..MaxCrashes

\* The wallet among a profile's linked accounts is the one whose key backup and
\* export use, and the address that the profile shows is that wallet's too, but
\* for another key generated for the profile: whatever notifications, of one
\* key or of several, are duplicated, late, interleaved or cut short.
WalletMatchesMapping ==
  \A p \in Profiles :
    /\ wallet[p] # None => mapping[p] = Encrypt(wallet[p])
    /\ \A key \in Keys : mapping[p] = Encrypt(key) =>
         /\ issued[key] = p
         /\ \/ address[p] = key
            \/ \E other \in Keys \ {key} : issued[other] = p /\ address[p] = other

\* The wallet a profile shows is the one whose key it can use.  Not true if two
\* devices generate a key: each report writes the address, only the first the
\* mapping.
AddressMatchesMapping ==
  \A p \in Profiles, key \in Keys :
    mapping[p] = Encrypt(key) => address[p] = key

\* Backup and export ask the duo node for a key that it has issued.
BackupAsksForIssuedKey ==
  \A p \in Profiles :
    mapping[p] # NoMapping => BackupKey(p) \in {Plain(key) : key \in Keys}

\* A profile that shows an MPC address gets the mapping for it in the end: a
\* retried notification repairs one that was interrupted.
AddressedIsMapped ==
  \A p \in Profiles : address[p] # None ~> mapping[p] # NoMapping \/ ~exists[p]

\* The wallet of a mapped key appears among the profile's linked accounts.
MappedIsLinked ==
  \A p \in Profiles : mapping[p] # NoMapping ~> wallet[p] # None \/ ~exists[p]
=============================================================================
