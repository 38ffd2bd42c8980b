------------------------ MODULE IdentityGraphProofs ------------------------
(***************************************************************************)
(* Proofs about IdentityGraph, for any number of accounts, profiles and    *)
(* requests, whatever privacy modes the clients ask for.                   *)
(***************************************************************************)
EXTENDS IdentityGraph, TLAPS

\* The history holds what is there, and speaks of profiles that were created.
HistoryOK ==
  /\ access \subseteq everAccess
  /\ \A q \in Pairs : link[q] # "none" => q \in everLinked
  /\ \A p \in Profiles : profile[p] = "unused" =>
       \A a \in Accounts : <<a, p>> \notin everAccess

\* What a request x carries across its awaits, where linked and shared are the
\* links and rows so far: a request past the upsert has a link, and the
\* profiles it is about to share were direct ones of its account.
Carries(x, linked, shared) ==
  /\ x.pc \in {"upsert", "read", "grant"} =>
       /\ x.account \in Accounts /\ x.target \in Accounts
       /\ Pair(x.account, x.target) \in Pairs
  /\ x.pc \in {"read", "grant"} => Pair(x.account, x.target) \in linked
  /\ x.pc = "grant" => \A p \in x.profiles : <<x.account, p>> \in shared
  /\ x.pc = "traverse" => x.account \in Accounts /\ x.links = {}

RequestOK == \A r \in Requests : Carries(request[r], everLinked, everAccess)

\* A search that met no change: what it visited is reachable, and only what is
\* still in the queue may have neighbours not visited yet.
Searched(x) ==
  /\ x.account \in x.visited
  /\ x.frontier \subseteq x.visited
  /\ x.visited \subseteq Reachable(x.account)
  /\ \A c \in x.visited \ x.frontier : Neighbours(c) \subseteq x.visited

SearchOK ==
  \A r \in Requests : request[r].pc = "traverse" /\ request[r].steady => Searched(request[r])

IdentityInv ==
  IdentityTypeOK /\ HistoryOK /\ RequestOK /\ SearchOK /\ AccessFollowsDirectLinks

-----------------------------------------------------------------------------
(* How the steps change the requests.                                      *)

\* A request stays one when the steps change some of its fields.
LEMMA Edits ==
  ASSUME NEW x \in RequestStates
  PROVE  /\ [x EXCEPT !.steady = FALSE] \in RequestStates
         /\ \A q \in Pairs : [x EXCEPT !.replaced = @ \cup {q}] \in RequestStates
         /\ \A V, F \in SUBSET Accounts :
              [x EXCEPT !.visited = V, !.frontier = F] \in RequestStates
         /\ \A P \in SUBSET Profiles :
              [x EXCEPT !.pc = "grant", !.profiles = P] \in RequestStates
<1>1. [x EXCEPT !.steady = FALSE] \in RequestStates
  BY DEF RequestStates
<1>2. ASSUME NEW q \in Pairs PROVE [x EXCEPT !.replaced = @ \cup {q}] \in RequestStates
  BY DEF RequestStates
<1>3. ASSUME NEW V \in SUBSET Accounts, NEW F \in SUBSET Accounts
      PROVE [x EXCEPT !.visited = V, !.frontier = F] \in RequestStates
  BY DEF RequestStates
<1>4. ASSUME NEW P \in SUBSET Profiles
      PROVE [x EXCEPT !.pc = "grant", !.profiles = P] \in RequestStates
  BY DEF RequestStates
<1> QED BY <1>1, <1>2, <1>3, <1>4

\* A request that comes back from its search.
LEMMA ContinueIsState ==
  ASSUME request \in [Requests -> RequestStates], NEW r \in Requests,
         NEW pc \in {"remove", "commit"}
  PROVE  /\ Continue(r, pc) \in RequestStates
         /\ \A L \in SUBSET Pairs : [Continue(r, pc) EXCEPT !.links = L] \in RequestStates
<1>1. ASSUME NEW x \in RequestStates
      PROVE [x EXCEPT !.pc = pc, !.visited = {}, !.steady = TRUE] \in RequestStates
  BY DEF RequestStates
<1>2. ASSUME NEW x \in RequestStates, NEW L \in SUBSET Pairs
      PROVE [x EXCEPT !.links = L] \in RequestStates
  BY DEF RequestStates
<1> QED BY <1>1, <1>2 DEF Continue

\* A change of a link alters `steady` and `replaced` of a request only.
LEMMA UnsteadyKeeps ==
  ASSUME NEW R \in [Requests -> RequestStates], NEW r \in Requests
  PROVE  /\ Unsteady(R) \in [Requests -> RequestStates]
         /\ Unsteady(R)[r].pc = R[r].pc
         /\ Unsteady(R)[r].account = R[r].account
         /\ Unsteady(R)[r].target = R[r].target
         /\ Unsteady(R)[r].profiles = R[r].profiles
         /\ Unsteady(R)[r].links = R[r].links
         /\ Queue(Unsteady(R)[r]) = Queue(R[r])
         /\ R[r].pc = "traverse" => ~Unsteady(R)[r].steady
<1>1. \A s \in Requests : [R[s] EXCEPT !.steady = FALSE] \in RequestStates
  BY Edits
<1> QED BY <1>1 DEF Unsteady, RequestStates, Queue

\* The request that deletes a link has it among its own no more.
LEMMA DeleteKeeps ==
  ASSUME NEW R \in [Requests -> RequestStates], NEW q \in Pairs, NEW r \in Requests,
         DeleteLink(q, R)
  PROVE  /\ request' \in [Requests -> RequestStates]
         /\ request'[r].pc = R[r].pc
         /\ request'[r].account = R[r].account
         /\ request'[r].target = R[r].target
         /\ request'[r].profiles = R[r].profiles
         /\ request'[r].links = R[r].links
         /\ Queue(request'[r]) = Queue(R[r])
         /\ R[r].pc = "traverse" /\ R[r].links = {} => ~request'[r].steady
<1>1. \A s \in Requests : [R[s] EXCEPT !.replaced = @ \cup {q}] \in RequestStates
  BY Edits
<1>2. \A s \in Requests : Unsteady(R)[s] \in RequestStates
  BY UnsteadyKeeps
<1>3. request' = [s \in Requests |-> IF q \in R[s].links
                    THEN [R[s] EXCEPT !.replaced = @ \cup {q}] ELSE Unsteady(R)[s]]
  BY DEF DeleteLink
<1>4. request' \in [Requests -> RequestStates]
  BY <1>1, <1>2, <1>3
<1>5. CASE q \in R[r].links
  <2> DEFINE x == R[r]
             y == [x EXCEPT !.replaced = @ \cup {q}]
  <2>1. request'[r] = y /\ x \in RequestStates
    BY <1>3, <1>5
  <2>2. /\ y.pc = x.pc /\ y.account = x.account /\ y.target = x.target
        /\ y.profiles = x.profiles /\ y.links = x.links
        /\ y.visited = x.visited /\ y.frontier = x.frontier
    BY <2>1 DEF RequestStates
  <2>3. x.links # {}
    BY <1>5
  <2>4. Queue(y) = Queue(x)
    BY <2>2 DEF Queue
  <2> HIDE DEF x, y
  <2>5. request'[r] = y /\ R[r] = x
    BY <2>1 DEF x
  <2> QED BY <1>4, <2>2, <2>3, <2>4, <2>5
<1>6. CASE q \notin R[r].links
  BY <1>3, <1>4, <1>6, UnsteadyKeeps
<1> QED BY <1>4, <1>5, <1>6

LEMMA IdleIsState == IdleRequest \in RequestStates
  BY DEF IdleRequest, RequestStates

-----------------------------------------------------------------------------
(* Type correctness.                                                       *)

\* The part of the type invariant that speaks of the requests.
LEMMA RequestTypeStep ==
  IdentityTypeOK /\ RequestOK /\ IdentityNext => request' \in [Requests -> RequestStates]
<1> SUFFICES ASSUME IdentityTypeOK, RequestOK, IdentityNext
             PROVE request' \in [Requests -> RequestStates]
  OBVIOUS
<1>t. request \in [Requests -> RequestStates] /\ link \in [Pairs -> AllModes \cup {"none"}]
  BY DEF IdentityTypeOK
<1>1. CASE request' = Unsteady(request)
  BY <1>1, <1>t, UnsteadyKeeps DEF Unsteady
<1>2. ASSUME NEW q \in Pairs, DeleteLink(q, request) PROVE request' \in [Requests -> RequestStates]
  BY <1>2, <1>1, <1>t, DeleteKeeps DEF DeleteLink
<1>3. ASSUME NEW r \in Requests, NEW a \in Accounts, NEW b \in Accounts, NEW mode \in Modes,
             LinkCheck(r, a, b, mode)
      PROVE request' \in [Requests -> RequestStates]
  BY <1>3, <1>t, IdentityConstants DEF LinkCheck, IdleRequest, RequestStates
<1>4. ASSUME NEW r \in Requests, NEW kind \in {"unlink", "switch", "delete"}, NEW a \in Accounts,
             NEW b \in Accounts \cup {None}, NEW p \in Profiles \cup {None}, Begin(r, kind, a, b, p)
      PROVE request' \in [Requests -> RequestStates]
  <2> DEFINE x == [IdleRequest EXCEPT !.kind = kind, !.pc = "traverse", !.account = a,
                     !.target = b, !.goal = p, !.visited = {a}, !.frontier = {a}]
  <2>1. x \in RequestStates
    BY <1>4 DEF IdleRequest, RequestStates
  <2>2. request' = [request EXCEPT ![r] = x]
    BY <1>4 DEF Begin
  <2> HIDE DEF x
  <2> QED BY <2>1, <2>2, <1>t
<1>5. ASSUME NEW r \in Requests, RequestSteps(r) PROVE request' \in [Requests -> RequestStates]
  <2>0. \A x \in RequestStates : [request EXCEPT ![r] = x] \in [Requests -> RequestStates]
    BY <1>t
  <2>1. CASE LinkUpsert(r)
    <3>1. [request EXCEPT ![r].pc = "read"] \in [Requests -> RequestStates]
      BY <1>t DEF RequestStates
    <3> QED BY <2>1, <3>1, UnsteadyKeeps DEF LinkUpsert, UpsertLink
  <2>2. CASE LinkRead(r)
    BY <2>2, <2>0, <1>t, Edits DEF LinkRead, Direct
  <2>3. ASSUME NEW p \in Profiles, LinkProfile(r, p) PROVE request' \in [Requests -> RequestStates]
    BY <2>3, <1>t DEF LinkProfile, RequestStates
  <2>4. CASE LinkReply(r) \/ UnlinkRevoke(r) \/ SwitchCommit(r) \/ DeleteCommit(r)
    BY <2>4, <2>0, IdleIsState DEF LinkReply, UnlinkRevoke, SwitchCommit, DeleteCommit
  <2>5. ASSUME NEW a \in Accounts, Visit(r, a) PROVE request' \in [Requests -> RequestStates]
    <3>1. Neighbours(a) \subseteq Accounts
      BY DEF Neighbours
    <3>2. request[r].visited \subseteq Accounts /\ request[r].frontier \subseteq Accounts
      BY <1>t DEF RequestStates
    <3> QED BY <2>5, <3>1, <3>2, <2>0, <1>t, Edits DEF Visit
  <2>6. CASE UnlinkFind(r)
    BY <2>6, <2>0, <1>t, IdleIsState, ContinueIsState DEF UnlinkFind
  <2>7. ASSUME NEW q \in Pairs, UnlinkRemove(r, q) PROVE request' \in [Requests -> RequestStates]
    <3>1. [request EXCEPT ![r].links = @ \ {q}] \in [Requests -> RequestStates]
      BY <1>t DEF RequestStates
    <3> QED BY <2>7, <3>1, <2>0, IdleIsState, DeleteKeeps DEF UnlinkRemove
  <2>8. CASE UnlinkRemoved(r)
    BY <2>8, <1>t DEF UnlinkRemoved, RequestStates
  <2>9. CASE FindProfile(r)
    BY <2>9, <2>0, <1>t, IdleIsState, ContinueIsState DEF FindProfile
  <2> QED BY <1>5, <2>1, <2>2, <2>3, <2>4, <2>5, <2>6, <2>7, <2>8, <2>9 DEF RequestSteps
<1>6. CASE UNCHANGED request
  BY <1>6, <1>t
<1> QED BY <1>1, <1>2, <1>3, <1>4, <1>5, <1>6
  DEF IdentityNext, LinkSocial, UpsertLink, UnlinkSocial, SetLinkPrivacyMode, CreateProfile,
      UnlinkAccounts, SwitchProfile, DeleteProfile

\* The rows: links, profiles, active profiles and access.
LEMMA RowTypeStep ==
  IdentityTypeOK /\ RequestOK /\ IdentityNext =>
    /\ link' \in [Pairs -> AllModes \cup {"none"}]
    /\ profile' \in [Profiles -> {"unused", "live", "deleted"}]
    /\ active' \subseteq {p \in Profiles : profile'[p] = "live"}
    /\ access' \subseteq Accounts \X {p \in Profiles : profile'[p] = "live"}
<1> DEFINE Rows ==
      /\ link \in [Pairs -> AllModes \cup {"none"}]
      /\ profile \in [Profiles -> {"unused", "live", "deleted"}]
      /\ active \subseteq {p \in Profiles : profile[p] = "live"}
      /\ access \subseteq Accounts \X {p \in Profiles : profile[p] = "live"}
<1> SUFFICES ASSUME IdentityTypeOK, RequestOK, IdentityNext PROVE Rows'
  OBVIOUS
<1>t. Rows /\ request \in [Requests -> RequestStates]
  BY DEF IdentityTypeOK
<1>1. ASSUME NEW q \in Pairs, NEW mode \in AllModes \cup {"none"},
             link' = [link EXCEPT ![q] = mode], UNCHANGED <<profile, active, access>>
      PROVE Rows'
  BY <1>1, <1>t
<1>2. CASE UNCHANGED <<link, profile, active, access>>
  BY <1>2, <1>t
<1>3. ASSUME NEW a \in Accounts, NEW p \in Profiles, CreateProfile(a, p) PROVE Rows'
  BY <1>3, <1>t DEF CreateProfile
<1>4. ASSUME NEW r \in Requests, RequestSteps(r) PROVE Rows'
  <2>1. CASE LinkUpsert(r)
    <3>1. Pair(request[r].account, request[r].target) \in Pairs
      BY <2>1 DEF LinkUpsert, RequestOK, Carries
    <3>2. request[r].mode \in AllModes \cup {"none"}
      BY <1>t DEF RequestStates
    <3> QED BY <2>1, <3>1, <3>2, <1>1 DEF LinkUpsert, UpsertLink
  <2>2. ASSUME NEW p \in Profiles, LinkProfile(r, p) PROVE Rows'
    <3>1. request[r].target \in Accounts
      BY <2>2 DEF LinkProfile, RequestOK, Carries
    <3> QED BY <2>2, <3>1, <1>t DEF LinkProfile
  <2>3. ASSUME NEW q \in Pairs, UnlinkRemove(r, q) PROVE Rows'
    BY <2>3, <1>1, <1>2 DEF UnlinkRemove, DeleteLink
  <2>4. CASE UnlinkRevoke(r)
    BY <2>4, <1>t DEF UnlinkRevoke
  <2>5. CASE SwitchCommit(r)
    BY <2>5, <1>t DEF SwitchCommit, Direct
  <2>6. CASE DeleteCommit(r)
    <3> DEFINE p == request[r].goal
    <3>1. CASE p \in Direct(request[r].account)
      <4>1. access' \subseteq access /\ \A row \in access' : row[2] # p
        BY <2>6, <3>1 DEF DeleteCommit
      <4>2. profile' = [profile EXCEPT ![p] = "deleted"] /\ active' = active \ {p}
        BY <2>6, <3>1 DEF DeleteCommit
      <4>3. /\ profile' \in [Profiles -> {"unused", "live", "deleted"}]
            /\ \A o \in Profiles \ {p} : profile'[o] = profile[o]
        BY <4>2, <1>t
      <4>4. active' \subseteq {o \in Profiles : profile'[o] = "live"}
        BY <4>2, <4>3, <1>t
      <4>5. access' \subseteq Accounts \X {o \in Profiles : profile'[o] = "live"}
        BY <4>1, <4>3, <1>t
      <4>6. UNCHANGED link
        BY <2>6, <3>1 DEF DeleteCommit
      <4> QED BY <4>3, <4>4, <4>5, <4>6, <1>t
    <3> QED BY <2>6, <3>1, <1>2 DEF DeleteCommit
  <2> QED BY <1>2, <1>4, <2>1, <2>2, <2>3, <2>4, <2>5, <2>6
    DEF RequestSteps, LinkRead, LinkReply, Visit, UnlinkFind, UnlinkRemoved, FindProfile
<1> HIDE DEF Rows
<1>5. ASSUME NEW a \in Accounts, NEW b \in Accounts, LinkSocial(a, b) PROVE Rows'
  BY <1>5, <1>1 DEF LinkSocial, UpsertLink, AllModes
<1>6. ASSUME NEW q \in Pairs, UnlinkSocial(q) PROVE Rows'
  BY <1>6, <1>1 DEF UnlinkSocial, DeleteLink
<1>7. ASSUME NEW q \in Pairs, NEW mode \in Modes, SetLinkPrivacyMode(q, mode) PROVE Rows'
  BY <1>7, <1>1, IdentityConstants DEF SetLinkPrivacyMode
<1> QED BY <1>2, <1>3, <1>4, <1>5, <1>6, <1>7
  DEF IdentityNext, UnlinkAccounts, SwitchProfile, DeleteProfile, LinkCheck, Begin

\* The history variables, and that they only ever grow.
LEMMA HistoryGrows ==
  IdentityTypeOK /\ RequestOK /\ IdentityNext =>
    /\ everLinked \subseteq everLinked' /\ everLinked' \subseteq Pairs
    /\ everAccess \subseteq everAccess' /\ everAccess' \subseteq Accounts \X Profiles
    /\ creator' \in [Profiles -> Accounts \cup {None}]
<1> DEFINE Grown ==
      /\ everLinked \subseteq everLinked' /\ everLinked' \subseteq Pairs
      /\ everAccess \subseteq everAccess' /\ everAccess' \subseteq Accounts \X Profiles
      /\ creator' \in [Profiles -> Accounts \cup {None}]
<1> SUFFICES ASSUME IdentityTypeOK, RequestOK, IdentityNext PROVE Grown
  OBVIOUS
<1>t. /\ everLinked \subseteq Pairs /\ everAccess \subseteq Accounts \X Profiles
      /\ access \subseteq Accounts \X Profiles
      /\ creator \in [Profiles -> Accounts \cup {None}]
  BY DEF IdentityTypeOK
<1>1. ASSUME NEW q \in Pairs, everLinked' = everLinked \cup {q}, UNCHANGED <<everAccess, creator>>
      PROVE Grown
  BY <1>1, <1>t
<1>2. CASE UNCHANGED history
  BY <1>2, <1>t DEF history
<1>3. ASSUME NEW a \in Accounts, NEW p \in Profiles, CreateProfile(a, p) PROVE Grown
  BY <1>3, <1>t DEF CreateProfile
<1>4. ASSUME NEW r \in Requests, RequestSteps(r) PROVE Grown
  <2>1. CASE LinkUpsert(r)
    <3>1. Pair(request[r].account, request[r].target) \in Pairs
      BY <2>1 DEF LinkUpsert, RequestOK, Carries
    <3> QED BY <2>1, <3>1, <1>1 DEF LinkUpsert, UpsertLink
  <2>2. ASSUME NEW p \in Profiles, LinkProfile(r, p) PROVE Grown
    <3>1. request[r].target \in Accounts
      BY <2>2 DEF LinkProfile, RequestOK, Carries
    <3> QED BY <2>2, <3>1, <1>t DEF LinkProfile
  <2> QED BY <1>2, <1>4, <2>1, <2>2
    DEF RequestSteps, LinkRead, LinkReply, Visit, UnlinkFind, UnlinkRemove, UnlinkRemoved,
        UnlinkRevoke, FindProfile, SwitchCommit, DeleteCommit
<1> QED BY <1>1, <1>2, <1>3, <1>4
  DEF IdentityNext, LinkSocial, UpsertLink, UnlinkSocial, SetLinkPrivacyMode, LinkCheck, Begin,
      UnlinkAccounts, SwitchProfile, DeleteProfile

LEMMA TypeStep ==
  IdentityTypeOK /\ RequestOK /\ [IdentityNext]_identityVars => IdentityTypeOK'
<1>1. IdentityTypeOK /\ RequestOK /\ IdentityNext => IdentityTypeOK'
  BY RequestTypeStep, RowTypeStep, HistoryGrows DEF IdentityTypeOK
<1>2. IdentityTypeOK /\ UNCHANGED identityVars => IdentityTypeOK'
  BY DEF IdentityTypeOK, identityVars, history
<1> QED BY <1>1, <1>2

-----------------------------------------------------------------------------
(* The history and what the requests carry.                                *)

LEMMA HistoryStep ==
  IdentityTypeOK /\ HistoryOK /\ RequestOK /\ IdentityNext => HistoryOK'
<1> SUFFICES ASSUME IdentityTypeOK, HistoryOK, RequestOK, IdentityNext PROVE HistoryOK'
  OBVIOUS
<1>t. /\ link \in [Pairs -> AllModes \cup {"none"}]
      /\ profile \in [Profiles -> {"unused", "live", "deleted"}]
      /\ access \subseteq everAccess
      /\ \A q \in Pairs : link[q] # "none" => q \in everLinked
      /\ \A p \in Profiles : profile[p] = "unused" =>
           \A a \in Accounts : <<a, p>> \notin everAccess
  BY DEF IdentityTypeOK, HistoryOK
<1>1. ASSUME NEW q \in Pairs, NEW mode, link' = [link EXCEPT ![q] = mode],
             mode # "none" => q \in everLinked', everLinked \subseteq everLinked',
             UNCHANGED <<profile, access, everAccess>>
      PROVE HistoryOK'
  BY <1>1, <1>t DEF HistoryOK
<1>2. CASE UNCHANGED <<link, profile, access, history>>
  BY <1>2, <1>t DEF HistoryOK, history
<1>3. ASSUME NEW a \in Accounts, NEW p \in Profiles, CreateProfile(a, p) PROVE HistoryOK'
  BY <1>3, <1>t DEF CreateProfile, HistoryOK
<1>4. ASSUME NEW r \in Requests, RequestSteps(r) PROVE HistoryOK'
  <2>1. CASE LinkUpsert(r)
    <3>1. Pair(request[r].account, request[r].target) \in Pairs
      BY <2>1 DEF LinkUpsert, RequestOK, Carries
    <3> QED BY <2>1, <3>1, <1>1 DEF LinkUpsert, UpsertLink
  <2>2. ASSUME NEW p \in Profiles, LinkProfile(r, p) PROVE HistoryOK'
    BY <2>2, <1>t DEF LinkProfile, HistoryOK
  <2>3. ASSUME NEW q \in Pairs, UnlinkRemove(r, q) PROVE HistoryOK'
    <3>1. CASE q \in request[r].replaced
      BY <2>3, <3>1, <1>2 DEF UnlinkRemove
    <3>2. CASE q \notin request[r].replaced
      BY <2>3, <3>2, <1>1 DEF UnlinkRemove, DeleteLink, history
    <3> QED BY <3>1, <3>2
  <2>4. CASE UnlinkRevoke(r)
    BY <2>4, <1>t DEF UnlinkRevoke, HistoryOK, history
  <2>5. CASE DeleteCommit(r)
    <3>1. access' \subseteq access
      BY <2>5 DEF DeleteCommit
    <3>2. \A p \in Profiles : profile'[p] = "unused" => profile[p] = "unused"
      BY <2>5, <1>t DEF DeleteCommit
    <3> QED BY <2>5, <3>1, <3>2, <1>t DEF DeleteCommit, HistoryOK, history
  <2> QED BY <1>2, <1>4, <2>1, <2>2, <2>3, <2>4, <2>5
    DEF RequestSteps, LinkRead, LinkReply, Visit, UnlinkFind, UnlinkRemoved, FindProfile,
        SwitchCommit
<1>5. ASSUME NEW a \in Accounts, NEW b \in Accounts, LinkSocial(a, b) PROVE HistoryOK'
  BY <1>5, <1>1 DEF LinkSocial, UpsertLink
<1>6. ASSUME NEW q \in Pairs, UnlinkSocial(q) PROVE HistoryOK'
  BY <1>6, <1>1 DEF UnlinkSocial, DeleteLink, history
<1>7. ASSUME NEW q \in Pairs, NEW mode \in Modes, SetLinkPrivacyMode(q, mode) PROVE HistoryOK'
  BY <1>7, <1>1, <1>t DEF SetLinkPrivacyMode, history
<1> QED BY <1>2, <1>3, <1>4, <1>5, <1>6, <1>7
  DEF IdentityNext, UnlinkAccounts, SwitchProfile, DeleteProfile, LinkCheck, Begin

\* The steps that a request takes itself.
OwnStep(s) ==
  \/ \E a, b \in Accounts, mode \in Modes : LinkCheck(s, a, b, mode)
  \/ \E kind \in {"unlink", "switch", "delete"}, a \in Accounts,
        b \in Accounts \cup {None}, p \in Profiles \cup {None} : Begin(s, kind, a, b, p)
  \/ RequestSteps(s)

\* What the steps of others do to a request.
Untouched(s) ==
  /\ request'[s].pc = request[s].pc
  /\ request'[s].account = request[s].account
  /\ request'[s].target = request[s].target
  /\ request'[s].profiles = request[s].profiles
  /\ request'[s].links = request[s].links
  /\ Queue(request'[s]) = Queue(request[s])
  /\ \/ request'[s] = request[s] /\ UNCHANGED link
     \/ request[s].pc = "traverse" /\ request[s].links = {} => ~request'[s].steady

LEMMA OthersLeaveUntouched ==
  ASSUME IdentityTypeOK, IdentityNext, NEW s \in Requests, ~OwnStep(s)
  PROVE  Untouched(s)
<1>t. request \in [Requests -> RequestStates]
  BY DEF IdentityTypeOK
<1>1. CASE request'[s] = request[s] /\ UNCHANGED link
  BY <1>1 DEF Untouched
<1>2. CASE request' = Unsteady(request)
  BY <1>2, <1>t, UnsteadyKeeps DEF Untouched
<1>3. ASSUME NEW q \in Pairs, DeleteLink(q, request) PROVE Untouched(s)
  BY <1>3, <1>t, DeleteKeeps DEF Untouched
<1>4. ASSUME NEW r \in Requests, r # s, RequestSteps(r) PROVE Untouched(s)
  <2>1. CASE LinkUpsert(r)
    <3> DEFINE R == [request EXCEPT ![r].pc = "read"]
    <3>1. R \in [Requests -> RequestStates]
      BY <1>t DEF RequestStates
    <3>2. R[s] = request[s] /\ request' = Unsteady(R)
      BY <2>1, <1>4, <1>t DEF LinkUpsert, UpsertLink
    <3> HIDE DEF R
    <3> QED BY <3>1, <3>2, UnsteadyKeeps DEF Untouched
  <2>2. ASSUME NEW q \in Pairs, UnlinkRemove(r, q) PROVE Untouched(s)
    <3>1. CASE q \in request[r].replaced
      BY <2>2, <3>1, <1>1, <1>4, <1>t DEF UnlinkRemove
    <3>2. CASE q \notin request[r].replaced
      <4> DEFINE R == [request EXCEPT ![r].links = @ \ {q}]
      <4>1. R \in [Requests -> RequestStates]
        BY <1>t DEF RequestStates
      <4>2. R[s] = request[s] /\ DeleteLink(q, R)
        BY <2>2, <3>2, <1>4, <1>t DEF UnlinkRemove
      <4> HIDE DEF R
      <4> QED BY <4>1, <4>2, DeleteKeeps DEF Untouched
    <3> QED BY <3>1, <3>2
  <2>3. CASE \/ LinkRead(r) \/ LinkReply(r) \/ UnlinkFind(r) \/ UnlinkRemoved(r)
             \/ UnlinkRevoke(r) \/ FindProfile(r) \/ SwitchCommit(r) \/ DeleteCommit(r)
             \/ (\E p \in Profiles : LinkProfile(r, p)) \/ (\E a \in Accounts : Visit(r, a))
    BY <2>3, <1>1, <1>4, <1>t DEF LinkRead, LinkReply, UnlinkFind, UnlinkRemoved,
       UnlinkRevoke, FindProfile, SwitchCommit, DeleteCommit, LinkProfile, Visit
  <2> QED BY <1>4, <2>1, <2>2, <2>3 DEF RequestSteps
<1>5. ASSUME NEW r \in Requests, r # s, NEW a \in Accounts, NEW b \in Accounts,
             NEW mode \in Modes, LinkCheck(r, a, b, mode) PROVE Untouched(s)
  BY <1>5, <1>1, <1>t DEF LinkCheck
<1>6. ASSUME NEW r \in Requests, r # s, NEW kind, NEW a, NEW b, NEW p, Begin(r, kind, a, b, p)
      PROVE Untouched(s)
  BY <1>6, <1>1, <1>t DEF Begin
<1>7. CASE UNCHANGED <<request, link>>
  BY <1>7, <1>1
<1> HIDE DEF Untouched
<1>8. ASSUME NEW r \in Requests, RequestSteps(r) PROVE Untouched(s)
  BY <1>8, <1>4 DEF OwnStep
<1>9. ASSUME NEW r \in Requests, NEW a \in Accounts, NEW b \in Accounts, NEW mode \in Modes,
             LinkCheck(r, a, b, mode) PROVE Untouched(s)
  BY <1>9, <1>5 DEF OwnStep
<1>10. ASSUME NEW r \in Requests, NEW kind \in {"unlink", "switch", "delete"},
              NEW a \in Accounts, NEW b \in Accounts \cup {None},
              NEW p \in Profiles \cup {None}, Begin(r, kind, a, b, p)
       PROVE Untouched(s)
  BY <1>10, <1>6 DEF OwnStep
<1>11. CASE \/ \E a, b \in Accounts : LinkSocial(a, b)
            \/ \E q \in Pairs : UnlinkSocial(q)
            \/ \E q \in Pairs, mode \in Modes : SetLinkPrivacyMode(q, mode)
            \/ \E a \in Accounts, p \in Profiles : CreateProfile(a, p)
  BY <1>11, <1>2, <1>3, <1>7
  DEF LinkSocial, UpsertLink, UnlinkSocial, SetLinkPrivacyMode, CreateProfile
<1> QED BY <1>8, <1>9, <1>10, <1>11
  DEF IdentityNext, UnlinkAccounts, SwitchProfile, DeleteProfile

\* What a request carries is not disturbed by the growth of the history, nor by
\* a step that leaves the request alone but for its `steady` and `replaced`.
LEMMA StillCarries ==
  ASSUME NEW x, NEW y, NEW L, NEW M, NEW A, NEW B, L \subseteq M, A \subseteq B,
         Carries(x, L, A), y.pc = x.pc, y.account = x.account, y.target = x.target,
         y.profiles = x.profiles, y.links = x.links
  PROVE  Carries(y, M, B)
  BY DEF Carries

LEMMA RequestStep ==
  IdentityTypeOK /\ HistoryOK /\ RequestOK /\ IdentityNext => RequestOK'
<1> SUFFICES ASSUME IdentityTypeOK, HistoryOK, RequestOK, IdentityNext,
                    NEW s \in Requests
             PROVE Carries(request'[s], everLinked', everAccess')
  BY DEF RequestOK
<1> DEFINE Fine == Carries(request'[s], everLinked', everAccess')
<1>t. /\ request \in [Requests -> RequestStates]
      /\ link \in [Pairs -> AllModes \cup {"none"}]
  BY DEF IdentityTypeOK
<1>g. everLinked \subseteq everLinked' /\ everAccess \subseteq everAccess'
  BY HistoryGrows
<1>s. Carries(request[s], everLinked, everAccess)
  BY DEF RequestOK
<1>2. CASE request'[s] = IdleRequest
  BY <1>2 DEF IdleRequest, Carries
<1>3. CASE Untouched(s)
  BY <1>3, <1>g, <1>s, StillCarries DEF Untouched
<1>5. ASSUME NEW a \in Accounts, NEW b \in Accounts, NEW mode \in Modes,
             LinkCheck(s, a, b, mode) PROVE Fine
  <2>1. /\ request'[s].account = a /\ request'[s].target = b
        /\ request'[s].pc \in {"upsert", "read"}
        /\ request'[s].pc = "read" => link[Pair(a, b)] # "none"
    BY <1>5, <1>t DEF LinkCheck, IdleRequest
  <2>2. Pair(a, b) \in Pairs
    BY <1>5 DEF LinkCheck
  <2>3. request'[s].pc = "read" => Pair(a, b) \in everLinked'
    BY <2>1, <2>2, <1>g DEF HistoryOK
  <2> QED BY <2>1, <2>2, <2>3 DEF Carries
<1>6. ASSUME NEW kind, NEW a \in Accounts, NEW b, NEW p, Begin(s, kind, a, b, p) PROVE Fine
  BY <1>6, <1>t DEF Begin, IdleRequest, Carries
<1>7. ASSUME RequestSteps(s) PROVE Fine
  <2> DEFINE x == request[s]
  <2>1. CASE LinkUpsert(s)
    <3> DEFINE R == [request EXCEPT ![s].pc = "read"]
    <3>1. R \in [Requests -> RequestStates]
      BY <1>t DEF RequestStates
    <3>2. /\ R[s].pc = "read" /\ R[s].account = x.account /\ R[s].target = x.target
      BY <1>t DEF RequestStates
    <3>3. request' = Unsteady(R)
      BY <2>1 DEF LinkUpsert, UpsertLink
    <3> HIDE DEF R
    <3>4. /\ request'[s].pc = "read" /\ request'[s].account = x.account
          /\ request'[s].target = x.target
      BY <3>1, <3>2, <3>3, UnsteadyKeeps
    <3>5. Pair(x.account, x.target) \in everLinked'
      BY <2>1 DEF LinkUpsert, UpsertLink
    <3>6. x.pc = "upsert"
      BY <2>1 DEF LinkUpsert
    <3> QED BY <3>4, <3>5, <3>6, <1>s DEF Carries
  <2>2. CASE LinkRead(s)
    <3>1. /\ request'[s].pc = "grant" /\ request'[s].account = x.account
          /\ request'[s].target = x.target /\ request'[s].profiles = Direct(x.account)
      BY <2>2, <1>t DEF LinkRead, RequestStates
    <3>2. \A p \in Direct(x.account) : <<x.account, p>> \in everAccess'
      BY <1>g DEF Direct, HistoryOK
    <3>3. x.pc = "read"
      BY <2>2 DEF LinkRead
    <3> QED BY <3>1, <3>2, <3>3, <1>s, <1>g DEF Carries
  <2>3. ASSUME NEW p \in Profiles, LinkProfile(s, p) PROVE Fine
    <3>1. /\ request'[s].pc = x.pc /\ request'[s].account = x.account
          /\ request'[s].target = x.target /\ request'[s].profiles \subseteq x.profiles
      BY <2>3, <1>t DEF LinkProfile, RequestStates
    <3>2. x.pc = "grant"
      BY <2>3 DEF LinkProfile
    <3> QED BY <3>1, <3>2, <1>s, <1>g DEF Carries
  <2>4. CASE LinkReply(s) \/ UnlinkRevoke(s) \/ SwitchCommit(s) \/ DeleteCommit(s)
    BY <2>4, <1>2, <1>t DEF LinkReply, UnlinkRevoke, SwitchCommit, DeleteCommit
  <2>5. ASSUME NEW a \in Accounts, Visit(s, a) PROVE Fine
    <3>1. /\ request'[s].pc = x.pc /\ request'[s].account = x.account
          /\ request'[s].links = x.links
      BY <2>5, <1>t DEF Visit, RequestStates
    <3>2. x.pc = "traverse"
      BY <2>5 DEF Visit
    <3> QED BY <3>1, <3>2, <1>s DEF Carries
  <2>6. CASE UnlinkFind(s) \/ UnlinkRemoved(s) \/ FindProfile(s)
    <3>1. ASSUME NEW pc \in {"remove", "commit"}
          PROVE Continue(s, pc).pc = pc /\ \A l : [Continue(s, pc) EXCEPT !.links = l].pc = pc
      BY <1>t DEF Continue, RequestStates
    <3>2. IdleRequest.pc = "idle"
      BY DEF IdleRequest
    <3>3. CASE UnlinkFind(s)
      BY <3>1, <3>2, <3>3, <1>t DEF UnlinkFind, Carries
    <3>4. CASE UnlinkRemoved(s)
      BY <3>4, <1>t DEF UnlinkRemoved, Carries, RequestStates
    <3>5. CASE FindProfile(s)
      BY <3>1, <3>2, <3>5, <1>t DEF FindProfile, Carries
    <3> QED BY <2>6, <3>3, <3>4, <3>5
  <2>7. ASSUME NEW q \in Pairs, UnlinkRemove(s, q) PROVE Fine
    <3>1. CASE q \in request[s].replaced
      BY <2>7, <3>1, <1>2, <1>t DEF UnlinkRemove
    <3>2. CASE q \notin request[s].replaced
      <4> DEFINE R == [request EXCEPT ![s].links = @ \ {q}]
      <4>1. R \in [Requests -> RequestStates] /\ R[s].pc = "remove"
        BY <2>7, <1>t DEF UnlinkRemove, RequestStates
      <4>2. DeleteLink(q, R)
        BY <2>7, <3>2 DEF UnlinkRemove
      <4> HIDE DEF R
      <4>3. request'[s].pc = "remove"
        BY <4>1, <4>2, DeleteKeeps
      <4> QED BY <4>3 DEF Carries
    <3> QED BY <3>1, <3>2
  <2> QED BY <1>7, <2>1, <2>2, <2>3, <2>4, <2>5, <2>6, <2>7 DEF RequestSteps
<1> QED BY <1>3, <1>5, <1>6, <1>7, OthersLeaveUntouched DEF OwnStep

-----------------------------------------------------------------------------
(* Access.                                                                 *)

LEMMA AccessStep ==
  /\ IdentityTypeOK /\ HistoryOK /\ RequestOK /\ AccessFollowsDirectLinks
  /\ IdentityNext
  => AccessFollowsDirectLinks'
<1> SUFFICES ASSUME IdentityTypeOK, HistoryOK, RequestOK, AccessFollowsDirectLinks,
                    IdentityNext, NEW a \in Accounts, NEW p \in Profiles,
                    <<a, p>> \in everAccess'
             PROVE  \/ creator'[p] = a
                    \/ \E b \in Accounts \ {a} :
                         Pair(a, b) \in everLinked' /\ <<b, p>> \in everAccess'
  BY DEF AccessFollowsDirectLinks
<1> DEFINE Goal ==
      \/ creator'[p] = a
      \/ \E b \in Accounts \ {a} : Pair(a, b) \in everLinked' /\ <<b, p>> \in everAccess'
<1> SUFFICES Goal
  OBVIOUS
<1>g. everLinked \subseteq everLinked' /\ everAccess \subseteq everAccess'
  BY HistoryGrows
<1>t. creator \in [Profiles -> Accounts \cup {None}] /\ access \subseteq everAccess
  BY DEF IdentityTypeOK, HistoryOK
<1>1. CASE <<a, p>> \in everAccess /\ creator'[p] = creator[p]
  BY <1>1, <1>g DEF AccessFollowsDirectLinks
<1>2. ASSUME NEW b \in Accounts, NEW q \in Profiles, CreateProfile(b, q) PROVE Goal
  <2>1. CASE p = q
    <3>1. <<a, p>> \notin everAccess
      BY <1>2, <2>1 DEF CreateProfile, HistoryOK
    <3> QED BY <1>2, <2>1, <3>1, <1>t DEF CreateProfile
  <2>2. CASE p # q
    BY <1>2, <2>2, <1>1, <1>t DEF CreateProfile
  <2> QED BY <2>1, <2>2
<1>3. ASSUME NEW r \in Requests, NEW q \in Profiles, LinkProfile(r, q) PROVE Goal
  <2> DEFINE x == request[r]
  <2>1. /\ x.account \in Accounts /\ Pair(x.account, x.target) \in everLinked
        /\ <<x.account, q>> \in everAccess
    BY <1>3 DEF LinkProfile, RequestOK, Carries
  <2>2. UNCHANGED <<creator, everLinked>>
    BY <1>3 DEF LinkProfile
  <2>3. <<a, p>> \in everAccess \/ (a = x.target /\ p = q)
    BY <1>3, <1>t DEF LinkProfile
  <2>4. CASE a = x.target /\ p = q /\ a # x.account
    <3>1. Pair(a, x.account) = Pair(x.account, x.target)
      BY <2>4 DEF Pair
    <3> QED BY <2>1, <2>2, <2>4, <3>1, <1>g
  <2> QED BY <2>1, <2>2, <2>3, <2>4, <1>1
<1>4. CASE UNCHANGED <<creator, everAccess>>
  BY <1>4, <1>1
<1> HIDE DEF Goal
<1>5. ASSUME NEW r \in Requests, RequestSteps(r), \A q \in Profiles : ~LinkProfile(r, q)
      PROVE  UNCHANGED <<creator, everAccess>>
  BY <1>5 DEF RequestSteps, UpsertLink, LinkUpsert, LinkRead, LinkReply, Visit, UnlinkFind,
     UnlinkRemove, UnlinkRemoved, UnlinkRevoke, FindProfile, SwitchCommit, DeleteCommit, history
<1>6. ASSUME NEW r \in Requests, RequestSteps(r) PROVE Goal
  BY <1>3, <1>4, <1>5, <1>6
<1>7. CASE \/ \E b, c \in Accounts : LinkSocial(b, c)
           \/ \E q \in Pairs : UnlinkSocial(q) \/ \E mode \in Modes : SetLinkPrivacyMode(q, mode)
  BY <1>7, <1>4 DEF LinkSocial, UpsertLink, UnlinkSocial, SetLinkPrivacyMode, history
<1>8. ASSUME NEW r \in Requests, NEW b \in Accounts, NEW c \in Accounts, NEW mode \in Modes,
             LinkCheck(r, b, c, mode)
      PROVE  Goal
  BY <1>8, <1>4 DEF LinkCheck, history
<1>9. ASSUME NEW r, NEW kind, NEW b, NEW c, NEW q, Begin(r, kind, b, c, q)
      PROVE  Goal
  BY <1>9, <1>4 DEF Begin, history
<1> QED BY <1>2, <1>6, <1>7, <1>8, <1>9
        DEF IdentityNext, UnlinkAccounts, SwitchProfile, DeleteProfile

-----------------------------------------------------------------------------
(* The search.                                                             *)

\* One hop further is still reachable.
LEMMA OneHop ==
  ASSUME NEW a \in Accounts, NEW c \in Reachable(a)
  PROVE  Neighbours(c) \subseteq Reachable(a)
BY DEF Reachable, Neighbours

\* What a holds and no link leaves is all that can be reached.
LEMMA ClosedIsAll ==
  ASSUME NEW a \in Accounts, NEW S \in SUBSET Accounts, a \in S,
         \A c \in S : Neighbours(c) \subseteq S
  PROVE  Reachable(a) \subseteq S
<1>1. \A c \in S, d \in Accounts \ S : LinkOf(c, d) \in {"none", "isolated"}
  BY DEF Neighbours
<1> QED BY <1>1 DEF Reachable

\* Links that stay as they are leave the graph as it is.
LEMMA SameGraph ==
  UNCHANGED link => \A a : Neighbours(a)' = Neighbours(a) /\ Reachable(a)' = Reachable(a)
BY DEF Neighbours, Reachable, LinkOf

\* A request that is still traversing after its own step visited an account.
LEMMA OnlyVisits ==
  ASSUME IdentityTypeOK, NEW s \in Requests, RequestSteps(s), request'[s].pc = "traverse"
  PROVE  \E a \in Accounts : Visit(s, a)
<1> SUFFICES ASSUME \A a \in Accounts : ~Visit(s, a) PROVE FALSE
  OBVIOUS
<1>t. request \in [Requests -> RequestStates]
  BY DEF IdentityTypeOK
<1>1. CASE LinkUpsert(s)
  <2> DEFINE R == [request EXCEPT ![s].pc = "read"]
  <2>1. R \in [Requests -> RequestStates] /\ R[s].pc = "read"
    BY <1>t DEF RequestStates
  <2>2. request' = Unsteady(R)
    BY <1>1 DEF LinkUpsert, UpsertLink
  <2> HIDE DEF R
  <2> QED BY <2>1, <2>2, UnsteadyKeeps
<1>2. ASSUME NEW q \in Pairs, UnlinkRemove(s, q) PROVE FALSE
  <2>1. CASE q \in request[s].replaced
    BY <1>2, <2>1, <1>t DEF UnlinkRemove, IdleRequest
  <2>2. CASE q \notin request[s].replaced
    <3> DEFINE R == [request EXCEPT ![s].links = @ \ {q}]
    <3>1. R \in [Requests -> RequestStates] /\ R[s].pc = "remove"
      BY <1>2, <1>t DEF UnlinkRemove, RequestStates
    <3>2. DeleteLink(q, R)
      BY <1>2, <2>2 DEF UnlinkRemove
    <3> HIDE DEF R
    <3> QED BY <3>1, <3>2, DeleteKeeps
  <2> QED BY <2>1, <2>2
<1>3. CASE LinkReply(s) \/ UnlinkRevoke(s) \/ SwitchCommit(s) \/ DeleteCommit(s)
  BY <1>3, <1>t DEF LinkReply, UnlinkRevoke, SwitchCommit, DeleteCommit, IdleRequest
<1>4. CASE LinkRead(s) \/ UnlinkRemoved(s) \/ \E p \in Profiles : LinkProfile(s, p)
  BY <1>4, <1>t DEF LinkRead, UnlinkRemoved, LinkProfile, RequestStates
<1>5. CASE UnlinkFind(s) \/ FindProfile(s)
  <2>1. ASSUME NEW pc \in {"remove", "commit"}
        PROVE Continue(s, pc).pc = pc /\ \A l : [Continue(s, pc) EXCEPT !.links = l].pc = pc
    BY <1>t DEF Continue, RequestStates
  <2>2. IdleRequest.pc = "idle"
    BY DEF IdleRequest
  <2> QED BY <1>5, <2>1, <2>2, <1>t DEF UnlinkFind, FindProfile
<1> QED BY <1>1, <1>2, <1>3, <1>4, <1>5 DEF RequestSteps

LEMMA SearchStep ==
  IdentityTypeOK /\ RequestOK /\ SearchOK /\ IdentityNext => SearchOK'
<1> SUFFICES ASSUME IdentityTypeOK, RequestOK, SearchOK, IdentityNext, NEW s \in Requests,
                    request'[s].pc = "traverse", request'[s].steady
             PROVE Searched(request[s])'
  BY DEF SearchOK
<1> DEFINE x == request[s]
           y == request'[s]
<1>t. request \in [Requests -> RequestStates]
  BY DEF IdentityTypeOK
<1>1. CASE Untouched(s)
  <2>1. x.pc = "traverse" /\ x.links = {}
    BY <1>1 DEF Untouched, RequestOK, Carries
  <2>2. y = x /\ UNCHANGED link
    BY <1>1, <2>1 DEF Untouched
  <2>3. Searched(x)
    BY <2>1, <2>2 DEF SearchOK
  <2> QED BY <2>2, <2>3, SameGraph DEF Searched
<1>2. ASSUME NEW kind, NEW a \in Accounts, NEW b, NEW p, Begin(s, kind, a, b, p)
      PROVE Searched(request[s])'
  <2>1. /\ y.account = a /\ y.visited = {a} /\ y.frontier = {a}
        /\ UNCHANGED link
    BY <1>2, <1>t DEF Begin, IdleRequest
  <2>2. a \in Reachable(a)
    BY DEF Reachable
  <2> QED BY <2>1, <2>2, SameGraph DEF Searched
<1>3. ASSUME NEW a \in Accounts, Visit(s, a) PROVE Searched(request[s])'
  <2>1. /\ y.account = x.account /\ y.visited = x.visited \cup Neighbours(a)
        /\ y.frontier = (x.frontier \ {a}) \cup (Neighbours(a) \ x.visited)
        /\ x.pc = y.pc /\ x.steady = y.steady /\ a \in x.frontier
        /\ UNCHANGED link
    BY <1>3, <1>t DEF Visit, RequestStates
  <2>2. Searched(x) /\ x.account \in Accounts
    BY <2>1 DEF SearchOK, RequestOK, Carries
  <2>3. Neighbours(a) \subseteq Reachable(x.account)
    BY <2>1, <2>2, OneHop DEF Searched
  <2>4. /\ y.account \in y.visited /\ y.frontier \subseteq y.visited
        /\ y.visited \subseteq Reachable(y.account)
    BY <2>1, <2>2, <2>3 DEF Searched
  <2>5. \A c \in y.visited \ y.frontier : Neighbours(c) \subseteq y.visited
    <3> SUFFICES ASSUME NEW c \in y.visited \ y.frontier
                 PROVE Neighbours(c) \subseteq y.visited
      OBVIOUS
    <3>1. c = a \/ c \in x.visited \ x.frontier
      BY <2>1
    <3> QED BY <3>1, <2>1, <2>2 DEF Searched
  <2> QED BY <2>1, <2>4, <2>5, SameGraph DEF Searched
<1>4. ASSUME NEW a \in Accounts, NEW b \in Accounts, NEW mode, LinkCheck(s, a, b, mode)
      PROVE FALSE
  BY <1>4, <1>t DEF LinkCheck, IdleRequest
<1>5. ASSUME RequestSteps(s) PROVE \E a \in Accounts : Visit(s, a)
  BY <1>5, OnlyVisits
<1> QED BY <1>1, <1>2, <1>3, <1>4, <1>5, OthersLeaveUntouched DEF OwnStep

-----------------------------------------------------------------------------
(* The theorems.                                                           *)

LEMMA InitIdentityInv == IdentityInit => IdentityInv
<1> SUFFICES ASSUME IdentityInit PROVE IdentityInv
  OBVIOUS
<1>1. IdentityTypeOK
  BY IdleIsState DEF IdentityInit, IdentityTypeOK
<1>2. \A r \in Requests : request[r] = IdleRequest
  BY DEF IdentityInit
<1>3. RequestOK /\ SearchOK
  BY <1>2 DEF RequestOK, SearchOK, Carries, IdleRequest
<1> QED BY <1>1, <1>3 DEF IdentityInit, IdentityInv, HistoryOK, AccessFollowsDirectLinks

\* The inductive invariant holds in every reachable state.
THEOREM IdentityInvariance == IdentitySpec => []IdentityInv
<1>1. IdentityInv /\ IdentityNext => IdentityInv'
  BY TypeStep, HistoryStep, RequestStep, SearchStep, AccessStep DEF IdentityInv
<1>2. IdentityInv /\ UNCHANGED identityVars => IdentityInv'
  <2> SUFFICES ASSUME IdentityInv, UNCHANGED identityVars PROVE IdentityInv'
    OBVIOUS
  <2>1. UNCHANGED <<link, profile, active, access, request, creator, everLinked, everAccess>>
    BY DEF identityVars, history
  <2>2. IdentityTypeOK'
    BY TypeStep DEF IdentityInv
  <2>3. HistoryOK' /\ RequestOK' /\ AccessFollowsDirectLinks'
    BY <2>1 DEF IdentityInv, HistoryOK, RequestOK, Carries, AccessFollowsDirectLinks
  <2>4. SearchOK'
    BY <2>1, SameGraph DEF IdentityInv, SearchOK, Searched
  <2> QED BY <2>2, <2>3, <2>4 DEF IdentityInv
<1> QED BY InitIdentityInv, <1>1, <1>2, PTL DEF IdentitySpec

\* Links, profiles, access and requests stay well formed, and neither access
\* nor an active mark outlives its profile.
THEOREM IdentityTypeCorrect == IdentitySpec => []IdentityTypeOK
<1>1. IdentityInv => IdentityTypeOK
  BY DEF IdentityInv
<1> QED BY IdentityInvariance, <1>1, PTL

\* Direct access to a profile is only ever given to its creator and to accounts
\* linked with another account that had it: never along two links at once.
THEOREM AccessIsDirect == IdentitySpec => []AccessFollowsDirectLinks
<1>1. IdentityInv => AccessFollowsDirectLinks
  BY DEF IdentityInv
<1> QED BY IdentityInvariance, <1>1, PTL

\* The breadth-first search of getLinkedAccounts computes reachability in every
\* graph that stays as it is while the search runs, whatever its cycles.
THEOREM SearchIsReachability == IdentitySpec => []TraversalIsReachability
<1>1. IdentityInv => TraversalIsReachability
  <2> SUFFICES ASSUME IdentityInv, NEW r \in Requests, request[r].pc = "traverse",
                      request[r].frontier = {}, request[r].steady
               PROVE request[r].visited = Reachable(request[r].account)
    BY DEF TraversalIsReachability
  <2>1. Searched(request[r]) /\ request[r].account \in Accounts
    BY DEF IdentityInv, SearchOK, RequestOK, Carries
  <2>2. request[r].visited \in SUBSET Accounts
    BY DEF IdentityInv, IdentityTypeOK, RequestStates
  <2> QED BY <2>1, <2>2, ClosedIsAll DEF Searched
<1> QED BY IdentityInvariance, <1>1, PTL

\* The search takes every account from its queue at most once, whatever links
\* others make meanwhile.
THEOREM SearchGoesOn == IdentitySpec => SearchAdvances
<1>1. ASSUME IdentityInv, IdentityNext, NEW s \in Requests PROVE Advances(s)
  <2> SUFFICES ASSUME request[s].pc = "traverse", request'[s].pc = "traverse",
                      Queue(request'[s]) # Queue(request[s])
               PROVE \/ request[s].visited \subseteq request'[s].visited
                        /\ request[s].visited # request'[s].visited
                     \/ /\ request'[s].visited = request[s].visited
                        /\ request'[s].frontier \subseteq request[s].frontier
    BY DEF Advances
  <2>t. IdentityTypeOK /\ request \in [Requests -> RequestStates]
    BY <1>1 DEF IdentityInv, IdentityTypeOK
  <2>1. RequestSteps(s)
    BY <1>1, <2>t, OthersLeaveUntouched DEF Untouched, OwnStep, LinkCheck, Begin
  <2>2. PICK a \in Accounts : Visit(s, a)
    BY <2>1, <2>t, OnlyVisits
  <2>3. /\ request'[s].visited = request[s].visited \cup Neighbours(a)
        /\ request'[s].frontier = (request[s].frontier \ {a}) \cup (Neighbours(a) \ request[s].visited)
    BY <2>2, <2>t DEF Visit, RequestStates
  <2> QED BY <2>3
<1>2. UNCHANGED identityVars => AllAdvance
  BY DEF identityVars, Queue, AllAdvance, Advances
<1>3. IdentityInv /\ [IdentityNext]_identityVars => [AllAdvance]_identityVars
  BY <1>1, <1>2 DEF AllAdvance
<1> QED BY IdentityInvariance, <1>3, PTL DEF IdentitySpec, SearchAdvances
=============================================================================
