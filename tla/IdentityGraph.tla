--------------------------- MODULE IdentityGraph ---------------------------
(***************************************************************************)
(* The flat identity model: accounts are nodes of a graph of identity      *)
(* links, and profiles are reached through ProfileAccount rows ("direct"   *)
(* access) or through the rows of any account the graph leads to.          *)
(*                                                                         *)
(* linkAccounts, unlinkAccounts, switchProfile and the deletion of a       *)
(* profile are requests of several awaited steps that run beside each      *)
(* other; getLinkedAccounts awaits one query per account it visits.  The   *)
(* order of rows a query without orderBy gives, and so the order of the    *)
(* loops over them, is left open.  Every account is taken to be verified,  *)
(* and found or created before the request.                                *)
(***************************************************************************)
CONSTANTS
  Accounts,
  Profiles,   \* ids of profiles; one is used once
  Requests,   \* requests under way at the same time
  Modes,      \* the privacy modes clients ask for
  SelfLinks,  \* does a client name its own account to link or unlink
  None        \* no account, no profile

AllModes == {"linked", "partial", "isolated"}

ASSUME IdentityConstants ==
  /\ None \notin Accounts /\ None \notin Profiles
  /\ Modes \subseteq AllModes
  /\ SelfLinks \in BOOLEAN

VARIABLES
  link,     \* the identity_links rows: privacyMode, or "none" without a row
  profile,  \* the smart_profiles rows
  active,   \* the profiles with isActive
  access,   \* the profile_accounts rows, as <<account, profile>>
  request,  \* where each request stands
  creator,    \* history: the account that created a profile
  everLinked, \* history: the pairs that had a link at some time
  everAccess  \* history: the rows that `access` had at some time

history == <<creator, everLinked, everAccess>>
identityVars == <<link, profile, active, access, request, history>>

\* The ids of a link's accounts are sorted.
Pair(a, b) == {a, b}
Pairs == {q \in {Pair(a, b) : a, b \in Accounts} :
            SelfLinks \/ \E a, b \in q : a # b}

LinkOf(a, b) == IF Pair(a, b) \in Pairs THEN link[Pair(a, b)] ELSE "none"

Direct(a) == {p \in Profiles : <<a, p>> \in access}

IdleRequest ==
  [kind |-> "none", pc |-> "idle", account |-> None, target |-> None,
   goal |-> None, mode |-> "none", visited |-> {}, frontier |-> {},
   links |-> {}, replaced |-> {}, profiles |-> {}, steady |-> TRUE]

RequestStates ==
  [kind : {"none", "link", "unlink", "switch", "delete"},
   pc : {"idle", "upsert", "read", "grant", "traverse", "remove", "revoke", "commit"},
   account : Accounts \cup {None}, target : Accounts \cup {None},
   goal : Profiles \cup {None}, mode : AllModes \cup {"none"},
   visited : SUBSET Accounts, frontier : SUBSET Accounts,
   links : SUBSET Pairs, replaced : SUBSET Pairs, profiles : SUBSET Profiles,
   steady : BOOLEAN]

IdentityInit ==
  /\ link = [q \in Pairs |-> "none"]
  /\ profile = [p \in Profiles |-> "unused"]
  /\ active = {}
  /\ access = {}
  /\ request = [r \in Requests |-> IdleRequest]
  /\ creator = [p \in Profiles |-> None]
  /\ everLinked = {}
  /\ everAccess = {}

-----------------------------------------------------------------------------
(* Links.  A request that traverses the graph learns nothing of a change;  *)
(* `steady` only remembers whether there was one.  unlinkAccounts deletes  *)
(* the rows it has read by their ids: `replaced` holds those that somebody *)
(* else has deleted since.                                                 *)

Unsteady(requests) ==
  [r \in Requests |->
     IF requests[r].pc = "traverse" THEN [requests[r] EXCEPT !.steady = FALSE]
     ELSE requests[r]]

\* AccountService.linkAccounts upserts; an existing row takes the new mode.
UpsertLink(q, mode, requests) ==
  /\ link' = [link EXCEPT ![q] = mode]
  /\ everLinked' = everLinked \cup {q}
  /\ request' = Unsteady(requests)

DeleteLink(q, requests) ==
  /\ link' = [link EXCEPT ![q] = "none"]
  /\ request' = [r \in Requests |->
       IF q \in requests[r].links
       THEN [requests[r] EXCEPT !.replaced = @ \cup {q}]
       ELSE Unsteady(requests)[r]]

\* The routes that link a social account or a wallet in one step, with mode
\* 'linked' whatever it was before.
LinkSocial(a, b) ==
  /\ Pair(a, b) \in Pairs
  /\ UpsertLink(Pair(a, b), "linked", request)
  /\ UNCHANGED <<profile, active, access, creator, everAccess>>

\* DELETE /users/me/social-accounts/:id removes the link and nothing else.
UnlinkSocial(q) ==
  /\ link[q] # "none"
  /\ DeleteLink(q, request)
  /\ UNCHANGED <<profile, active, access, history>>

SetLinkPrivacyMode(q, mode) ==
  /\ link[q] # "none"
  /\ link' = [link EXCEPT ![q] = mode]
  /\ request' = Unsteady(request)
  /\ UNCHANGED <<profile, active, access, history>>

-----------------------------------------------------------------------------
(* Profiles.                                                               *)

\* One serializable transaction; a new profile is not active.
CreateProfile(a, p) ==
  /\ profile[p] = "unused"
  /\ profile' = [profile EXCEPT ![p] = "live"]
  /\ creator' = [creator EXCEPT ![p] = a]
  /\ access' = access \cup {<<a, p>>}
  /\ everAccess' = everAccess \cup {<<a, p>>}
  /\ UNCHANGED <<link, active, request, everLinked>>

-----------------------------------------------------------------------------
(* linkAccounts of AuthControllerV2.                                       *)

\* An existing link, whatever its mode, is kept as it is.
LinkCheck(r, a, b, mode) ==
  /\ request[r].pc = "idle"
  /\ Pair(a, b) \in Pairs
  /\ request' = [request EXCEPT ![r] =
       [IdleRequest EXCEPT !.kind = "link", !.account = a, !.target = b,
          !.mode = mode,
          !.pc = IF link[Pair(a, b)] = "none" THEN "upsert" ELSE "read"]]
  /\ UNCHANGED <<link, profile, active, access, history>>

LinkUpsert(r) ==
  /\ request[r].pc = "upsert"
  /\ UpsertLink(Pair(request[r].account, request[r].target), request[r].mode,
                [request EXCEPT ![r].pc = "read"])
  /\ UNCHANGED <<profile, active, access, creator, everAccess>>

\* A mutation: the profiles of the neighbours in the graph are shared too.
LinkReadGraph(r) ==
  LET near == {b \in Accounts :
                 LinkOf(request[r].account, b) \notin {"none", "isolated"}}
  IN /\ request[r].pc = "read"
     /\ request' = [request EXCEPT ![r].pc = "grant",
          ![r].profiles = UNION {Direct(b) : b \in near \cup {request[r].account}}]
     /\ UNCHANGED <<link, profile, active, access, history>>

\* getDirectlyLinkedProfiles of the current account.
LinkRead(r) ==
  /\ request[r].pc = "read"
  /\ request' = [request EXCEPT ![r].pc = "grant",
       ![r].profiles = Direct(request[r].account)]
  /\ UNCHANGED <<link, profile, active, access, history>>

\* A mutation: the row is stored although the profile is gone.
LinkProfileUnchecked(r, p) ==
  /\ request[r].pc = "grant" /\ p \in request[r].profiles
  /\ access' = access \cup {<<request[r].target, p>>}
  /\ everAccess' = everAccess \cup access'
  /\ request' = [request EXCEPT ![r].profiles = @ \ {p}]
  /\ UNCHANGED <<link, profile, active, creator, everLinked>>

\* linkProfileToAccount, once for each profile; an error (the profile is gone)
\* is logged and the loop goes on.
LinkProfile(r, p) ==
  /\ request[r].pc = "grant" /\ p \in request[r].profiles
  /\ access' = IF profile[p] = "live" THEN access \cup {<<request[r].target, p>>}
               ELSE access
  /\ everAccess' = everAccess \cup access'
  /\ request' = [request EXCEPT ![r].profiles = @ \ {p}]
  /\ UNCHANGED <<link, profile, active, creator, everLinked>>

LinkReply(r) ==
  /\ request[r].pc = "grant" /\ request[r].profiles = {}
  /\ request' = [request EXCEPT ![r] = IdleRequest]
  /\ UNCHANGED <<link, profile, active, access, history>>

-----------------------------------------------------------------------------
(* getLinkedAccounts, the breadth-first search.                            *)

Begin(r, kind, a, b, p) ==
  /\ request[r].pc = "idle"
  /\ request' = [request EXCEPT ![r] =
       [IdleRequest EXCEPT !.kind = kind, !.pc = "traverse", !.account = a,
          !.target = b, !.goal = p, !.visited = {a}, !.frontier = {a}]]
  /\ UNCHANGED <<link, profile, active, access, history>>

\* Of the accounts the search collects, unlinkAccounts takes the target out.
UnlinkAccounts(r, a, b) ==
  /\ a # b \/ SelfLinks
  /\ Begin(r, "unlink", a, b, None)

\* A switch and a deletion want a profile of one of them.
SwitchProfile(r, a, p) == profile[p] # "unused" /\ Begin(r, "switch", a, None, p)
DeleteProfile(r, a, p) == profile[p] # "unused" /\ Begin(r, "delete", a, None, p)

\* A mutation: isolated links are followed.
NeighboursAnyMode(a) == {b \in Accounts : LinkOf(a, b) # "none"}

Neighbours(a) == {b \in Accounts : LinkOf(a, b) \notin {"none", "isolated"}}

\* A mutation: accounts are queued again.
VisitAgain(r, a) ==
  /\ request[r].pc = "traverse" /\ a \in request[r].frontier
  /\ request' = [request EXCEPT ![r].visited = @ \cup Neighbours(a),
       ![r].frontier = (@ \ {a}) \cup Neighbours(a)]
  /\ UNCHANGED <<link, profile, active, access, history>>

\* One account is taken from the queue and its links are read.
Visit(r, a) ==
  /\ request[r].pc = "traverse" /\ a \in request[r].frontier
  /\ request' = [request EXCEPT ![r].visited = @ \cup Neighbours(a),
       ![r].frontier = (@ \ {a}) \cup (Neighbours(a) \ request[r].visited)]
  /\ UNCHANGED <<link, profile, active, access, history>>

Traversed(r, kind) ==
  /\ request[r].pc = "traverse" /\ request[r].frontier = {}
  /\ request[r].kind = kind

\* The request goes on where it came back from the search.
Continue(r, pc) ==
  [request[r] EXCEPT !.pc = pc, !.visited = {}, !.steady = TRUE]

-----------------------------------------------------------------------------
(* unlinkAccounts: all links of the target, then all its direct access.    *)

\* 404 unless the target is in the graph, else its links are read.
UnlinkFind(r) ==
  LET b == request[r].target
  IN /\ Traversed(r, "unlink")
     /\ request' = [request EXCEPT ![r] =
          IF b \in request[r].visited
          THEN [Continue(r, "remove") EXCEPT
                  !.links = {q \in Pairs : b \in q /\ link[q] # "none"}]
          ELSE IdleRequest]
     /\ UNCHANGED <<link, profile, active, access, history>>

\* The deletion of a row that is gone throws and ends the request.
UnlinkRemove(r, q) ==
  /\ request[r].pc = "remove" /\ q \in request[r].links
  /\ IF q \in request[r].replaced
     THEN /\ request' = [request EXCEPT ![r] = IdleRequest]
          /\ UNCHANGED link
     ELSE DeleteLink(q, [request EXCEPT ![r].links = @ \ {q}])
  /\ UNCHANGED <<profile, active, access, history>>

UnlinkRemoved(r) ==
  /\ request[r].pc = "remove" /\ request[r].links = {}
  /\ request' = [request EXCEPT ![r].pc = "revoke"]
  /\ UNCHANGED <<link, profile, active, access, history>>

UnlinkRevoke(r) ==
  /\ request[r].pc = "revoke"
  /\ access' = {row \in access : row[1] # request[r].target}
  /\ request' = [request EXCEPT ![r] = IdleRequest]
  /\ UNCHANGED <<link, profile, active, history>>

-----------------------------------------------------------------------------
(* switchProfile and the deletion of a profile: the controller looks for   *)
(* the profile among those of the whole graph, and the service then asks   *)
(* for a row of the account itself.                                        *)

FindProfile(r) ==
  /\ Traversed(r, "switch") \/ Traversed(r, "delete")
  /\ request' = [request EXCEPT ![r] =
       IF \E b \in request[r].visited : <<b, request[r].goal>> \in access
       THEN Continue(r, "commit") ELSE IdleRequest]
  /\ UNCHANGED <<link, profile, active, access, history>>

\* One serializable transaction: the account's profiles are deactivated and
\* the one asked for activated, or 404 without a row of the account.
SwitchCommit(r) ==
  LET mine == Direct(request[r].account)
      p == request[r].goal
  IN /\ request[r].pc = "commit" /\ request[r].kind = "switch"
     /\ active' = IF p \in mine THEN (active \ mine) \cup {p} ELSE active
     /\ request' = [request EXCEPT ![r] = IdleRequest]
     /\ UNCHANGED <<link, profile, access, history>>

\* One serializable transaction: the rows of all accounts and the profile.
DeleteCommit(r) ==
  LET p == request[r].goal
  IN /\ request[r].pc = "commit" /\ request[r].kind = "delete"
     /\ IF p \in Direct(request[r].account)
        THEN /\ access' = {row \in access : row[2] # p}
             /\ profile' = [profile EXCEPT ![p] = "deleted"]
             /\ active' = active \ {p}
        ELSE UNCHANGED <<access, profile, active>>
     /\ request' = [request EXCEPT ![r] = IdleRequest]
     /\ UNCHANGED <<link, history>>

-----------------------------------------------------------------------------
RequestSteps(r) ==
  \/ LinkUpsert(r)
  \/ LinkRead(r)
  \/ \E p \in Profiles : LinkProfile(r, p)
  \/ LinkReply(r)
  \/ \E a \in Accounts : Visit(r, a)
  \/ UnlinkFind(r)
  \/ \E q \in Pairs : UnlinkRemove(r, q)
  \/ UnlinkRemoved(r)
  \/ UnlinkRevoke(r)
  \/ FindProfile(r)
  \/ SwitchCommit(r)
  \/ DeleteCommit(r)

IdentityNext ==
  \/ \E a, b \in Accounts : LinkSocial(a, b)
  \/ \E q \in Pairs :
       \/ UnlinkSocial(q)
       \/ \E mode \in Modes : SetLinkPrivacyMode(q, mode)
  \/ \E a \in Accounts, p \in Profiles : CreateProfile(a, p)
  \/ \E r \in Requests :
       \/ \E a, b \in Accounts :
            \/ \E mode \in Modes : LinkCheck(r, a, b, mode)
            \/ UnlinkAccounts(r, a, b)
       \/ \E a \in Accounts, p \in Profiles : SwitchProfile(r, a, p) \/ DeleteProfile(r, a, p)
       \/ RequestSteps(r)

IdentitySpec == IdentityInit /\ [][IdentityNext]_identityVars

\* A request once begun goes on: the event loop.
IdentityFairSpec ==
  IdentitySpec /\ \A r \in Requests : WF_identityVars(RequestSteps(r))

-----------------------------------------------------------------------------
(* Properties.                                                             *)

\* The accounts that links lead to from a: those in every set that holds a and
\* that no link but an isolated one leaves.
Reachable(a) ==
  {b \in Accounts : \A S \in SUBSET Accounts :
     /\ a \in S
     /\ \A c \in S, d \in Accounts \ S : LinkOf(c, d) \in {"none", "isolated"}
     => b \in S}

\* A type invariant; the rows of access and the active profiles refer to
\* profiles that exist, although profiles are deleted under the requests.
IdentityTypeOK ==
  /\ link \in [Pairs -> AllModes \cup {"none"}]
  /\ profile \in [Profiles -> {"unused", "live", "deleted"}]
  /\ active \subseteq {p \in Profiles : profile[p] = "live"}
  /\ access \subseteq Accounts \X {p \in Profiles : profile[p] = "live"}
  /\ request \in [Requests -> RequestStates]
  /\ creator \in [Profiles -> Accounts \cup {None}]
  /\ everLinked \subseteq Pairs
  /\ everAccess \subseteq Accounts \X Profiles

\* getLinkedAccounts finds all accounts the graph leads to through links that
\* are not isolated, and no other, if no link changed while it ran.
TraversalIsReachability ==
  \A r \in Requests :
    request[r].pc = "traverse" /\ request[r].frontier = {} /\ request[r].steady =>
      request[r].visited = Reachable(request[r].account)

\* "Link the new account ONLY to profiles where the current account is directly
\* linked": whoever was ever given direct access to a profile created it, or
\* was linked with another account that had direct access itself.  Links
\* further away in the graph never give any.
AccessFollowsDirectLinks ==
  \A a \in Accounts, p \in Profiles : <<a, p>> \in everAccess =>
    \/ creator[p] = a
    \/ \E b \in Accounts \ {a} : Pair(a, b) \in everLinked /\ <<b, p>> \in everAccess

Queue(q) == <<q.visited, q.frontier>>

Advances(r) ==
  /\ request[r].pc = "traverse" /\ request'[r].pc = "traverse"
  /\ Queue(request'[r]) # Queue(request[r])
  => \/ request[r].visited \subseteq request'[r].visited
        /\ request[r].visited # request'[r].visited
     \/ /\ request'[r].visited = request[r].visited
        /\ request'[r].frontier \subseteq request[r].frontier

\* Every account is taken from the queue at most once, whatever links others
\* make meanwhile: a step of the search either finds accounts it had not
\* visited, or shortens the queue.  So the search goes round no cycle.
AllAdvance == \A r \in Requests : Advances(r)
SearchAdvances == [][AllAdvance]_identityVars

\* Every request comes to its end, whatever links others make around it: the
\* search goes round no cycle.
RequestsEnd ==
  \A r \in Requests : request[r].pc # "idle" ~> request[r].pc = "idle"

\* Unlinking takes away the profiles "that were only accessible through this
\* identity graph": the creator of a profile keeps its own.
CreatorsKeepTheirProfiles ==
  \A p \in Profiles : profile[p] = "live" => <<creator[p], p>> \in access

\* "The account will need to be re-linked to access these profiles again":
\* direct access is only given to accounts that have a link.
OnlyLinkedGainAccess ==
  [][\A a \in Accounts, p \in Profiles :
       <<a, p>> \in access' \ access /\ creator'[p] # a =>
         \E b \in Accounts : LinkOf(a, b) # "none"]_identityVars

\* Mode 'isolated': "No profile sharing".  Of two accounts whose only link is
\* an isolated one, neither has access to the other's profiles.
IsolatedSharesNothing ==
  \A a, b \in Accounts, p \in Profiles :
    /\ a # b
    /\ LinkOf(a, b) = "isolated"
    /\ \A c \in Accounts \ {b} : LinkOf(a, c) = "none"
    /\ creator[p] = b
    => <<a, p>> \notin access

\* "Switch To: if accessible": a switch to a profile that the graph gives the
\* account access to activates it.
SwitchWorksIfAccessible ==
  [][\A r \in Requests :
       /\ request[r].pc = "commit" /\ request[r].kind = "switch"
       /\ request'[r].pc = "idle"
       /\ \E b \in Reachable(request[r].account) : <<b, request[r].goal>> \in access
       => request[r].goal \in active']_identityVars

\* "isActive: boolean (only one active per user)".
OneActivePerAccount ==
  \A a \in Accounts : \A p, q \in Direct(a) \cap active : p = q
=============================================================================
