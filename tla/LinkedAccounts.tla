--------------------------- MODULE LinkedAccounts ---------------------------
(***************************************************************************)
(* The wallets linked to the profiles of one account, the allowances and   *)
(* the EIP-7702 delegations that hang on them.  The service's own          *)
(* operations are serializable transactions and one step each; the route   *)
(* that links a wallet, the notification of a generated key, the           *)
(* confirmation of a delegation and the choice of an execution path await  *)
(* between their reads and writes.  Delegations of different chains share  *)
(* nothing.                                                                *)
(* Access to the profiles is IdentityGraph's subject; whether a wallet     *)
(* signed, OneTimeCodes'.                                                  *)
(***************************************************************************)
EXTENDS Naturals, FiniteSets

CONSTANTS
    Profiles,       \* smart profiles the account can use
    Wallets,        \* external wallets; any may be linked to several profiles
    Session,        \* marks the row of a profile's own session wallet
    SessionWallets, \* addresses a session wallet may have
    Delegations,    \* bound: AccountDelegation rows
    Requests        \* requests in flight together

ASSUME SessionApart == Session \notin Wallets
\* What a database can hold.
ASSUME FiniteWallets == IsFiniteSet(Wallets)

Addresses == Wallets \union {Session}

VARIABLES
    state,       \* of a LinkedAccount row <<p, a>>: "none", "active", "inactive"
    primary,     \* the rows whose isPrimary is set
    wallet,      \* of a profile: sessionWalletAddress, first a random placeholder
    allowances,  \* the rows with a TokenAllowance
    delegation,  \* the AccountDelegation rows
    graph,       \* wallets with an account linked to the caller's in the identity graph
    req,         \* of a request: its next step and what it has read
    steady,      \* history: of the accounts a request read, those delegated to the
                 \* session wallet it read ever since
    seen         \* history: ... and those delegated to it at some time since

history == <<steady, seen>>
vars == <<state, primary, wallet, allowances, delegation, graph, req, history>>

Rows == Profiles \X Addresses
NoRow == <<>>
NoWallet == <<>>
NoDelegation == [of |-> NoRow, wallet |-> NoWallet, all |-> FALSE, active |-> FALSE]
DelegationRow == [of : Rows, wallet : SessionWallets, all : BOOLEAN, active : BOOLEAN]

Idle == [step |-> "idle", row |-> NoRow, wallet |-> NoWallet, all |-> FALSE, pending |-> {},
         answer |-> "none"]
Steps == {"idle", "creating", "linking", "generated", "signing", "reading", "checking"}
Request == [step : Steps, row : Rows \union {NoRow}, wallet : SessionWallets \union {NoWallet},
            all : BOOLEAN, pending : SUBSET Rows, answer : {"none", "direct", "delegated"}]

Active(p) == {row \in {p} \X Addresses : state[row] = "active"}
Present(row) == state[row] # "none"

\* Allowances and delegations belong to rows that exist (ON DELETE CASCADE),
\* and so does the primary mark.
LinkedTypeOK ==
    /\ state \in [Rows -> {"none", "active", "inactive"}]
    /\ primary \subseteq {row \in Rows : Present(row)}
    /\ wallet \in [Profiles -> SessionWallets]
    /\ allowances \subseteq {row \in Rows : Present(row)}
    /\ delegation \in [Delegations -> DelegationRow \union {NoDelegation}]
    /\ \A d \in Delegations : delegation[d] # NoDelegation => Present(delegation[d].of)
    /\ graph \subseteq Wallets
    /\ req \in [Requests -> Request]
    /\ steady \in [Requests -> SUBSET Rows]
    /\ seen \in [Requests -> SUBSET Rows]

\* createProfile and createAutomaticProfile link the wallet the user signed in
\* with, as primary, to the first profile; or a user came without one.
Init ==
    /\ \E first \in SUBSET Rows :
        /\ Cardinality(first) <= 1 /\ first \subseteq Profiles \X Wallets
        /\ state = [row \in Rows |-> IF row \in first THEN "active" ELSE "none"]
        /\ primary = first
    /\ wallet \in [Profiles -> SessionWallets]
    /\ allowances = {}
    /\ delegation = [d \in Delegations |-> NoDelegation]
    /\ graph = {}
    /\ req = [r \in Requests |-> Idle]
    /\ steady = [r \in Requests |-> {}] /\ seen = [r \in Requests |-> {}]

-----------------------------------------------------------------------------
\* linkAccount: a row that was soft-deleted is not active, and yet it takes the
\* one place the unique index has for it.
LinkAccount(row) ==
    /\ row[2] \in Wallets
    /\ state[row] = "none"
    /\ state' = [state EXCEPT ![row] = "active"]
    /\ primary' = IF Active(row[1]) = {} THEN primary \union {row} ELSE primary
    /\ UNCHANGED <<wallet, allowances, delegation, graph, req>>

\* POST /profiles/:profileId/accounts: the checks ...
LinkAccountToProfile(r, row) ==
    /\ req[r].step = "idle"
    /\ row[2] \in Wallets
    /\ state[row] # "active"
    /\ req' = [req EXCEPT ![r] = [Idle EXCEPT !.step = "creating", !.row = row]]
    /\ UNCHANGED <<state, primary, wallet, allowances, delegation, graph>>

\* ... the row, unless one exists (a 500) ...
LinkCreate(r) ==
    /\ req[r].step = "creating"
    /\ LET row == req[r].row IN
        IF Present(row)
        THEN /\ req' = [req EXCEPT ![r] = Idle]
             /\ UNCHANGED state
        ELSE /\ req' = [req EXCEPT ![r].step = "linking"]
             /\ state' = [state EXCEPT ![row] = "active"]
    /\ UNCHANGED <<primary, wallet, allowances, delegation, graph>>

\* ... and the wallet's account in the identity graph, unless its creation
\* fails, as it does when two requests create the account together.
LinkGraph(r) ==
    /\ req[r].step = "linking"
    /\ \E ok \in BOOLEAN :
        graph' = IF ok THEN graph \union {req[r].row[2]} ELSE graph
    /\ req' = [req EXCEPT ![r] = Idle]
    /\ UNCHANGED <<state, primary, wallet, allowances, delegation>>

\* A session wallet's key was generated, and a client or the webhook says so:
\* the profile's address is replaced first ...
HandleKeyGenerated(r, p) ==
    /\ req[r].step = "idle"
    /\ \E w \in SessionWallets : wallet' = [wallet EXCEPT ![p] = w]
    /\ req' = [req EXCEPT ![r] = [Idle EXCEPT !.step = "generated", !.row = <<p, Session>>]]
    /\ UNCHANGED <<state, primary, allowances, delegation, graph>>

\* ... and the wallet's row is created or made active, unless the mapping of the
\* key or the row itself fails.
LinkSessionWallet(r) ==
    /\ req[r].step = "generated"
    /\ \E ok \in BOOLEAN :
        state' = IF ok THEN [state EXCEPT ![req[r].row] = "active"] ELSE state
    /\ req' = [req EXCEPT ![r] = Idle]
    /\ UNCHANGED <<primary, wallet, allowances, delegation, graph>>

\* The rows that lose the primary mark when row gets it.
Others(row) == ({row[1]} \X Addresses) \ {row}

\* isPrimary may be set on, or taken from, any row that exists.  Setting it on
\* a row that has it clears nothing.
UpdateLinkedAccount(row) ==
    /\ Present(row)
    /\ \/ /\ row \notin primary
          /\ primary' = (primary \ Others(row)) \union {row}
       \/ /\ row \in primary
          /\ primary' = primary \ {row}
    /\ UNCHANGED <<state, wallet, allowances, delegation, graph, req>>

\* The other rows of the wallet: a session wallet is in one profile only.
Elsewhere(row) ==
    {other \in Rows \ {row} : other[2] = row[2] /\ row[2] # Session /\ state[other] = "active"}

\* A mutation: the next account is looked for only when three are active.
PromotedLate(row) ==
    IF row \in primary /\ Cardinality(Active(row[1])) > 2
    THEN {{next} : next \in Active(row[1]) \ {row}}
    ELSE {{}}

\* The rows an unlink may make primary, in no stated order.  A row that is
\* inactive already counts like one that is not.
Promoted(row) ==
    IF row \in primary /\ Cardinality(Active(row[1])) > 1
    THEN {{next} : next \in Active(row[1]) \ {row}}
    ELSE {{}}

\* A mutation: the foreign key of the allowances does not cascade.
CascadeForgotten(row) ==
    /\ allowances' = allowances
    /\ delegation' = [d \in Delegations |->
                         IF delegation[d].of = row THEN NoDelegation ELSE delegation[d]]

\* What goes with a row.
Cascade(row) ==
    /\ allowances' = allowances \ {row}
    /\ delegation' = [d \in Delegations |->
                         IF delegation[d].of = row THEN NoDelegation ELSE delegation[d]]

\* The row is soft-deleted; it is deleted when the wallet is active nowhere
\* else.
UnlinkAccount(row) ==
    /\ Present(row)
    /\ \E promoted \in Promoted(row) :
        IF Elsewhere(row) = {}
        THEN /\ state' = [state EXCEPT ![row] = "none"]
             /\ primary' = (primary \union promoted) \ {row}
             /\ Cascade(row)
        ELSE /\ state' = [state EXCEPT ![row] = "inactive"]
             /\ primary' = primary \union promoted
             /\ UNCHANGED <<allowances, delegation>>
    /\ UNCHANGED <<wallet, graph, req>>

GrantTokenAllowance(row) ==
    /\ state[row] = "active"
    /\ allowances' = allowances \union {row}
    /\ UNCHANGED <<state, primary, wallet, delegation, graph, req>>

-----------------------------------------------------------------------------
ActiveDelegation(row, w) ==
    \E d \in Delegations : /\ delegation[d].of = row /\ delegation[d].wallet = w
                           /\ delegation[d].active

\* What the wallet is asked to sign: only if there is no active delegation, and
\* with the permissions the user chose (all of them, or some).  The session
\* wallet is the one the client names; without one the route answers 500.
CreateDelegationAuthorization(r, row, w) ==
    /\ req[r].step = "idle"
    /\ Present(row) /\ row[2] \in Wallets
    /\ ~ActiveDelegation(row, w)
    /\ \E all \in BOOLEAN :
        req' = [req EXCEPT ![r] =
                   [Idle EXCEPT !.step = "signing", !.row = row, !.wallet = w, !.all = all]]
    /\ UNCHANGED <<state, primary, wallet, allowances, delegation, graph>>

\* The confirmation's route passes on neither permissions nor expiry, so that
\* all permissions are stored, for ever, whatever was asked.
Confirmed(row, w) == [of |-> row, wallet |-> w, all |-> TRUE, active |-> TRUE]

\* The confirmation checks that the row exists and the signature.
StoreDelegation(r) ==
    /\ req[r].step = "signing"
    /\ IF Present(req[r].row)
       THEN \E d \in Delegations :
              /\ delegation[d] = NoDelegation
              /\ delegation' = [delegation EXCEPT ![d] = Confirmed(req[r].row, req[r].wallet)]
       ELSE UNCHANGED delegation
    /\ req' = [req EXCEPT ![r] = Idle]
    /\ UNCHANGED <<state, primary, wallet, allowances, graph>>

\* The user does not sign.
SigningRefused(r) ==
    /\ req[r].step = "signing"
    /\ req' = [req EXCEPT ![r] = Idle]
    /\ UNCHANGED <<state, primary, wallet, allowances, delegation, graph>>

RevokeDelegation(d) ==
    /\ delegation[d].active
    /\ delegation' = [delegation EXCEPT ![d].active = FALSE]
    /\ UNCHANGED <<state, primary, wallet, allowances, graph, req>>

\* hasActiveDelegation asks by address, not by row.
HasActiveDelegation(a, w) ==
    \E d \in Delegations : delegation[d].of # NoRow /\ delegation[d].of[2] = a
                           /\ delegation[d].wallet = w /\ delegation[d].active

\* determineBestExecutionPath reads the profile ...
DetermineBestExecutionPath(r, p) ==
    /\ req[r].step = "idle"
    /\ req' = [req EXCEPT ![r] = [Idle EXCEPT !.step = "reading", !.row = <<p, Session>>,
                                              !.wallet = wallet[p]]]
    /\ UNCHANGED <<state, primary, wallet, allowances, delegation, graph>>

\* ... with its active accounts (a query of its own) ...
ReadActiveAccounts(r) ==
    /\ req[r].step = "reading"
    /\ req' = [req EXCEPT ![r].step = "checking", ![r].pending = Active(req[r].row[1])]
    /\ UNCHANGED <<state, primary, wallet, allowances, delegation, graph>>

\* A mutation: only the primary account is asked for.
CheckFirstAccount(r) ==
    /\ req[r].step = "checking"
    /\ req' = [req EXCEPT ![r].step = "idle", ![r].pending = {},
                  ![r].answer = IF \E row \in req[r].pending :
                                      row \in primary /\ HasActiveDelegation(row[2], req[r].wallet)
                                THEN "delegated" ELSE "direct"]
    /\ UNCHANGED <<state, primary, wallet, allowances, delegation, graph>>

\* ... and asks for each of them in turn.
CheckNextAccount(r) ==
    /\ req[r].step = "checking"
    /\ IF req[r].pending = {}
       THEN req' = [req EXCEPT ![r].step = "idle", ![r].answer = "direct"]
       ELSE \E row \in req[r].pending :
              req' = IF HasActiveDelegation(row[2], req[r].wallet)
                     THEN [req EXCEPT ![r].step = "idle", ![r].pending = {},
                                      ![r].answer = "delegated"]
                     ELSE [req EXCEPT ![r].pending = @ \ {row}]
    /\ UNCHANGED <<state, primary, wallet, allowances, delegation, graph>>

\* Whether an account is delegated to the session wallet that q read.
DelegatedTo(q) == {row \in Rows : HasActiveDelegation(row[2], q.wallet)}

\* The histories begin with the accounts read and follow every change.
Watch ==
    /\ steady' = [r \in Requests |->
        CASE req[r].step = "checking" -> steady[r] \cap DelegatedTo(req[r])'
          [] req[r].step = "reading" -> req'[r].pending \cap DelegatedTo(req[r])'
          [] OTHER -> IF req'[r].answer = "none" THEN {} ELSE steady[r]]
    /\ seen' = [r \in Requests |->
        CASE req[r].step = "checking" -> seen[r] \union (req[r].pending \cap DelegatedTo(req[r])')
          [] req[r].step = "reading" -> req'[r].pending \cap DelegatedTo(req[r])'
          [] OTHER -> IF req'[r].answer = "none" THEN {} ELSE seen[r]]

\* What the routes of each file call.
LinkedAccountRoutes ==
    \E row \in Rows : UpdateLinkedAccount(row) \/ UnlinkAccount(row) \/ GrantTokenAllowance(row)

DelegationRoutes ==
    \/ \E d \in Delegations : RevokeDelegation(d)
    \/ \E r \in Requests :
        \/ \E row \in Rows, w \in SessionWallets : CreateDelegationAuthorization(r, row, w)
        \/ StoreDelegation(r) \/ SigningRefused(r)
        \/ \E p \in Profiles : DetermineBestExecutionPath(r, p)
        \/ ReadActiveAccounts(r) \/ CheckNextAccount(r)

\* linkAccount's own route is hidden behind that of the profiles.
Step ==
    \/ LinkedAccountRoutes
    \/ DelegationRoutes
    \/ \E row \in Rows : LinkAccount(row)
    \/ \E r \in Requests :
        \/ \E p \in Profiles : HandleKeyGenerated(r, p)
        \/ LinkSessionWallet(r)
        \/ \E row \in Rows : LinkAccountToProfile(r, row)
        \/ LinkCreate(r) \/ LinkGraph(r)

Next == Step /\ Watch

Spec == Init /\ [][Next]_vars

-----------------------------------------------------------------------------
\* Unlinking never takes the primary account from a profile that keeps active
\* accounts (linkedAccountService.unlinkAccount promotes the next one).
PrimaryKept ==
    \A row \in Rows :
        /\ UnlinkAccount(row)
        /\ primary \cap Active(row[1]) # {}
        /\ Active(row[1])' # {}
        => (primary \cap Active(row[1]))' # {}
UnlinkKeepsPrimary == [][PrimaryKept]_vars

\* The path follows the delegations while wallets are linked and unlinked,
\* delegations stored and revoked and the session wallet itself replaced between
\* the queries: it is direct only if each account read was, at some time since,
\* not delegated to the session wallet read, and delegated only if one was, at
\* some time since (delegationService.determineBestExecutionPath asks account
\* by account).
PathFollowsDelegations ==
    \A r \in Requests : /\ req[r].answer = "direct" => steady[r] = {}
                        /\ req[r].answer = "delegated" => seen[r] # {}

\* "No active delegation - will execute through session wallet"
\* (api-sequence/7-delegation-eip7702.md:348) is said although an account has
\* an active delegation: to the session wallet the profile had before its key
\* was generated, or to another one the client named.
Delegated(row) == \E w \in SessionWallets : ActiveDelegation(row, w)
SaidWithoutDelegation ==
    \A r \in Requests :
        req[r].step = "checking" /\ req'[r].answer = "direct" =>
            \A row \in Active(req[r].row[1]) : ~Delegated(row)
DirectMeansNone == [][SaidWithoutDelegation]_vars

\* "Only one account can be primary at a time"
\* (api-sequence/6-linked-accounts.md:488).  It is not so: unlinking a row that
\* was soft-deleted as primary promotes one more.
OnePrimary == \A p \in Profiles : Cardinality(primary \cap Active(p)) <= 1

\* "Unlinking removes all associated token allowances"
\* (api-sequence/6-linked-accounts.md:276).  A soft delete removes none.
AllowancesOfLinked == \A row \in allowances : state[row] = "active"

\* One active delegation for an account, session wallet and chain
\* (delegationService.createDelegationAuthorization, 'Active delegation already
\* exists for this account').  The check is made before the wallet signs.
OneActiveDelegation ==
    \A d, e \in Delegations :
        /\ delegation[d].active /\ delegation[e].active
        /\ delegation[d].of = delegation[e].of /\ delegation[d].wallet = delegation[e].wallet
        => d = e

\* A delegation grants what the user was asked to sign (api-sequence/
\* 7-delegation-eip7702.md:406, "Fine-grained control over allowed operations").
\* The confirmation stores all permissions.
StoredAsAsked ==
    \A r \in Requests, d \in Delegations :
        StoreDelegation(r) /\ delegation'[d] # delegation[d] => delegation'[d].all = req[r].all
GrantedAsAsked == [][StoredAsAsked]_vars

\* A wallet linked to a profile by the route is linked to the account in the
\* identity graph too.  It is not when the second half of the request fails,
\* and a retry is refused.
LinkedInGraph ==
    \A r \in Requests : LinkGraph(r) => req[r].row[2] \in graph'
LinkedBothWays == [][LinkedInGraph]_vars
=============================================================================
