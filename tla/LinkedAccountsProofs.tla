----------------------- MODULE LinkedAccountsProofs ------------------------
(***************************************************************************)
(* Theorems about linked wallets, their allowances and delegations, for    *)
(* any number of profiles, wallets, delegations and requests.              *)
(***************************************************************************)
EXTENDS LinkedAccounts, FiniteSetTheorems, TLAPS

\* The rows: marks, allowances and delegations are those of rows that exist.
StoredOK ==
    /\ state \in [Rows -> {"none", "active", "inactive"}]
    /\ primary \subseteq {row \in Rows : Present(row)}
    /\ allowances \subseteq {row \in Rows : Present(row)}
    /\ delegation \in [Delegations -> DelegationRow \union {NoDelegation}]
    /\ \A d \in Delegations : delegation[d] # NoDelegation => Present(delegation[d].of)
    /\ graph \subseteq Wallets

WalletsOK == wallet \in [Profiles -> SessionWallets]

\* What a request holds at each of its steps.
Held(q) ==
    /\ q \in Request
    /\ q.step # "idle" => q.answer = "none"
    /\ q.step \in {"creating", "linking"} => q.row \in Profiles \X Wallets
    /\ q.step = "signing" => q.row \in Rows /\ q.wallet \in SessionWallets
    /\ q.step \in {"generated", "reading"} => q.row \in Rows

RequestsHeld == req \in [Requests -> Request] /\ \A r \in Requests : Held(req[r])

\* An account that was delegated ever since it was read is still to be asked
\* for, or was found; one that is still to be asked for and is delegated is
\* among those seen.
Watched(q, kept, found) ==
    /\ kept \subseteq Rows /\ found \subseteq Rows
    /\ q.step = "checking" => kept \subseteq q.pending /\ q.pending \cap DelegatedTo(q) \subseteq found
    /\ q.answer = "direct" => kept = {}
    /\ q.answer = "delegated" => found # {}

AllWatched ==
    /\ steady = [r \in Requests |-> steady[r]] /\ seen = [r \in Requests |-> seen[r]]
    /\ \A r \in Requests : Watched(req[r], steady[r], seen[r])

LinkedInv == StoredOK /\ WalletsOK /\ RequestsHeld /\ AllWatched

-----------------------------------------------------------------------------
(* Rows and requests.                                                      *)

LEMMA RowParts ==
    ASSUME NEW row \in Rows
    PROVE  /\ row[1] \in Profiles /\ row[2] \in Addresses
           /\ row = <<row[1], row[2]>>
           /\ row # NoRow
  BY DEF Rows, NoRow

LEMMA ActiveRows ==
    /\ \A p \in Profiles : Active(p) \subseteq Rows
    /\ \A row \in Rows : row \in Active(row[1]) <=> state[row] = "active"
  BY DEF Active, Rows

\* There are finitely many accounts of a profile.
LEMMA ActiveFinite ==
    ASSUME NEW p
    PROVE  IsFiniteSet(Active(p)) /\ Cardinality(Active(p)) \in Nat
  <1>1. IsFiniteSet(Addresses)
    BY FiniteWallets, FS_Singleton, FS_Union DEF Addresses
  <1>2. IsFiniteSet({p} \X Addresses)
    BY <1>1, FS_Singleton, FS_Product
  <1>3. Active(p) \in SUBSET ({p} \X Addresses)
    BY DEF Active
  <1>4. IsFiniteSet(Active(p))
    BY <1>2, <1>3, FS_Subset
  <1> QED
    BY <1>4, FS_CardinalityType

LEMMA PromotedRows ==
    ASSUME NEW row \in Rows, NEW promoted \in Promoted(row)
    PROVE  promoted \subseteq Active(row[1]) \ {row}
  BY DEF Promoted

LEMMA IdleHeld == Held(Idle) /\ Idle.step = "idle" /\ Idle.answer = "none"
  BY DEF Held, Idle, Request, Steps

\* The request r is replaced by q.
LEMMA RequestReplaced ==
    ASSUME RequestsHeld, NEW r \in Requests, NEW q, Held(q), req' = [req EXCEPT ![r] = q]
    PROVE  RequestsHeld'
  <1>1. DOMAIN req' = Requests /\ \A s \in Requests : req'[s] = IF s = r THEN q ELSE req[s]
    BY DEF RequestsHeld
  <1>2. \A s \in Requests : Held(req'[s])
    BY <1>1 DEF RequestsHeld
  <1>3. req' \in [Requests -> Request]
    BY DEF RequestsHeld, Held
  <1> QED
    BY <1>2, <1>3 DEF RequestsHeld

-----------------------------------------------------------------------------
(* The rows.                                                               *)

\* Cascade leaves the delegations of the other rows alone.
LEMMA CascadeOK ==
    ASSUME StoredOK, NEW row \in Rows, Cascade(row)
    PROVE  /\ allowances' = allowances \ {row}
           /\ delegation' \in [Delegations -> DelegationRow \union {NoDelegation}]
           /\ \A d \in Delegations : delegation'[d] # NoDelegation =>
                  delegation[d] # NoDelegation /\ delegation'[d] = delegation[d]
                  /\ delegation[d].of # row
  BY DEF StoredOK, Cascade

LEMMA StoredUnlink ==
    ASSUME StoredOK, NEW row \in Rows, UnlinkAccount(row)
    PROVE  StoredOK'
  <1>1. PICK promoted \in Promoted(row) :
            IF Elsewhere(row) = {}
            THEN /\ state' = [state EXCEPT ![row] = "none"]
                 /\ primary' = (primary \union promoted) \ {row}
                 /\ Cascade(row)
            ELSE /\ state' = [state EXCEPT ![row] = "inactive"]
                 /\ primary' = primary \union promoted
                 /\ UNCHANGED <<allowances, delegation>>
    BY DEF UnlinkAccount
  <1>2. Present(row) /\ graph' = graph
    BY DEF UnlinkAccount
  <1>3. \A other \in promoted : other \in Rows /\ state[other] = "active" /\ other # row
    <2>1. promoted \subseteq Active(row[1]) \ {row}
      BY <1>1, PromotedRows
    <2> QED
      BY <2>1, RowParts, ActiveRows DEF Active
  <1>4. CASE Elsewhere(row) = {}
    <2>1. /\ state' = [state EXCEPT ![row] = "none"]
          /\ primary' = (primary \union promoted) \ {row}
          /\ Cascade(row)
      BY <1>1, <1>4
    <2>2. \A other \in Rows : other # row => state'[other] = state[other]
      BY <2>1 DEF StoredOK
    <2>3. state' \in [Rows -> {"none", "active", "inactive"}]
      BY <2>1 DEF StoredOK
    <2>4. primary' \subseteq {other \in Rows : Present(other)}'
      BY <1>3, <2>1, <2>2 DEF StoredOK, Present
    <2>5. allowances' \subseteq {other \in Rows : Present(other)}'
      BY <2>1, <2>2, CascadeOK DEF StoredOK, Present
    <2>6. ASSUME NEW d \in Delegations, delegation'[d] # NoDelegation
          PROVE  state'[delegation'[d].of] # "none"
      <3>1. /\ delegation[d] # NoDelegation /\ delegation'[d] = delegation[d]
            /\ delegation[d].of # row
        BY <2>1, <2>6, CascadeOK
      <3>2. delegation[d].of \in Rows /\ state[delegation[d].of] # "none"
        BY <3>1 DEF StoredOK, Present, DelegationRow
      <3> QED
        BY <2>2, <3>1, <3>2
    <2> QED
      BY <1>2, <2>1, <2>3, <2>4, <2>5, <2>6, CascadeOK DEF StoredOK, Present
  <1>5. CASE Elsewhere(row) # {}
    <2>1. /\ state' = [state EXCEPT ![row] = "inactive"]
          /\ primary' = primary \union promoted
          /\ UNCHANGED <<allowances, delegation>>
      BY <1>1, <1>5
    <2>2. state' \in [Rows -> {"none", "active", "inactive"}]
      BY <2>1 DEF StoredOK
    <2>3. \A other \in Rows : state[other] # "none" => state'[other] # "none"
      BY <2>1 DEF StoredOK
    <2>4. \A d \in Delegations : delegation[d] # NoDelegation => delegation[d].of \in Rows
      BY DEF StoredOK, DelegationRow
    <2> QED
      BY <1>2, <1>3, <2>1, <2>2, <2>3, <2>4 DEF StoredOK, Present
  <1> QED
    BY <1>4, <1>5

\* A row becomes active, and perhaps primary; what the others are stays.
LEMMA StoredActive ==
    ASSUME StoredOK, NEW row \in Rows,
           state' = [state EXCEPT ![row] = "active"],
           primary' \subseteq primary \union {row},
           UNCHANGED <<allowances, delegation, graph>>
    PROVE  StoredOK'
  <1>1. state' \in [Rows -> {"none", "active", "inactive"}]
    BY DEF StoredOK
  <1>2. /\ \A other \in Rows : state[other] # "none" => state'[other] # "none"
        /\ state'[row] # "none"
    BY DEF StoredOK
  <1>3. \A d \in Delegations : delegation[d] # NoDelegation => delegation[d].of \in Rows
    BY DEF StoredOK, DelegationRow
  <1> QED
    BY <1>1, <1>2, <1>3 DEF StoredOK, Present

LEMMA StoredStep ==
    ASSUME StoredOK, RequestsHeld, Step
    PROVE  StoredOK'
  <1>1. ASSUME NEW row \in Rows, UpdateLinkedAccount(row) PROVE StoredOK'
    <2>1. /\ Present(row) /\ primary' \subseteq primary \union {row}
          /\ UNCHANGED <<state, allowances, delegation, graph>>
      BY <1>1 DEF UpdateLinkedAccount
    <2> QED
      BY <2>1 DEF StoredOK, Present
  <1>2. ASSUME NEW row \in Rows, UnlinkAccount(row) PROVE StoredOK'
    BY <1>2, StoredUnlink
  <1>3. ASSUME NEW row \in Rows, GrantTokenAllowance(row) PROVE StoredOK'
    BY <1>3 DEF GrantTokenAllowance, StoredOK, Present
  <1>4. ASSUME NEW d \in Delegations, RevokeDelegation(d) PROVE StoredOK'
    <2>1. /\ delegation[d].active
          /\ delegation' = [delegation EXCEPT ![d].active = FALSE]
          /\ UNCHANGED <<state, primary, allowances, graph>>
      BY <1>4 DEF RevokeDelegation
    <2>2. delegation[d] \in DelegationRow /\ delegation[d] # NoDelegation
      BY <2>1 DEF StoredOK, NoDelegation
    <2>3. /\ [delegation[d] EXCEPT !.active = FALSE] \in DelegationRow
          /\ [delegation[d] EXCEPT !.active = FALSE].of = delegation[d].of
      BY <2>2 DEF DelegationRow
    <2>4. delegation' = [delegation EXCEPT ![d] = [delegation[d] EXCEPT !.active = FALSE]]
      BY <2>1
    <2>5. /\ delegation' \in [Delegations -> DelegationRow \union {NoDelegation}]
          /\ \A e \in Delegations : delegation'[e] # NoDelegation =>
                 delegation[e] # NoDelegation /\ delegation'[e].of = delegation[e].of
      BY <2>2, <2>3, <2>4 DEF StoredOK
    <2> QED
      BY <2>1, <2>5 DEF StoredOK, Present
  <1>5. ASSUME NEW r \in Requests, StoreDelegation(r) PROVE StoredOK'
    <2>1. /\ req[r].step = "signing" /\ UNCHANGED <<state, primary, allowances, graph>>
          /\ req[r].row \in Rows /\ req[r].wallet \in SessionWallets
      BY <1>5 DEF StoreDelegation, RequestsHeld, Held
    <2>2. CASE ~Present(req[r].row)
      BY <1>5, <2>1, <2>2 DEF StoreDelegation, StoredOK, Present
    <2>3. CASE Present(req[r].row)
      <3>1. PICK d \in Delegations :
                delegation' = [delegation EXCEPT ![d] = Confirmed(req[r].row, req[r].wallet)]
        BY <1>5, <2>3 DEF StoreDelegation
      <3>2. /\ Confirmed(req[r].row, req[r].wallet) \in DelegationRow
            /\ Confirmed(req[r].row, req[r].wallet).of = req[r].row
        BY <2>1 DEF Confirmed, DelegationRow
      <3> QED
        BY <2>1, <2>3, <3>1, <3>2 DEF StoredOK, Present
    <2> QED
      BY <2>2, <2>3
  <1>6. ASSUME NEW r \in Requests,
               \/ \E row \in Rows, w \in SessionWallets : CreateDelegationAuthorization(r, row, w)
               \/ SigningRefused(r)
               \/ \E p \in Profiles : HandleKeyGenerated(r, p)
               \/ \E p \in Profiles : DetermineBestExecutionPath(r, p)
               \/ ReadActiveAccounts(r) \/ CheckNextAccount(r)
               \/ \E row \in Rows : LinkAccountToProfile(r, row)
        PROVE  StoredOK'
    <2>1. UNCHANGED <<state, primary, allowances, delegation, graph>>
      BY <1>6 DEF CreateDelegationAuthorization, SigningRefused, HandleKeyGenerated,
                  DetermineBestExecutionPath, ReadActiveAccounts, CheckNextAccount,
                  LinkAccountToProfile
    <2> QED
      BY <2>1 DEF StoredOK, Present
  <1>7. ASSUME NEW row \in Rows, LinkAccount(row) PROVE StoredOK'
    <2>1. /\ state' = [state EXCEPT ![row] = "active"]
          /\ primary' \subseteq primary \union {row}
          /\ UNCHANGED <<allowances, delegation, graph>>
      BY <1>7 DEF LinkAccount
    <2> QED
      BY <2>1, StoredActive
  <1>8. ASSUME NEW r \in Requests, LinkSessionWallet(r) PROVE StoredOK'
    <2>1. req[r].row \in Rows /\ UNCHANGED <<primary, allowances, delegation, graph>>
      BY <1>8 DEF LinkSessionWallet, RequestsHeld, Held
    <2>2. CASE state' = state
      BY <2>1, <2>2 DEF StoredOK, Present
    <2>3. CASE state' = [state EXCEPT ![req[r].row] = "active"]
      BY <2>1, <2>3, StoredActive
    <2> QED
      BY <1>8, <2>2, <2>3 DEF LinkSessionWallet
  <1>9. ASSUME NEW r \in Requests, LinkCreate(r) PROVE StoredOK'
    <2>1. req[r].row \in Rows
      BY <1>9 DEF LinkCreate, RequestsHeld, Held, Rows, Addresses
    <2>2. UNCHANGED <<primary, allowances, delegation, graph>>
      BY <1>9 DEF LinkCreate
    <2>3. CASE Present(req[r].row)
      <3>1. UNCHANGED state
        BY <1>9, <2>3 DEF LinkCreate
      <3> QED
        BY <2>2, <3>1 DEF StoredOK, Present
    <2>4. CASE ~Present(req[r].row)
      <3>1. state' = [state EXCEPT ![req[r].row] = "active"]
        BY <1>9, <2>4 DEF LinkCreate
      <3> QED
        BY <2>1, <2>2, <3>1, StoredActive
    <2> QED
      BY <2>3, <2>4
  <1>10. ASSUME NEW r \in Requests, LinkGraph(r) PROVE StoredOK'
    <2>1. req[r].row[2] \in Wallets
      BY <1>10 DEF LinkGraph, RequestsHeld, Held
    <2>2. /\ graph' \subseteq graph \union {req[r].row[2]}
          /\ UNCHANGED <<state, primary, allowances, delegation>>
      BY <1>10 DEF LinkGraph
    <2> QED
      BY <2>1, <2>2 DEF StoredOK, Present
  <1> QED
    BY <1>1, <1>2, <1>3, <1>4, <1>5, <1>6, <1>7, <1>8, <1>9, <1>10
       DEF Step, LinkedAccountRoutes, DelegationRoutes

\* The address of a session wallet is replaced by another one only.
LEMMA WalletsStep ==
    ASSUME WalletsOK, Step
    PROVE  WalletsOK'
  <1>1. CASE UNCHANGED wallet
    BY <1>1 DEF WalletsOK
  <1>2. ASSUME NEW r \in Requests, NEW p \in Profiles, HandleKeyGenerated(r, p)
        PROVE  WalletsOK'
    BY <1>2 DEF HandleKeyGenerated, WalletsOK
  <1>3. ASSUME \/ LinkedAccountRoutes \/ DelegationRoutes
               \/ \E row \in Rows : LinkAccount(row)
        PROVE  UNCHANGED wallet
    BY <1>3 DEF LinkedAccountRoutes, UpdateLinkedAccount, UnlinkAccount, GrantTokenAllowance,
                LinkAccount, DelegationRoutes, RevokeDelegation, CreateDelegationAuthorization,
                StoreDelegation, SigningRefused, DetermineBestExecutionPath,
                ReadActiveAccounts, CheckNextAccount
  <1>4. ASSUME NEW r \in Requests,
               \/ LinkSessionWallet(r) \/ LinkCreate(r) \/ LinkGraph(r)
               \/ \E row \in Rows : LinkAccountToProfile(r, row)
        PROVE  UNCHANGED wallet
    BY <1>4 DEF LinkSessionWallet, LinkAccountToProfile, LinkCreate, LinkGraph
  <1> QED
    BY <1>1, <1>2, <1>3, <1>4 DEF Step

-----------------------------------------------------------------------------
(* The requests.                                                           *)

\* What may become of a request in a step, as far as the watch over its rows is
\* concerned: it begins to choose a path, asks for one more account, does
\* something else, or stays as it is.
Begins(r) ==
    /\ req[r].step = "reading" /\ req'[r].step = "checking"
    /\ req'[r].pending \subseteq Rows /\ req'[r].answer = "none"

Asks(r) ==
    /\ req[r].step = "checking" /\ req'[r].wallet = req[r].wallet
    /\ UNCHANGED delegation
    /\ \/ /\ req[r].pending = {}
          /\ req'[r].step = "idle" /\ req'[r].answer = "direct"
       \/ \E row \in req[r].pending :
            /\ HasActiveDelegation(row[2], req[r].wallet)
            /\ req'[r].step = "idle" /\ req'[r].answer = "delegated"
       \/ \E row \in req[r].pending :
            /\ ~HasActiveDelegation(row[2], req[r].wallet)
            /\ req'[r].step = "checking" /\ req'[r].answer = req[r].answer
            /\ req'[r].pending = req[r].pending \ {row}

Works(r) ==
    /\ req[r].step \notin {"checking", "reading"} /\ req'[r].step # "checking"
    /\ req'[r].answer = "none"

Moves(r) == req'[r] = req[r] \/ Begins(r) \/ Asks(r) \/ Works(r)

\* The request r is replaced by q, the others stay.
LEMMA OneMoves ==
    ASSUME RequestsHeld, NEW r \in Requests, NEW q, req' = [req EXCEPT ![r] = q],
           req'[r] = q => Begins(r) \/ Asks(r) \/ Works(r)
    PROVE  \A s \in Requests : Moves(s)
  <1>1. \A s \in Requests : req'[s] = IF s = r THEN q ELSE req[s]
    BY DEF RequestsHeld
  <1> QED
    BY <1>1 DEF Moves

LEMMA RequestStep ==
    ASSUME WalletsOK, RequestsHeld, Step
    PROVE  RequestsHeld' /\ \A s \in Requests : Moves(s)
  <1>1. CASE UNCHANGED req
    BY <1>1 DEF RequestsHeld, Moves
  <1>2. ASSUME NEW r \in Requests, NEW row \in Rows, NEW w \in SessionWallets,
               CreateDelegationAuthorization(r, row, w)
        PROVE  RequestsHeld' /\ \A s \in Requests : Moves(s)
    <2>1. PICK all \in BOOLEAN :
              req' = [req EXCEPT ![r] =
                  [Idle EXCEPT !.step = "signing", !.row = row, !.wallet = w, !.all = all]]
      BY <1>2 DEF CreateDelegationAuthorization
    <2> DEFINE q == [Idle EXCEPT !.step = "signing", !.row = row, !.wallet = w, !.all = all]
    <2>2. Held(q) /\ q.step = "signing" /\ q.answer = "none"
      BY DEF Held, Idle, Request, Steps
    <2>3. req[r].step = "idle" /\ req' = [req EXCEPT ![r] = q]
      BY <1>2, <2>1 DEF CreateDelegationAuthorization
    <2> HIDE DEF q
    <2> QED
      BY <2>2, <2>3, RequestReplaced, OneMoves DEF Works
  <1>3. ASSUME NEW r \in Requests,
               StoreDelegation(r) \/ SigningRefused(r) \/ LinkSessionWallet(r)
        PROVE  RequestsHeld' /\ \A s \in Requests : Moves(s)
    <2>1. req[r].step \in {"signing", "generated"} /\ req' = [req EXCEPT ![r] = Idle]
      BY <1>3 DEF StoreDelegation, SigningRefused, LinkSessionWallet
    <2> QED
      BY <2>1, IdleHeld, RequestReplaced, OneMoves DEF Works
  <1>4. ASSUME NEW r \in Requests, NEW p \in Profiles, DetermineBestExecutionPath(r, p)
        PROVE  RequestsHeld' /\ \A s \in Requests : Moves(s)
    <2> DEFINE q == [Idle EXCEPT !.step = "reading", !.row = <<p, Session>>, !.wallet = wallet[p]]
    <2>1. <<p, Session>> \in Rows /\ wallet[p] \in SessionWallets
      BY DEF Rows, Addresses, WalletsOK
    <2>2. Held(q) /\ q.step = "reading" /\ q.answer = "none"
      BY <2>1 DEF Held, Idle, Request, Steps
    <2>3. req[r].step = "idle" /\ req' = [req EXCEPT ![r] = q]
      BY <1>4 DEF DetermineBestExecutionPath
    <2> HIDE DEF q
    <2> QED
      BY <2>2, <2>3, RequestReplaced, OneMoves DEF Works
  <1>10. ASSUME NEW r \in Requests, NEW p \in Profiles, HandleKeyGenerated(r, p)
        PROVE  RequestsHeld' /\ \A s \in Requests : Moves(s)
    <2> DEFINE q == [Idle EXCEPT !.step = "generated", !.row = <<p, Session>>]
    <2>1. <<p, Session>> \in Rows
      BY DEF Rows, Addresses
    <2>2. Held(q) /\ q.step = "generated" /\ q.answer = "none"
      BY <2>1 DEF Held, Idle, Request, Steps
    <2>3. req[r].step = "idle" /\ req' = [req EXCEPT ![r] = q]
      BY <1>10 DEF HandleKeyGenerated
    <2> HIDE DEF q
    <2> QED
      BY <2>2, <2>3, RequestReplaced, OneMoves DEF Works
  <1>11. ASSUME NEW r \in Requests, ReadActiveAccounts(r)
        PROVE  RequestsHeld' /\ \A s \in Requests : Moves(s)
    <2> DEFINE q == [req[r] EXCEPT !.step = "checking", !.pending = Active(req[r].row[1])]
    <2>1. /\ req[r].step = "reading" /\ Held(req[r]) /\ req[r] \in Request
          /\ req[r].answer = "none" /\ req[r].row[1] \in Profiles
      BY <1>11, RowParts DEF ReadActiveAccounts, RequestsHeld, Held
    <2>2. Active(req[r].row[1]) \subseteq Rows
      BY <2>1, ActiveRows
    <2>3. /\ Held(q) /\ q.step = "checking" /\ q.answer = "none"
          /\ q.pending \subseteq Rows
      BY <2>1, <2>2 DEF Held, Request, Steps
    <2>4. req' = [req EXCEPT ![r] = q]
      BY <1>11, <2>1 DEF ReadActiveAccounts, RequestsHeld, Request
    <2> HIDE DEF q
    <2> QED
      BY <2>1, <2>3, <2>4, RequestReplaced, OneMoves DEF Begins
  <1>5. ASSUME NEW r \in Requests, CheckNextAccount(r)
        PROVE  RequestsHeld' /\ \A s \in Requests : Moves(s)
    <2>1. /\ req[r].step = "checking" /\ Held(req[r]) /\ req[r] \in Request
          /\ UNCHANGED delegation
      BY <1>5 DEF CheckNextAccount, RequestsHeld, Held
    <2>2. CASE req[r].pending = {}
      <3> DEFINE q == [req[r] EXCEPT !.step = "idle", !.answer = "direct"]
      <3>1. Held(q) /\ q.step = "idle" /\ q.answer = "direct" /\ q.wallet = req[r].wallet
        BY <2>1 DEF Held, Request, Steps
      <3>2. req' = [req EXCEPT ![r] = q]
        BY <1>5, <2>1, <2>2 DEF CheckNextAccount, RequestsHeld, Request
      <3> HIDE DEF q
      <3> QED
        BY <2>1, <2>2, <3>1, <3>2, RequestReplaced, OneMoves DEF Asks
    <2>3. ASSUME NEW row \in req[r].pending, HasActiveDelegation(row[2], req[r].wallet),
                 req' = [req EXCEPT ![r].step = "idle", ![r].pending = {},
                                    ![r].answer = "delegated"]
          PROVE  RequestsHeld' /\ \A s \in Requests : Moves(s)
      <3> DEFINE q == [req[r] EXCEPT !.step = "idle", !.pending = {}, !.answer = "delegated"]
      <3>1. Held(q) /\ q.step = "idle" /\ q.answer = "delegated" /\ q.wallet = req[r].wallet
        BY <2>1 DEF Held, Request, Steps
      <3>2. req' = [req EXCEPT ![r] = q]
        BY <2>1, <2>3 DEF RequestsHeld, Request
      <3> HIDE DEF q
      <3> QED
        <4>1. req'[r] = q => Asks(r)
          BY <2>1, <2>3, <3>1 DEF Asks
        <4> QED
          BY <3>1, <3>2, <4>1, RequestReplaced, OneMoves
    <2>4. ASSUME NEW row \in req[r].pending, ~HasActiveDelegation(row[2], req[r].wallet),
                 req' = [req EXCEPT ![r].pending = @ \ {row}]
          PROVE  RequestsHeld' /\ \A s \in Requests : Moves(s)
      <3> DEFINE q == [req[r] EXCEPT !.pending = @ \ {row}]
      <3>1. /\ Held(q) /\ q.step = "checking" /\ q.answer = req[r].answer
            /\ q.wallet = req[r].wallet /\ q.pending = req[r].pending \ {row}
        BY <2>1 DEF Held, Request, Steps
      <3>2. req' = [req EXCEPT ![r] = q]
        BY <2>1, <2>4 DEF RequestsHeld, Request
      <3> HIDE DEF q
      <3> QED
        <4>1. req'[r] = q => Asks(r)
          BY <2>1, <2>4, <3>1 DEF Asks
        <4> QED
          BY <3>1, <3>2, <4>1, RequestReplaced, OneMoves
    <2> QED
      BY <1>5, <2>2, <2>3, <2>4 DEF CheckNextAccount
  <1>6. ASSUME NEW r \in Requests, NEW row \in Rows, LinkAccountToProfile(r, row)
        PROVE  RequestsHeld' /\ \A s \in Requests : Moves(s)
    <2> DEFINE q == [Idle EXCEPT !.step = "creating", !.row = row]
    <2>1. row \in Profiles \X Wallets /\ row \in Rows
      BY <1>6, RowParts DEF LinkAccountToProfile
    <2>2. Held(q) /\ q.step = "creating" /\ q.answer = "none"
      BY <2>1 DEF Held, Idle, Request, Steps
    <2>3. req[r].step = "idle" /\ req' = [req EXCEPT ![r] = q]
      BY <1>6 DEF LinkAccountToProfile
    <2> HIDE DEF q
    <2> QED
      BY <2>2, <2>3, RequestReplaced, OneMoves DEF Works
  <1>7. ASSUME NEW r \in Requests, LinkCreate(r)
        PROVE  RequestsHeld' /\ \A s \in Requests : Moves(s)
    <2>1. /\ req[r].step = "creating" /\ Held(req[r]) /\ req[r] \in Request
          /\ req[r].answer = "none"
      BY <1>7 DEF LinkCreate, RequestsHeld, Held
    <2>2. CASE Present(req[r].row)
      <3>1. req' = [req EXCEPT ![r] = Idle]
        BY <1>7, <2>2 DEF LinkCreate
      <3> QED
        BY <2>1, <3>1, IdleHeld, RequestReplaced, OneMoves DEF Works
    <2>3. CASE ~Present(req[r].row)
      <3> DEFINE q == [req[r] EXCEPT !.step = "linking"]
      <3>1. Held(q) /\ q.step = "linking" /\ q.answer = "none"
        BY <2>1 DEF Held, Request, Steps
      <3>2. req' = [req EXCEPT ![r] = q]
        BY <1>7, <2>1, <2>3 DEF LinkCreate, RequestsHeld, Request
      <3> HIDE DEF q
      <3> QED
        BY <2>1, <3>1, <3>2, RequestReplaced, OneMoves DEF Works
    <2> QED
      BY <2>2, <2>3
  <1>8. ASSUME NEW r \in Requests, LinkGraph(r)
        PROVE  RequestsHeld' /\ \A s \in Requests : Moves(s)
    <2>1. req[r].step = "linking" /\ req' = [req EXCEPT ![r] = Idle]
      BY <1>8 DEF LinkGraph
    <2> QED
      BY <2>1, IdleHeld, RequestReplaced, OneMoves DEF Works
  <1>9. ASSUME \/ LinkedAccountRoutes
               \/ \E d \in Delegations : RevokeDelegation(d)
               \/ \E row \in Rows : LinkAccount(row)
        PROVE  UNCHANGED req
    BY <1>9 DEF LinkedAccountRoutes, UpdateLinkedAccount, UnlinkAccount, GrantTokenAllowance,
                RevokeDelegation, LinkAccount
  <1> QED
    BY <1>1, <1>2, <1>3, <1>4, <1>5, <1>6, <1>7, <1>8, <1>9, <1>10, <1>11
       DEF Step, DelegationRoutes

-----------------------------------------------------------------------------
(* The watch.                                                              *)

LEMMA WatchedStep ==
    ASSUME RequestsHeld, AllWatched, RequestsHeld', Watch,
           \A s \in Requests : Moves(s)
    PROVE  AllWatched'
  <1>1. /\ steady' = [r \in Requests |-> steady'[r]]
        /\ seen' = [r \in Requests |-> seen'[r]]
    BY DEF Watch
  <1> SUFFICES ASSUME NEW r \in Requests
               PROVE  Watched(req[r], steady[r], seen[r])'
    BY <1>1 DEF AllWatched
  <1> DEFINE D == DelegatedTo(req[r])'
  <1>2. /\ Held(req[r]) /\ Held(req'[r]) /\ Watched(req[r], steady[r], seen[r]) /\ Moves(r)
        /\ req'[r].pending \subseteq Rows
    BY DEF RequestsHeld, AllWatched, Request
  <1>3. Watched(req[r], steady[r], seen[r])' <=>
          /\ steady'[r] \subseteq Rows /\ seen'[r] \subseteq Rows
          /\ req'[r].step = "checking" => steady'[r] \subseteq req'[r].pending
                                          /\ req'[r].pending \cap D \subseteq seen'[r]
          /\ req'[r].answer = "direct" => steady'[r] = {}
          /\ req'[r].answer = "delegated" => seen'[r] # {}
    BY DEF Watched
  <1>4. CASE req[r].step = "checking"
    <2>1. /\ steady'[r] = steady[r] \cap D
          /\ seen'[r] = seen[r] \union (req[r].pending \cap D)
      BY <1>4 DEF Watch
    <2>2. /\ req[r].answer = "none" /\ req[r].pending \subseteq Rows
          /\ steady[r] \subseteq Rows /\ seen[r] \subseteq Rows
          /\ steady[r] \subseteq req[r].pending
      BY <1>2, <1>4 DEF Held, Watched, Request
    <2>3. CASE req'[r] = req[r]
      <3> HIDE DEF D
      <3> QED
        BY <1>3, <1>4, <2>1, <2>2, <2>3
    <2>4. CASE Asks(r)
      <3>1. \A row \in Rows : row \in D <=> HasActiveDelegation(row[2], req[r].wallet)
        BY <2>4 DEF Asks, DelegatedTo, HasActiveDelegation
      <3> HIDE DEF D
      <3>2. CASE req[r].pending = {} /\ req'[r].step = "idle" /\ req'[r].answer = "direct"
        BY <1>3, <2>1, <2>2, <3>2
      <3>3. ASSUME NEW row \in req[r].pending, HasActiveDelegation(row[2], req[r].wallet),
                   req'[r].step = "idle", req'[r].answer = "delegated"
            PROVE  Watched(req[r], steady[r], seen[r])'
        BY <1>3, <2>1, <2>2, <3>1, <3>3
      <3>4. ASSUME NEW row \in req[r].pending, ~HasActiveDelegation(row[2], req[r].wallet),
                   req'[r].step = "checking", req'[r].answer = req[r].answer,
                   req'[r].pending = req[r].pending \ {row}
            PROVE  Watched(req[r], steady[r], seen[r])'
        BY <1>3, <2>1, <2>2, <3>1, <3>4
      <3> QED
        BY <2>4, <3>2, <3>3, <3>4 DEF Asks
    <2> QED
      BY <1>2, <1>4, <2>3, <2>4 DEF Moves, Begins, Works
  <1>5. CASE req[r].step = "reading"
    <2>1. /\ steady'[r] = req'[r].pending \cap D
          /\ seen'[r] = req'[r].pending \cap D
      BY <1>5 DEF Watch
    <2>2. req'[r].answer = "none"
      BY <1>2, <1>5 DEF Moves, Begins, Asks, Works, Held
    <2> HIDE DEF D
    <2> QED
      BY <1>2, <1>3, <2>1, <2>2
  <1>6. CASE req[r].step \notin {"checking", "reading"}
    <2>1. /\ steady'[r] = IF req'[r].answer = "none" THEN {} ELSE steady[r]
          /\ seen'[r] = IF req'[r].answer = "none" THEN {} ELSE seen[r]
      BY <1>6 DEF Watch
    <2>2. (req'[r] = req[r] \/ req'[r].answer = "none") /\ req'[r].step # "checking"
      BY <1>2, <1>6 DEF Moves, Begins, Asks, Works
    <2> HIDE DEF D
    <2> QED
      BY <1>2, <1>3, <2>1, <2>2 DEF Watched
  <1> QED
    BY <1>4, <1>5, <1>6

-----------------------------------------------------------------------------
(* The invariant.                                                          *)

LEMMA LinkedInit == Init => LinkedInv
  <1> SUFFICES ASSUME Init PROVE LinkedInv
    OBVIOUS
  <1>1. PICK first \in SUBSET Rows :
            /\ state = [row \in Rows |-> IF row \in first THEN "active" ELSE "none"]
            /\ primary = first
    BY DEF Init
  <1>2. /\ state \in [Rows -> {"none", "active", "inactive"}]
        /\ primary \subseteq {row \in Rows : Present(row)}
    BY <1>1 DEF Present
  <1>3. /\ allowances = {} /\ graph = {}
        /\ delegation = [d \in Delegations |-> NoDelegation]
    BY DEF Init
  <1>4. StoredOK /\ WalletsOK
    BY <1>2, <1>3 DEF Init, StoredOK, WalletsOK
  <1>5. RequestsHeld
    BY IdleHeld DEF Init, RequestsHeld, Held
  <1>6. AllWatched
    BY IdleHeld DEF Init, AllWatched, Watched
  <1> QED
    BY <1>4, <1>5, <1>6 DEF LinkedInv

LEMMA LinkedStep == LinkedInv /\ [Next]_vars => LinkedInv'
  <1> SUFFICES ASSUME LinkedInv, [Next]_vars PROVE LinkedInv'
    OBVIOUS
  <1>1. CASE Next
    <2>1. StoredOK' /\ WalletsOK' /\ RequestsHeld' /\ \A s \in Requests : Moves(s)
      BY <1>1, StoredStep, WalletsStep, RequestStep DEF Next, LinkedInv
    <2>2. AllWatched'
      BY <1>1, <2>1, WatchedStep DEF Next, LinkedInv
    <2> QED
      BY <2>1, <2>2 DEF LinkedInv
  <1>2. CASE UNCHANGED vars
    <2>1. UNCHANGED <<state, primary, wallet, allowances, delegation, graph, req, steady, seen>>
      BY <1>2 DEF vars, history
    <2>2. StoredOK' /\ WalletsOK' /\ RequestsHeld'
      BY <2>1 DEF LinkedInv, StoredOK, Present, WalletsOK, RequestsHeld
    <2>3. AllWatched'
      BY <2>1 DEF LinkedInv, AllWatched, Watched, DelegatedTo, HasActiveDelegation
    <2> QED
      BY <2>2, <2>3 DEF LinkedInv
  <1> QED
    BY <1>1, <1>2

LEMMA LinkedInvariance == Spec => []LinkedInv
  BY LinkedInit, LinkedStep, PTL DEF Spec

-----------------------------------------------------------------------------
\* Primary marks, allowances and delegations are always those of rows that
\* exist, through soft deletions and cascades.
THEOREM LinkedTypeCorrect == Spec => []LinkedTypeOK
  <1>1. ASSUME LinkedInv PROVE LinkedTypeOK
    <2>1. req \in [Requests -> Request]
      BY <1>1 DEF LinkedInv, RequestsHeld
    <2>2. steady \in [Requests -> SUBSET Rows] /\ seen \in [Requests -> SUBSET Rows]
      <3>1. /\ steady = [r \in Requests |-> steady[r]] /\ seen = [r \in Requests |-> seen[r]]
            /\ \A r \in Requests : steady[r] \subseteq Rows /\ seen[r] \subseteq Rows
        BY <1>1 DEF LinkedInv, AllWatched, Watched
      <3> QED
        BY <3>1
    <2> QED
      BY <1>1, <2>1, <2>2 DEF LinkedInv, StoredOK, WalletsOK, LinkedTypeOK
  <1> QED
    BY <1>1, LinkedInvariance, PTL

\* determineBestExecutionPath, which reads the session wallet and the accounts
\* and then asks account by account while all of them change, answers 'direct'
\* only if each account it read was, at some time since, not delegated to that
\* wallet, and 'delegated' only if one was.
THEOREM PathIsRight == Spec => []PathFollowsDelegations
  <1>1. LinkedInv => PathFollowsDelegations
    BY DEF LinkedInv, AllWatched, Watched, PathFollowsDelegations
  <1> QED
    BY <1>1, LinkedInvariance, PTL

\* Unlinking promotes another account when it takes the only primary one of a
\* profile that keeps active accounts.
THEOREM PrimaryIsPassedOn == Spec => UnlinkKeepsPrimary
  <1>1. ASSUME LinkedInv, NEW row \in Rows, UnlinkAccount(row),
               primary \cap Active(row[1]) # {}, Active(row[1])' # {}
        PROVE  (primary \cap Active(row[1]))' # {}
    <2>1. PICK promoted \in Promoted(row) :
              /\ \/ state' = [state EXCEPT ![row] = "none"]
                 \/ state' = [state EXCEPT ![row] = "inactive"]
              /\ (primary \union promoted) \ {row} \subseteq primary'
      BY <1>1 DEF UnlinkAccount
    <2>2. /\ \A other \in Rows : other # row => state'[other] = state[other]
          /\ state'[row] # "active"
      BY <1>1, <2>1 DEF LinkedInv, StoredOK
    <2>3. row[1] \in Profiles
      BY RowParts
    <2>4. \A other : other # row =>
              (other \in Active(row[1])' <=> other \in Active(row[1]))
      BY <2>2, <2>3 DEF Active, Rows
    <2>5. row \notin Active(row[1])'
      BY <2>2 DEF Active
    <2>6. CASE \E other \in primary \cap Active(row[1]) : other # row
      BY <2>1, <2>4, <2>6
    <2>7. CASE \A other \in primary \cap Active(row[1]) : other = row
      <3>1. row \in primary /\ row \in Active(row[1])
        BY <1>1, <2>7
      <3>2. PICK next : next \in Active(row[1])'
        BY <1>1
      <3>3. next \in Active(row[1]) /\ next # row
        BY <2>4, <2>5, <3>2
      <3>4. Cardinality(Active(row[1])) > 1
        <4>1. {row, next} \in SUBSET Active(row[1])
          BY <3>1, <3>3
        <4>2. Cardinality({row, next}) = 2
          <5>1. IsFiniteSet({row}) /\ Cardinality({row}) = 1
            BY FS_Singleton
          <5>2. Cardinality({row} \union {next}) = 1 + 1
            BY <3>3, <5>1, FS_AddElement
          <5>3. {row, next} = {row} \union {next}
            OBVIOUS
          <5> QED
            BY <5>2, <5>3
        <4>3. Cardinality({row, next}) <= Cardinality(Active(row[1]))
          BY <4>1, ActiveFinite, FS_Subset
        <4> QED
          BY <4>2, <4>3, ActiveFinite
      <3>5. PICK other \in Active(row[1]) \ {row} : promoted = {other}
        BY <3>1, <3>4 DEF Promoted
      <3>6. other \in primary' /\ other \in Active(row[1])'
        BY <2>1, <2>4, <3>5
      <3> QED
        BY <3>6
    <2> QED
      BY <2>6, <2>7
  <1>2. LinkedInv => PrimaryKept
    BY <1>1 DEF PrimaryKept
  <1>3. LinkedInv => [PrimaryKept]_vars
    BY <1>2
  <1> QED
    BY <1>3, LinkedInvariance, PTL DEF UnlinkKeepsPrimary
=============================================================================
