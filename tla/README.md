# Interspace backend: TLA+ models, TLC checks and TLAPS proofs

The Interspace backend (`src/src`, Node.js, Express, Prisma, PostgreSQL, Redis)
keeps accounts, the graph of identity links between them, the smart profiles they
share, the sessions and one-time proofs they log in with, the wallets, allowances
and delegations of a profile, its MPC wallet, its desktop of apps and folders, and
the operations and batches it sends to Orby. Its own logic is small; what is hard
is that almost all of it is *a sequence of awaited database and network calls*,
between any two of which other requests, callbacks and scheduled jobs run, and
after any of which the process may stop.

That is what these modules model. **One prisma call, or one call of an outside
service, is one atomic step; a `withTransaction` block is one step too**, as
`src/src/utils/database.ts:64-83` runs it with isolation level `Serializable`.
Data that no property tells apart (names, amounts, signatures, payloads) is left
out; every status, guard, early return and error path is kept.

## 1. Inventory

| Component | State it keeps | Operations | Interacts with |
|---|---|---|---|
| Orby operations (`services/orbyService.ts`, `controllers/orbyController.ts`) | `OrbyOperation` rows with `OrbyTransaction` rows; subscriptions in memory | `createIntent`, `submitSignedOperations`, `monitorOperationStatus` and its callback | Orby SDK (quotes, `sendOperationSet`, activity callbacks), batches, profiles |
| Batch operations (`services/batchOperationService.ts`) | `BatchOperation` rows | `createBatchIntent`, `executeBatch`, `getBatchStatus`, `retryFailedOperations`, `handlePartialFailure` (reads only) | drives `submitSignedOperations`, reads operation rows |
| MPC wallet keys (`mpcControllerV2.ts`, `mpcWebhookController.ts`, `mpcKeyShareService.ts`) | `SmartProfile.sessionWalletAddress`, `MpcKeyMapping`, a `LinkedAccount` of type `mpc` | `generateKey`, two `handleKeyGenerated`, `backupKey`, `exportKey` | the duo node and the client, which both report a generated key |
| Smart profiles (`smartProfileService.ts`, `profileControllerV2.js`, `websocketService.ts`) | `SmartProfile` (`isActive`), audit rows; cascades to operations, mappings, links | create, switch, delete, update | Orby (account cluster), MPC keys, identity graph |
| Sessions and tokens (`authControllerV2.js`, `authRoutesV2.js`, `authMiddlewareV2.js`, `tokenUtils.js`, `tokenBlacklistService.ts`, `scheduler.ts`) | `AccountSession`, `BlacklistedToken`; JWTs held by clients | login, `refreshTokenV2`, `authenticateAccount`, logout, hourly cleanup | every authenticated route |
| Sign-in (`authControllerV2.js`, `socialAuthService.ts`, `accountService.js`) | `Account`, `AccountSession`, devices | `authenticateV2` by strategy; `linkAccounts`, `POST /users/me/social-accounts` and `linkAccountToProfile` as sources of accounts | one-time codes, identity graph, profiles |
| Identity graph and access (`accountService.js`, `authControllerV2.js`, `userRoutesV2.js`) | `IdentityLink`, `ProfileAccount` | `linkAccounts`, `unlinkAccounts`, link privacy, social links, `getLinkedAccounts` | profiles, authentication |
| One-time codes (`siweService.ts`, `emailAuthControllerV2.js`, `challengeService.ts`, Farcaster channels) | `SiweNonce`, `EmailVerification`, `PendingAuth` rows; challenges in memory | issue, look up, compare, consume, clean up | sign-in |
| Two-factor and passkeys (`twoFactorService.ts`, `passkeyService.ts`) | one JSON column of the account | setup, enable, disable, backup codes, the gate; registration and sign-in counter | MPC key operations, sign-in |
| Linked accounts and allowances (`linkedAccountService.ts`, `profileControllerV2.js`) | `LinkedAccount` (`isActive`, `isPrimary`), `TokenAllowance` | link, update, unlink (soft and hard), grant | profiles, identity graph, session wallets |
| Delegations (`delegationService.ts`) | `AccountDelegation` | authorize, confirm, revoke, choose a path | linked accounts |
| Desktop (`appsService.ts`, `foldersService.ts` and their controllers) | `BookmarkedApp`, `Folder`, positions, shared links | create, update, reorder, move, share, delete, page | profiles |
| App store (`appStoreService.ts`) | `AppStoreCategory`, `AppStoreApp` | create, update, delete, cached lists | cache |
| Gas tokens and token ids (`gasTokenService.ts`, `orbyService.ts`) | `PreferredGasToken`; cached analyses and ids | analyse, prefer, `getStandardizedTokenIds` | cache, Orby |
| Cache (`cacheService.ts`, `redis.ts`) | Redis entries | get, set, delete, expiry, outage | app store, gas tokens |
| Others | see `PROJECT.json` "components" | reads, wiring, rate limits, logging | |

What makes each correct, and where it is hard:

- **Orby operations.** A signed set is sent once; the reported status is one Orby
  reached; what Orby accepted is recorded; a pending operation settles. Hard: the
  status is checked before two awaits; a callback writes a status computed from
  an earlier read; `sendOperationSet` may fail after Orby accepted; callbacks and
  subscriptions die with the process; Orby's id need not be the row's.
- **Batches.** An atomic batch is created whole or not at all and stops at its
  first failure; a batch's status agrees with its operations. Hard: no database
  transaction anywhere; the record is stored last; executions, polls and direct
  submissions overwrite each other's status.
- **MPC keys and profile creation.** Linked wallet and key mapping name one key,
  which backup and export use; a creation ends whatever Orby does and leaves a
  bounded number of clusters. Hard: three writes without a transaction, repeated
  notifications from two sides and of several keys, a timer that gives a call up
  but does not end it, a profile deleted meanwhile.
- **Sessions.** After a logout nothing of the session passes. Hard: three separate
  reads in the middleware, two writes of a logout that may fail silently, two time
  scales.
- **Sign-in.** A success has an account that is verified, a session of it, and a
  profile of its own in the tokens; only a proof of identity verifies an account.
  Hard: find, create and verify are separate queries after the one-time proof is
  used up; three other requests create the same account, for an id they were told.
- **Identity graph.** The search computes reachability; direct access moves only
  along single links and never outlives a profile. Hard: one query per visited
  account while links change; cycles; loops of single writes in link and unlink.
- **One-time codes.** A token is used once, or at least never after its first use
  by a request that came later; wrong guesses are bounded. Hard: every flow looks
  up, compares and consumes in separate queries, beside resends and clean-up.
- **Two-factor.** What is on was proven, and the gate asks for it. Hard: one JSON
  column read, changed in memory and written back whole, while the gate reads it
  twice.
- **Linked accounts, delegations.** A primary account survives unlinking, a
  delegated account is used. Hard: soft deletion keeps marks and rows; the path
  is chosen account by account, for a session wallet whose address may be replaced.
- **Desktop.** References stay inside a profile; what is added comes last. Hard:
  positions are written by six operations with different checks.
- **Caches.** What a writer clears is cleared whatever happens, short of a late
  store or an outage; everything cached expires. Hard: read, compute and store are
  separate; Redis comes and goes; some writers clear nothing.

`PROJECT.json` "hazards" lists each of these at its line.

## 2. Modules

| Module | Models | Correspondence |
|---|---|---|
| `OperationLife` | the abstract promise about an operation's reported status | created, accepted, results reached, reported, owner deleted |
| `OrbyOperations` | implements `OperationLife` (`Life == INSTANCE OperationLife WITH ...`, `LivesItsLife`); Orby operations: requests, Orby, callbacks, restarts | rows `row`; a request `handler[h].pc` stands at an await of `submitSignedOperations`: `checked` (before `sendOperationSet`), `sent` (before the update), `recorded` (before the subscription) |
| `BatchOperations` | EXTENDS `OrbyOperations`: batch creation, execution, polling, retry | `creator`, `executor`, `poller`: one call each. `executeBatch` call `x` uses request slot `x`, so its submissions are the very steps of `OrbyOperations` |
| `OperationsProofs` | theorems of both | |
| `MpcKeys` | key generation and its notifications | `request[r].pc`: `received`, `addressed`, `mapped`, the three writes of `handleKeyGenerated` |
| `ProfileSetup` | EXTENDS `MpcKeys`: `createProfile` with its transaction, the cluster at Orby, audit, answer | `creation[p].pc` follows the awaits of `createProfile`; `abandoned` counts calls that lost the race against the timer |
| `Sessions` | login, refresh, middleware, logout, blacklist, cleanup, time | `request[r].pc`: `verified`, `notBlacklisted`, `session`, the middleware's reads |
| `SignIn` | `authenticateV2` and `registerNewUserWithPasskey` from the accepted proof to the tokens; `linkAccounts`, `POST /users/me/social-accounts` and `linkAccountToProfile` as far as they create accounts and share profiles | `req[r].step`: the next query; an account is a pair of type and identifier as the code builds it |
| `SignInProofs` | theorems of `SignIn` and `Sessions` | |
| `IdentityGraph` | links, search, access, switch, delete | `request[r].pc`: `traverse` (the search), `upsert`/`read`/`grant` (link), `remove`/`revoke` (unlink), `commit` |
| `IdentityGraphProofs` | its theorems | |
| `SingleUse` | the abstract promise about one-time tokens | issue, claim, use, withdraw |
| `OneTimeCodes` | nonces, codes, pending sign-ins, challenges; implements `SingleUse` (`Promise == INSTANCE SingleUse WITH ...`, `KeepsPromise`) | `row` and `age` of a token, `req[r].step` the next query |
| `OneTimeCodesProofs` | its theorems | |
| `AccountFactors` | 2FA (TOTP and backup codes) with the gate of key operations, and the passkey counter, in one JSON column | `req[r].new`: the copy in memory that will be written back |
| `AccountFactorsProofs` | its theorems | |
| `LinkedAccounts` | linked wallets, the session wallet's address and row, allowances, delegations | `wallet[p]`: the address of the moment; a delegation names the address the client sent; service methods are transactions and one step; the routes, the key's notification, the confirmation and the path choice await |
| `LinkedAccountsProofs` | its theorems | |
| `Desktop` | apps and folders | `FoldersService_...` and `AppsService_...` are the service methods, the actions the controllers that call them |
| `ProfilesProofs` | theorems of `ProfileSetup` and `Desktop` | |
| `Cache` | Redis with outages and expiry, requests in progress | `withRedis`, `Get`, `Set`, `Delete` |
| `AppStore`, `TokenCaches` | EXTEND `Cache`: two groups of services that answer from it | `req[r].op`: what the request does after its next await; `FeaturedLimit` is the `take: 12` of the featured apps |
| `Caches` | composes `AppStore` and `TokenCaches` over one `Cache` | |
| `CachesProofs` | its theorems | |
| `MC*` | instances for TLC: symmetry sets, definitions of function-valued constants, constraints | |

`PROJECT.json` "map" names the source lines of every definition. Operators
whose comment says *A mutation* are plausible bugs; no specification uses them,
they show that a property can fail.

Choices a reader should know:

- **Outside parties are actions.** `Accept`/`OrbyFinishes` (Orby), `KeyIssued`
  (device and duo node), `LateAnswer` (Orby after a timeout), `Tick` and `Age`
  (time), `Expire` (Redis) and restarts are modelled from how the code uses them
  and marked external.
- **Orby's id.** `sendOperationSet` may answer with an id equal to the row's
  (`local`), another (`remote`) or none. The callback looks a row up by that id
  (`orbyService.ts:746`), so only `local` finds one.
- **History variables** change no behaviour: `creator`, `everLinked`,
  `everAccess` in `IdentityGraph`; `loggedOut`, `presented` and the two `after`
  fields of a request in `Sessions`; `steady` of a search, `steady` and `seen` of a
  path choice; `accepted` of an execution in `BatchOperations`; `guesses`, `uses`,
  `verified` in `OneTimeCodes`; `proven`, `renewed`, `spent` and what a request at
  the gate saw (`off`, `took`) in `AccountFactors`; `proven` and `granted` in
  `SignIn`; `late` in `Cache`.
- **Failed items.** An item of a batch that could not be created is stored without
  an id, so `executeBatch` finds nothing under the id it would have had
  (`NamedOps`), while the row its `createIntent` may have left keeps it (`ItemOps`).
- **Row order is open.** A query without `orderBy` gives rows in any order, so
  the search and the loops of link and unlink take any next element, and rows
  with equal positions come in any order (`Desktop`).
- **Replaced rows.** `unlinkAccounts` deletes links by row id; `replaced` holds
  those somebody else deleted meanwhile, whose deletion throws.
- **Clock.** A JWT counts whole seconds, the blacklist milliseconds; `Sessions`
  has `Unit` clock steps to the second, so rounding in the TTL is visible.
- **Sessions** live 100 years in the code and do not expire in the model.
- **Queries may fail** wherever an error leaves writes behind: between the writes
  of a key's notification, at a batch's clean-up and record, at either write of a
  logout, anywhere in a sign-in, and between read and write of the metadata.
- **Proofs of identity** (signatures, TOTP, provider answers) are right or wrong;
  `SignIn` begins when one was accepted, `OneTimeCodes` says when that may be. Google
  and Apple are different: their token is accepted inside `socialAuthService`, and
  Google's once more after that transaction, which may fail although it has
  written. `AccountFactors` ties what is right to the secret and the codes that
  a request has read.
- **A wrong cache entry** is traced by `late`: it was wrong when stored, or its
  deletion was lost to an outage.
- **A second key.** `generateKey` asks for a mapping and the key is reported later, so
  that a profile may be issued several (`KeysPerProfile` bounds how many; no proof
  needs a bound).
- **The session wallet** of a profile is an address that a notification of a key
  replaces (`wallet` in `LinkedAccounts`); delegations keep the one they were
  prepared for, which need not be the profile's. (An empty one is not modelled:
  both routes hand it to `ethers`, which throws.)

## 3. Runs

All are in `PROJECT.json` "runs". Deadlock is not checked: every system here
may come to rest (all ids used, all requests answered), except that `Desktop`
and `LinkedAccounts` never do and leave the check on.

| Run | Properties | Instance and why it is enough |
|---|---|---|
| `orby` | `TypeOK`, `ReportedIsReal`, `LivesItsLife`, `AcceptedIsRecorded` | 1 operation, 2 requests, 1 callback, 2 accepted sets, 1 restart, every kind of answer. Operations share nothing but the profile, so one is enough; two requests are the smallest double submission, two sets the two executions it may cause. |
| `batch` | `AtomicCreation`, `AtomicStopsAtFirstFailure`, `SubmittedMeansSent`, `CompletedMeansSucceeded` | 2 batches (2 operations, and 1 that may be a retry), 2 requests, 1 callback, 1 poll, 2 sets, 1 restart. Clients sign the whole batch, or the whole batch with an unknown id in between. The constraint `Bounds` keeps apart what multiplies without meeting: while two requests write, no callback and no poll is under way; beside a second batch at most one request; after a restart, for operations left without a record and for a list with an unknown id one at a time. So every *pair* of writers meets, and every request meets a restart. |
| `profile_setup` | `WalletMatchesMapping`, `ClustersBounded`, `AddressedIsMapped`, `CreationEnds` | 1 profile, 2 keys for it, 2 notifications, 1 crash or failed write, 1 audit row that fails. Profiles share no row; two requests are a notification of each side, or of each key; three attempts are the code's own limit. |
| `sessions` | `NothingPassesAfterLogout`, `PresentedTokenIsDead` | 1 session, 4 tokens (login and one refresh), 2 logouts, either of whose writes may fail, 1 request, 3 steps a second, 7 steps: an access token (2 s) lives and dies inside the horizon. Sessions share no row, so one is enough. |
| `identity` | `IdentityTypeOK`, `TraversalIsReachability`, `AccessFollowsDirectLinks`, `SearchAdvances` | 3 accounts, 1 profile, 2 requests, modes linked and isolated, links changing at any time. Three accounts are the least with a path of two links and with a cycle. `Bounds`: while two requests are under way, one of the accounts takes no part, so races are explored between two accounts and long searches beside changing links. |
| `codes` | `ConfirmedOnce`, `GuessesBounded`, `KeepsPromise` | 2 tokens of any kind, 2 requests, 2 wrong guesses instead of 5, 1 restart. Two tokens are a code and the one a resend makes; tokens of different kinds share no row. |
| `factors` | `EnabledWasProven`, `GateNeedsProof` | 2 requests, 2 secrets or batches of one code, 2 assertions: a lost update needs two writers and a second value, and so does a gate whose two reads differ. |
| `linked` | `LinkedTypeOK`, `PathFollowsDelegations`, `UnlinkKeepsPrimary` | 2 profiles, 1 wallet, 2 session wallet addresses that either profile may be given in turn, 1 delegation, 2 requests beside the transactions: a wallet shared by two profiles, a primary account with a successor, a delegation to an address that is replaced. `FewChoices`: of the two requests at most one chooses a path (the choices share nothing); allowances, on which no other step depends, are granted one at a time with nothing in flight. |
| `desktop` | `DesktopTypeOK`, `FoldersNamedApart`, `PlacedAtEnd` | 2 profiles, 2 folders, 2 apps, positions from -1 to 3, any of which a client may send: what is moved finds an app before it, and a deleted folder brings its app to a root that has one. |
| `signin` | `SignInTypeOK`, `SignedInIsVerified`, `TokensNameOwnProfile`, `VerifiedIsProven` | 2 requests at a time, any number in turn; 1 user, 1 profile; Google, wallet, guest and passkey. These are the ways the code treats a strategy: Apple's is Google's but for the second look at the token, an e-mail address is proved as a wallet is. `FewAccounts`: three accounts, one of them a wallet's or a passkey's; a race needs two requests for the same one. |
| `caches` | `FeaturedCleared`, `PreferenceCleared`, `NativeUnlessPreferred`, `IdsInOrder`, `CachesSettle` | 2 requests in all, 2 categories, apps, slugs, URLs and tokens, 1 profile; room for 1 of the 2 apps on the featured list, popularity written to 0 or counted up; amounts 0, 1, 199 and scores 0, 50, 100 give every order of two scores and a tie. A reader overtaken by a writer needs two requests. |
| `orby_sentTwice` | `SentAtMostOnce` violated | 2 requests, 1 operation. |

What the passing runs show:

- An operation's reported status is always one Orby reached, and lives the life of
  `OperationLife`: a result only after `pending`, nothing after its profile's
  deletion, and no change by a restart. It never goes back to `created`, although
  callbacks write back statuses they read earlier: a subscription exists only once
  the row was `pending`, and every later write keeps it beyond `created`.
  (Exchanging record and subscription breaks this: `SubmitRecordSubscribesFirst`.)
- A refused atomic creation leaves no row behind, unless its clean-up fails; an
  atomic execution submits nothing after one of its submissions was refused, also
  when the reason is that somebody else has sent the operation;
  `submitted` and `completed` are never reported of a batch that has not come
  that far, whatever overwrites what.
- A profile's creation ends whether or not Orby answers, and leaves at most three
  clusters at Orby, late ones included, and none if the profile never was.
- Of several keys generated for a profile, whose notifications are duplicated,
  interleaved and interrupted, one comes to be mapped, and only that one to be the
  profile's linked wallet: the mapping is *created*, never updated, before the
  linked account is touched. The address may be another's (section 5). A retry
  completes an interrupted notification.
- Whoever logged out and whose session is gone cannot pass again, not with tokens
  refreshed later either. If only one of a logout's two writes succeeds, the token
  presented stays refused for its whole validity all the same. It depends on
  `Math.ceil` in the TTL (`TtlSecondsFloor`). If both fail, the client is told
  that it is logged out, and is not (`LogoutRevokes`, section 5).
- A sign-in that succeeds has a verified account, whoever created it, a session
  and, in its tokens, a profile that the account itself was given. An account is
  verified only if its owner proved to be that: requests that link an id they were
  told make the very rows that sign-ins find, and leave them unverified.
- The search of the identity graph is reachability over non-isolated links; it
  takes every account from its queue at most once under every concurrent change;
  direct access is only ever passed along one link from somebody who had it.
- The one-time flows implement `SingleUse`: nobody who comes after the first use
  of a token gets through, and pending sign-ins and challenges are used once. The
  e-mail endpoint confirms a code once because its *delete by id* throws for the
  second; wrong guesses exceed the limit only by requests in flight.
- 2FA is on only with a secret that was proven, in spite of lost updates, since a
  secret and its flag are written together; its gate opens only for a token that
  the account took between the gate's two reads (a TOTP or backup code of a proven
  secret, or a backup code renewed while 2FA was on), unless 2FA was off meanwhile.
  Secret, flag and codes are written back together, from one read; merging the codes
  of the second read into them would break it (`UpdateReadKeepsCodes`).
- Unlinking promotes another primary account; a path is direct only if each
  account read was at some time not delegated to the session wallet read, and
  delegated only if one was. It is not what is true at the end (`DirectMeansNone`).
- Apps and folders never refer across profiles; what is created or moved comes
  after all that is there, whatever positions reordering left.
- The cached list of featured apps is full and shows active, featured apps with
  their URL, and the cached suggestion follows the preference, except while a
  writer has yet to clear it, or because a reader stored it late or an outage lost
  the clear. Nothing of the kind is true of the rest: `getAppById` counts views,
  which order the list, and clears nothing, and writes of apps do not clear the list
  of categories with its counts. Whatever is cached expires (`CachesSettle`).

Assumptions of runs that are not in the code: clients sign all operations of a
batch (`api-sequence/9-batch-operations.md:73`), with or without an unknown id in
between — an empty or partial list also yields `submitted`, as it counts no
failure; nobody links or unlinks its own account in `identity`
(`SelfLinks = FALSE`; the proofs cover both). `MaxTxs`, `MaxCrashes`,
`KeysPerProfile`, `MaxTime`, `MaxAborts`, `MaxRestarts`, `MaxBatches`,
`MaxAsserts`, `MaxGuests`, `MaxPosition` bound counters; the ids of tokens, rows,
folders and apps bound how many are ever created.

### Fairness

- **Event loop** (`WF` on the steps of each request and callback already begun,
  in `FairSpec`, `MpcFairSpec`, `IdentityFairSpec`): Node resumes an awaited call
  whose answer has come. Nothing obliges a client to begin a request.
- **Timers and the database** (`SetupFairSpec`): the ten-second timer fires
  (`TimesOut`), the next attempt is made, and the database answers. There is no
  fairness on Orby: that is what the timer is for.
- **Orby** (`FairSpec`): an execution finishes, and its result reaches a callback
  as long as there is a subscription (`SF`, since subscription and free callback
  slot come and go). That is what `subscribeToOperationSetStatus` is for. No property
  of a run needs it; it is there so that `PendingSettlesWhateverId` (section 5) is not
  violated for want of it.
- **Notifications** (`MpcFairSpec`, `SetupFairSpec`): that of a key is retried
  (`SF`), as webhooks are and as the client does after an error. This is an
  assumption on the environment.
- **Expiry** (`Caches`): Redis drops an entry that has outlived its lifetime
  (`WF` on `Expire`). No request need ever go on.

Each liveness property leaves out what the code does not recover from: an operation
whose subscription a restart loses, or whose id Orby did not take over, stays
`pending` for ever.

## 4. Findings

One behaviour of the code that disagrees with what the repository says has a
violation run (details in `PROJECT.json` "findings"): an operation may be sent to
Orby twice (`orbyService.ts:674`).

## 5. Further properties

These properties are stated in the modules and are *not* true of the code. They
show where the promises of the passing properties end. To see one fail, put it in
place of the properties of the configuration named and run `tlc -config <cfg>
<module>`.

| Property | Configuration | What is said, what happens |
|---|---|---|
| `PendingSettlesWhateverId` | `MCOrbyOperations.cfg` | "Use status endpoint to track progress" (`orbyController.ts:376`); an answer with an id other than the row's local `op_...` (`orbyController.ts:302`) never finds the row (`orbyService.ts:746`), and nothing renews a subscription after a restart. |
| `AllOrNothing` | `MCBatchOperations.cfg` | "All or nothing" (`tests/e2e/scenarios/batchOperations.test.ts:256`); an error of the database at the clean-up or at the record (`batchOperationService.ts:197`, `:212`), or a stop before them, leaves rows of operations. |
| `FailedMeansNoneSucceeded` | `MCBatchOperations.cfg` | "Some failed: partial" (`api-sequence/9-batch-operations.md:128`); the poll writes `failed` when any failed (`batchOperationService.ts:426`). |
| `AtomicStopsAtUnknown` | `MCBatchOperations.cfg` | "If atomic && failed: Stop execution" (`api-sequence/9-batch-operations.md:96-97`); an unknown id counts as failed and the loop goes on (`batchOperationService.ts:278-287`). |
| `BackupAsksForIssuedKey` | `MCProfileSetup.cfg` | "Get the Silence Labs key ID for this profile" (`mpcControllerV2.ts:114`); the id is stored encrypted and handed on as it is stored. |
| `MappedIsLinked` | `MCProfileSetup.cfg` | The webhook controller "properly: creates a LinkedAccount entry for the MPC wallet when generated" (`docs/WALLET_PORTFOLIO_FIX.md:19-20`); a repeated notification throws at the mapping and never reaches the linked account. |
| `AddressMatchesMapping` | `MCProfileSetup.cfg` | "Profile already has an MPC wallet" (`mpcControllerV2.ts:51`) is asked before the key exists, and clients are told to retry ("MPC Generation Timeout: Retry with exponential backoff", `docs/MPC_IOS_INTEGRATION.md:191-192`); a second key overwrites the address (`mpcControllerV2.ts:614`) and fails at the mapping. |
| `ErrorLeavesNothing` | `MCProfileSetup.cfg` | "profile creation succeeds even if Orby fails" (`docs/features/ORBY_INTEGRATION_STATUS.md:14`); the audit row about the failure is written outside any `try`. |
| `FailureMeansNoCluster` | `MCProfileSetup.cfg` | The audit log says that no cluster was created; an abandoned call, or a cluster whose own audit row failed, is there. |
| `AnswerShowsWallet` | `MCProfileSetup.cfg` | `needsMpcGeneration` is read anew, the address is that of the transaction. |
| `TokensNeedSession` | `MCSessions.cfg` | "Refresh Token: Implicitly invalidated (session gone)" (`api-sequence/4-session-management.md:157`); a refresh token outlives the logout (`authControllerV2.js:1053`). |
| `LogoutRevokes` | `MCSessions.cfg` | "Blacklist on logout" (`docs/technical/API_DOCUMENTATION.md:23`); if neither the session's deletion nor the insertion into the blacklist succeeds, the client is told that it is logged out all the same (`authRoutesV2.js:205-209`, `:248-252`). |
| `RequestsStayCounted` | `MCOneTimeCodes.cfg` | "Rate limited to 3 requests per hour per email" (`api-sequence/1-authentication-flows.md:77`; "429 Too Many Requests: Rate limit exceeded (3 requests per hour)", `api-sequence/11-email-authentication.md:69`, `:289`); the code's limit is 1000, and every request deletes the rows it counts (`emailAuthControllerV2.js:22-43`), so that none is ever refused. |
| `CreatorsKeepTheirProfiles` | `MCIdentityGraph.cfg` | Unlinking takes profiles "only accessible through this identity graph" (`authControllerV2.js:1668-1669`); all rows of the target go, its own too (`:1674`). |
| `OnlyLinkedGainAccess` | `MCIdentityGraph.cfg` | "The account will need to be re-linked" (`authControllerV2.js:1673`); a link request still granting when the unlink ends gives access without a link. |
| `IsolatedSharesNothing` | `MCIdentityGraph.cfg` | "No profile sharing" for `isolated` (`api-sequence/3-account-linking.md:213-214`); `linkAccounts` grants whatever the mode (`authControllerV2.js:1435-1437`). |
| `SwitchWorksIfAccessible` | `MCIdentityGraph.cfg` | "If accessible" (`api-sequence/2-profile-management.md:342`); the service asks for a row of the account itself (`smartProfileService.ts:494-508`). |
| `OneActivePerAccount` | `MCIdentityGraph_oneActive.cfg` | "only one active per user" (`api-sequence/2-profile-management.md:352`); profiles are shared and a switch deactivates those of one account. |
| `BackupCodeUsedOnce` | `MCAccountFactors.cfg` | "Backup codes are single-use and marked as used" (`api-sequence/9-two-factor-auth.md:200`); two requests read the same list, and a stale copy brings a used one back. |
| `StaysOn`, `CounterNeverBack` | `MCAccountFactors.cfg` | A passkey sign-in writes back the 2FA state it read, a 2FA update the passkey counter it read. |
| `RegisteredCanSignIn` | `MCAccountFactors.cfg` | "We need to use the same format that was stored during registration" (`passkeyService.ts:257-258`); registration of a passkey for an existing account stores another (`:140`). |
| `OnePrimary` | `MCLinkedAccounts_primary.cfg` | "Only one account can be primary at a time" (`api-sequence/6-linked-accounts.md:488`); unlinking a row that was soft-deleted as primary promotes one more. |
| `AllowancesOfLinked` | `MCLinkedAccounts.cfg` | "Unlinking removes all associated token allowances" (`api-sequence/6-linked-accounts.md:276`); a soft deletion removes none. |
| `LinkedBothWays` | `MCLinkedAccounts.cfg` | The route stores the linked account and then the identity link; when the second fails, a retry is refused at the first. |
| `DirectMeansNone` | `MCLinkedAccounts.cfg` | "No active delegation - will execute through session wallet" (`api-sequence/7-delegation-eip7702.md:348`); it is said although an account delegated to the address the session wallet had before its key was generated, or to one the client named (`delegationRoutesV2.ts:38`). |
| `OneActiveDelegation` | `MCLinkedAccounts_delegations.cfg` | "Active delegation already exists for this account" (`delegationService.ts:81`) is asked before the wallet signs, and not again. |
| `GrantedAsAsked` | `MCLinkedAccounts.cfg` | "Fine-grained control over allowed operations" (`api-sequence/7-delegation-eip7702.md:406`); the confirmation stores all permissions and no expiry. |
| `PagesShowEveryApp` | `MCDesktop.cfg` | Apps with equal positions have no stated order, so that two pages may show one twice and another never. |
| `DeletesOnlyEmpty` | `MCCaches.cfg` | "Cannot delete if apps exist in the category" (`docs/APP_STORE_API.md:258`); apps are counted in a query before. |
| `FeaturedByPopularity` | `MCCaches.cfg` | "Returns up to 12 featured apps sorted by popularity" (`docs/APP_STORE_API.md:100`); looking at an app raises its popularity and clears nothing (`appStoreService.ts:202-206`). |
| `OneAccountPerIdentity` | `MCSignIn.cfg` | "Find or create an account based on auth method" (`accountService.js:11`, `docs/technical/IDENTITY_MANAGEMENT.md:17`); Google and Apple get a qualified account and a bare one. |
| `SessionsAreKnown`, `TokensNameLiveProfile` | `MCSignIn.cfg` | Session rows whose token nobody holds; tokens for a profile deleted since it was read. |

Properties that hold and are in no run, since their run's time is spent better:
`BatchTypeOK`, `MpcTypeOK`, `SetupTypeOK`, `SessionTypeOK`, `TypeOK` of
`OneTimeCodes`, `FactorsTypeOK`, `LinksStay`, `SlugsApart`, `NeverBackToCreated` (implied
by `LivesItsLife`), `CodesBounded` (a theorem all the same), and `RequestsEnd`
(`MCIdentityGraph_races.cfg`: 2 accounts, 2 requests, fairness of the event loop).

## 6. Proofs

`tlapm` checks all obligations of the eight `*Proofs` modules. The theorems hold
for every set of operations, batches, requests, callbacks, accounts, profiles,
tokens, wallets and keys and every value of the bounds, from the assumptions the
specifications declare: the null values are none of the others, flags and bounds
have their types (`OrbyConstants`, `IdentityConstants`, `MpcConstants`,
`AbortsBounded`, `SessionConstants`, `StrategiesKnown`, `FactorBounds`,
`SomeAttempts`, `SomeRestarts`, `SomeKeys`); what is counted or summed is finite
(`FiniteFlight`, `TokenNumbers`, `FiniteWallets`, `SomeTokens`); the positions a
column holds lie on both sides of zero and suffice to number the folders and apps
there may be (`DesktopConstants`); popularities are integers and the listed apps
finitely many (`SomeApps`); two cached answers never share a key, as a prefix
names their kind and an id their profile (`KeysApart`); batches and signed lists
are sequences of operations (`BatchConstants`), and two positions of batches never
get the same id, since the id contains the batch's random one and the position
(`BatchOpsApart`). `SubmittedIsTrue` has a hypothesis of its own, given below.
Every inductive invariant that is not a conjunction of properties of the runs was
checked by TLC on the run's instance first.

**`OperationsProofs`, operations.** `ReportedIsReal` is not inductive: what a callback
writes depends on what it read, what a request records depends on what it was
answered. The invariant adds what each of them carries: an execution a request
or a callback works for was accepted for its operation; a subscription and a
read by it exist only for a row that has left `created`; an activity in flight
is one that the execution has reached; results of executions are final. From it:

- `Invariance`: the invariant holds in every reachable state;
- `TypeCorrect`: `Spec => []TypeOK`;
- `StatusIsReal`: `Spec => []ReportedIsReal`;
- `HandedOverForGood`: `Spec => NeverBackToCreated`, an action property: the only
  writes of `created` need an unused row, or a callback that has read it, which
  the invariant excludes;
- `LifeIsLived`: `Spec => LivesItsLife`, the refinement of `OperationLife`. A set that
  Orby accepts or ends maps to `Accept` or `Reach` (`AcceptSeen`, `FinishSeen`), an update
  of the status to `ReportPending` or `ReportResult` (`LifeReports`), the cascade to
  `DeleteOwner`; all else, restarts included, is a stutter. It needs one more
  invariant: a request names an operation that was created (`KnownOK`). A result may
  be replaced by `pending` or another result, as an operation may be sent twice
  (`orby_sentTwice`), so `OperationLife` does not call results final.

**`OperationsProofs`, batches.** Every step of `BatchOperations` is a step of
`OrbyOperations`, or leaves its variables alone, or is the clean-up of a refused
atomic batch (`OrbyPart`); so the invariant above is part of this one, with two
additions (no profile, no rows; a request answered `ok` was accepted). What it
adds of the batches: where a creation stands and what it has built (`CreatorOK`,
`NotBuilt`), that a stored record keeps its operations and goes with the profile
only (`RecordsStay`), what an execution has counted so far (`ExecutorOK`: what it
did not count as failed was sent), and what a poll is about to write
(`PollerOK`, `CompletedOK`). "Sent" and "succeeded" are never taken back
(`SentStays`), which is why a status computed from an earlier read is still true
when it is written. From it:

- `BatchTypeCorrect`, `CreatedAsAWhole` (`AtomicCreation`) and `CompletedIsTrue`
  (`CompletedMeansSucceeded`), of every behaviour;
- `SubmittedIsTrue`: `BatchSpec /\ [][SignsWhole]_allVars => []SubmittedMeansSent`.
  The hypothesis says of the clients that a list they execute a batch with is not
  empty and names all operations of the batch or none. Without it the code does
  answer `submitted` for a part (`batchOperationService.ts:326-328`);
- `StopsAtFirstFailure` (`AtomicStopsAtFirstFailure`), of every behaviour and of whatever
  lists clients sign: `accepted` has the submissions that an execution itself saw
  accepted, and an atomic one goes on only after such. It speaks of the batch's own
  operations; that the loop goes on after an id that names none is
  `AtomicStopsAtUnknown` (section 5).

The hypothesis of `SubmittedIsTrue` is about the request bodies alone; TLC confirms that
it holds of the lists of the `batch` run, which reaches every status under it.

**`IdentityGraphProofs`.** Lemmas first (what `Pair`, `LinkOf`, the link
updates and `Unsteady` leave alone); then one lemma per conjunct and group of
actions. The invariant is

    IdentityTypeOK /\ HistoryOK /\ RequestOK /\ SearchOK /\ AccessFollowsDirectLinks

- `HistoryOK`: links and rows that are there are in the history, and nobody ever had
  access to a profile that was not created yet;
- `RequestOK`: a granting request carries profiles its account once had, and the
  pair it grants along once had a link;
- `SearchOK`: a steady search has visited only accounts that every closed set
  around its start contains, and the links of what it visited and has no longer
  in its queue are all visited.

From it: `IdentityTypeCorrect`, `AccessIsDirect`, and `SearchIsReachability`: when
the queue is empty the visited set is itself closed, so it is the least one. The
reference definition `Reachable` speaks of closed sets and not of paths, so no
induction over paths is needed. `SearchGoesOn` (`IdentitySpec => SearchAdvances`)
rests on the lemma `OnlyVisits`: of all steps only `Visit` changes the queue of a
search that stays one.

**`ProfilesProofs`, creation.** Two invariants of `ProfileSetup` composed with `MpcKeys`.

- `ClusterInv` bounds the calls at Orby, `clusters[p] + abandoned[p]`. Their number
  alone is not inductive, as nothing in it says how many attempts are left: so
  `Asked` relates it to where the creation stands. Nothing before the profile is
  committed; fewer calls than attempts while one is under way; at most as many
  as attempts, and fewer than three attempts, between two of them. A late answer
  moves a call from `abandoned` to `clusters` and leaves the sum. From it
  `AtMostThreeClusters`.
- `KeyInv` is what keeps wallet and mapping together: an address, a mapping and every
  notification are of a key that was generated for the profile; a request past its
  mapping finds its own key there; a linked wallet is the mapping's. Only the request that
  creates the profile's one mapping reaches the linked account, and a mapping is
  never changed, so this holds for any number of keys (`WalletIsMapped`). What needs one
  key per profile, that the address is the mapping's, is false (section 5).

**`ProfilesProofs`, desktop.** The invariant (`DesktopInv`) is the types and

- `AppsPlaced`: an app is at the root or in a folder that exists and has its profile;
- `PublicLinked` and `LinksApart`: a public folder has a link, and a link has one
  folder, whether that is public at the moment or not. The property speaks of
  public folders only, which is not inductive: `shareFolder` makes an old link
  public again;
- `NamesApart`, which the checks of `createFolder` and `updateFolder` keep.

Every operation on a folder but two writes one row: `FolderWritten` says when such a
row `Fits`, so that each operation has only its row to answer for; `AppsChanged` does
the same for apps. From it `DesktopIsTyped` and `FoldersAreNamedApart`. The action
property `MovesAreToTheEnd` (`PlacedAtEnd`) needs three facts about orders: a finite
set has as many places in an order as elements, each of them in one
(`OrderPositions`, from the library's theorems on injections between sets of equal
size); the position after the last exceeds all (`AfterLastIsLast`); and what
exceeds all others is last in every list that is sorted (`GreatestIsLast`).

**`SignInProofs`, sessions.** The invariant (`SessionInv`) follows what each read of the
middleware established: a session logged out of is gone and stays gone; a presented
token, as long as it is valid, is listed in the blacklist or has no session
(`PresentedDead`: a logout leaves either, both, or neither, and in the last case the
token does not count as presented); and a request past a read (`Looked`) began
before the logout or was refused, or will be at its next read. What makes the second
inductive is arithmetic: the TTL, rounded up to seconds, reaches beyond
the token's own expiry (`RoundedUp`, from the lemmas on `\div`), so no clean-up
finds the row too early (`RowOutlives`). From it `SessionsTypeCorrect`,
`LogoutIsFinal` and `PresentedTokenStaysDead`, for every clock resolution and
token lifetime.

**`SignInProofs`, sign-in.** `SignInInv` says what a request has behind it at each of its
steps (`Reached`): the account it found or made exists; its owner has proved to be
that, from the start or, with Google and Apple, from `socialAuthService` on, and
so has the owner of a wallet that is linked; a session has an account that is verified
or a guest's; access that a token may name was granted. What lies behind a request is
never taken back (`Grow`), so that what one found stays true while others run. From it
`SignInTypeCorrect`, `SignedInVerified`, `OwnProfileNamed` and `VerifiedWasProven`
(`VerifiedIsProven`): the two steps that verify, a creation that is verified at
once and `verifyAccount`, come after the proof, although other requests make the same
rows without one.

**`OneTimeCodesProofs`.** Three invariants.

- `CodesInv`: what has no row yet is untouched, a request past its look-up holds a
  token that was generated, and a confirmed code has no row. From it
  `CodesTypeCorrect` and `CodeConfirmedOnce`. With it the refinement,
  `PromiseKept`: the initial states are those of `SingleUse`, and every step is
  an issue, a claim, a use, a withdrawal or a stutter of it.
- `PromiseInv`, about `SingleUse` under the mapping: a token that can be claimed
  was not used, and uses and claims together never exceed the requests
  (`UsesWithinFlight`); strict tokens are used once (`StrictlyOnce`).
- `GuessInv` relates wrong guesses to attempts counted, requests that have
  compared and not yet counted, and restarts. `GuessesAreBounded`, and
  `CodesAreBounded` by a count of the codes there are and those about to be
  stored.

**`AccountFactorsProofs`.** The invariant speaks of the metadata and of every copy a
request holds in memory. In all of them what is on was proven, and codes belong to
the secret beside them or were renewed while 2FA was on (`AllProven`): writing back a
stale copy cannot bring in a secret that was not proven, nor beside a proven one
codes of another. A request between the gate's two reads knows whether 2FA was off
meanwhile and whether its token would have been taken (`GateRemembers`), and every
answer of yes, given or about to be, is justified by what it read (`AnswersRight`). From
it `FactorsTypeCorrect`, `OnMeansProven` and `GateHolds`.

**`LinkedAccountsProofs`.** `StoredOK` for the rows, `WalletsOK` for the addresses;
`Held` for what a request carries; and `AllWatched`: of the accounts a request has read,
those delegated ever since to the wallet it read are still to be asked for, and those
still to be asked for that are delegated at the moment are among the ones seen
(`Watched`). A request keeps the address it has read, so that a notification that
replaces the profile's disturbs none of this. From it `LinkedTypeCorrect` and `PathIsRight`
(`PathFollowsDelegations`). The action property `UnlinkKeepsPrimary`
(`PrimaryIsPassedOn`) needs only the types, and that a profile has finitely many
accounts, as the code counts them.

**`CachesProofs`.** Of the featured apps and the suggestions that are cached, the
invariant (`CachesInv`) says that they are right, will be cleared, or are `late`:
stored although outdated by then, or kept because Redis lost the deletion. Right
is, of the featured apps, that they are as many as fit and active, featured and
with the URL they have; a view, which clears nothing, changes none of this. That
is not inductive by itself: what a request does to the cache depends on what it
brings from its earlier steps. `RequestsCarry` says what that is: the key it
reads, stores or clears, the profile it works for, the scores it computed of the
portfolio it holds, the ids it was answered. From it `FeaturedIsCleared` and
`PreferenceIsCleared`. Two properties are about functions that recursion defines:

- `SuggestedIsNative`: the suggestion is the token of greatest score, and the score
  adds shares of a sum over the portfolio, rounded down, to a bonus. That the sum
  (`Total`) bounds each of its parts (`TotalBounds`) makes a share at most the
  weight it stands for (`PartOfWhole`), so the bonus of native tokens decides
  (`BonusDecides`), for portfolios of any size;
- `IdsAreInOrder`: the ids fetched are counted off where the cache had none.
  `MergeInOrder` says that the count is right for a list of any length: what was
  pushed for the first tokens is the beginning of all that is pushed
  (`PushedGrows`).

What such a function computes for every input would be an induction, and the
library's induction theorems cannot be instantiated by the installed provers. The
lemmas argue by least counterexamples instead: the strict subset order on finite sets
is well founded (`FS_StrictSubsetOrderingWellFounded`, a theorem without
operator parameters), so a set of finite sets has a least member (`LeastSet`) and a
set of numbers a least number (`LeastNumber`). From a counterexample that is least
follows that its predecessor is none, and one unfolding of the function makes it none
either.

**Only model-checked.** Liveness (`AcceptedIsRecorded`, `AddressedIsMapped`,
`CreationEnds`, `CachesSettle`) is out of the prover's reach, which has neither
`ENABLED` nor the rules for fairness. All invariants and action properties of the
passing runs are theorems (`SubmittedMeansSent` under its hypothesis).

## 7. Not modelled

- Portfolio, gas estimates, quotes, chains, metadata enrichment: computations over
  outside data without state.
- `mpcDuoNodeService` answers 501 to everything, `rotateKey` is a stub,
  `startKeyGeneration` never succeeds, key shares are unused; session wallets rest
  on them.
- `authService.ts` is mounted nowhere; `isTokenBlacklisted`, `getPendingAuth`,
  `storePendingAuth`, `cleanupExpiredChannels`, `revokeTokenAllowance`,
  `coalesceRequest`, `accountDelegationService`, `accountLinkingService` and
  `dragOperationService` have no caller; `executeWithDelegation` never succeeds.
- `batchOperationService` is modelled although no file under `src/src` calls it
  at this commit: its tests and the API sequences do.
- Exchanges with outside identity providers: `SignIn` begins when a proof was
  accepted, Google's and Apple's excepted.
- `authenticateV2`'s branches for Discord, Spotify, GitHub, Twitter, Facebook, TikTok,
  Epic Games, Shopify and Farcaster: the route's validator refuses these strategies
  with 400 (`authRoutesV2.js:18`) before the controller sees them.
- Rate limiting: the counting is that of `rate-limiter-flexible`; the code only
  chooses keys and limits. The e-mail limit of 1000 an hour is out of the bounds; that
  it refuses nobody is `CodesAreBounded` and section 5.
- Name, avatar and metadata updates; the text of notifications, audit rows that
  nothing reads, monitoring and statistics.

Observations made while modelling that are not properties of a model:

- Reordering apps with the documented body, a list of ids (`appOrders`,
  `api-sequence/2-apps-management.md:383`), throws: the service reads the field `appIds`
  of what the controller passes on, which is the list itself.
- The endpoint that clears caches leaves the categories' entry; `createApp`
  accepts an inactive category; `updateProfile` passes on the name only.
- Registration options store a challenge that no registration asks for: it compares
  the authenticator's answer with the challenge the client sends along
  (`passkeyService.ts:412`), and the one stored only expires.
- `GET /profiles/:id/accounts` uses `prisma`, which `profileControllerV2.js` never
  imports, and always fails.
- A Google sign-in answers 401, with account and session there, when the second look at
  the token fails after the first succeeded (modelled: `RequestFails`).
- The routes of key operations demand a 2FA token of six characters
  (`mpcRoutesV2.ts:19`, `:25`, `:30`), and backup codes are mostly longer: the gate takes
  them (`twoFactorService.ts:204-227`, modelled), but few reach it.

## 8. Plan

The models cover the state-changing services, and all safety properties of the
passing runs are proved. What is left:

1. `SlugsApart` as a theorem (it holds by the refusal of overlapping writes).
2. A model of the limits around authentication, should the limiter come to hold
   logic of its own.
