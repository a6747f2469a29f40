# FileOnChain: a verification project

TLA+ models of the parts of FileOnChain where several actors change the same
rows, or where a long sequence of calls could leave the expected states: USDC
deposits, hosted anchoring against account credits, the webhook outbox, bulk
exports, the anchor indexer, the life of stored evidence, sealing with its
signers and quotas, organisations and projects, wallet sign-in, the API's rate
limits, the resumed browser upload, two contracts, the Merkle trees of receipts
and the verifier of envelopes. TLC checks each model on small instances. TLAPS
proves every safety property, action property and refinement that the passing
runs check, for every value of the constants; what stays with TLC alone is
liveness, and the disagreements of section 7.

Paths are relative to `apps/web/src/` in the repository unless they start with
`packages/`, `contracts/` or `apps/`.

## 1. The system

A Next.js application over Postgres (interactive transactions). Request
handlers and cron routes are functions that run concurrently, share nothing
but the database, and may be killed between two statements. There is no job
queue and no lock service: the code relies on conditional `UPDATE`s, unique
indexes, foreign keys, one advisory lock, `FOR UPDATE SKIP LOCKED`, and crons
that fire again. Crons (UTC): `webhooks-drain` every minute; `indexer-scan`
01:47, `deposits-watch` 02:57, `retention-sweep` 03:17, `exports-sweep` 03:37
and `rate-limit-sweep` 04:27 daily; `compliance-reports-build` on the first of
the month at 04:00.

### Inventory

| Component | State | Operations | What is hard | What makes it correct | Modelled |
|---|---|---|---|---|---|
| USDC deposits (`lib/server/deposits.ts`, `api/credits/deposit/**`) | `deposit`, `deposit_cursor`, rows of `credit_ledger` | open an intent; watcher tick; confirm request | two independent paths confirm the same row; the cursor against failed and overlapping ticks; finality | credited once, a hash pays for one deposit, nothing paid is passed over | `Deposits` |
| Hosted anchoring (`lib/server/anchor-service.ts`, `credits.ts`, `anchor-worker.ts`) | `upload_job`, `credit_ledger` | create a job, debit, broadcast per chain, complete, or fail and refund | concurrent requests of one account; some chains land and others do not; death between statements | never overdrawn, an answer means a settled account | `AnchorJobs` |
| Webhook outbox (`lib/server/webhooks.ts`, `api/v1/webhooks/**`) | `webhook_endpoint`, `webhook_subscription`, `webhook_delivery` | fan-out, claim, dispatch, redeliver, manage | leases, overlapping and dying ticks, an HTTP call between read and write, a secret that no longer opens | one tick per row, counted attempts, every row is settled | `Webhooks` (without signing and the batch fan-out) |
| Bulk exports (`lib/server/exports.ts`, `api/v1/exports/**`) | `export_job`, a TAR file | create, build page by page, mark, download, delete, sweep | rows appear and vanish between pages; the build dies with its process; clock precision | a ready archive is complete, no job stays for ever | `Exports` (without the TAR format and the token) |
| Anchor indexer (`lib/indexer/**`) | `indexed_anchor_event`, `indexer_cursor` | scan by cursor, ingest one transaction | overlapping scans, reorganisations, failing ticks, a batch that the table refuses | no final anchor is passed over, each is indexed in the end unless its window is refused | `Indexer` |
| Evidence, verification, retention (`lib/server/evidence.ts`, `verify-server.ts`, `retention.ts`) | `evidence_envelope`, `retention_policy` | seal, verify, retire | quota, signer and retention are read before the insert; overlapping sweeps and their events | an envelope lives exactly as long as was fixed when it was sealed; announced only when gone | `Retention`, `Sealing` (without the refusals of a document) |
| Agent runs (`lib/server/agent-runs.ts`) | `agent_run` | submit | two inserts without a transaction, against a sweep | a run has its envelope | `Retention` |
| Cloud signer and quotas (`lib/server/cloud-signer.ts`, `quotas.ts`) | `cloud_signer`, the caps of `project` | rotate, revoke, sign, count, set a cap | concurrent rotations, a signer revoked meanwhile, counts that are read before the insert, a cap lowered below the count | one active signer per scope; signed as asked; a bounded overshoot | `Sealing` |
| API keys and rate limits (`lib/server/api-keys.ts`, `rate-limit*.ts`) | `api_key`, `rate_limit_window` | authenticate with two buckets, sweep | instances with their own clocks, late statements, swept windows | no window admits more than its limit | `RateLimit`; project keys in `Membership` |
| Organisations and projects (`lib/server/organizations.ts`, `projects.ts`) | `organization`, `organization_member`, `project`, `project_member` | create, add, remove, delete | roles are read before the write; foreign keys with and without cascade | one owner; nothing outlives what it belongs to | `Membership` |
| EVM payment contracts (`contracts/evm/src/CachePayments.sol`, `DonationEscrow.sol`) | allow lists, expiries, totals, treasuries | pay, grant, revoke, donate, move the treasury | checked `uint64` sums, swap-and-pop, a treasury that calls back | paid time is kept, lists are exact, totals match transfers | `CachePayments`, `DonationEscrow` |
| Browser uploader (`hooks/useFileUploader.ts`, `lib/anchor/resume.ts`) | a record in the browser | send, stop, resume, reload | a send that landed with its answer lost; two passes | nothing that is known to have landed is paid again | `Uploader` |
| Protocol and verifier (`packages/protocol`, `packages/verify`, `packages/sdk`) | a document in a file | build, finalise, sign, add receipts, verify | promoted nodes at odd sizes; a document that anyone may edit between two calls; endpoints that are down | a root commits to its list; a report stands on what was signed and anchored | `Merkle`, `Verification` (without canonical JSON and the signature schemes) |
| Chain SDKs, hosted signers (`packages/sdk*`, `lib/server/anchor-signers`) | none | send | any outcome of a send | - | as `SendEnds` of `AnchorJobs` |
| Compliance (`lib/server/compliance.ts`) | `compliance_report`, `org_sla` | monthly batch, report on demand | a batch over organisations of which one throws | one report per organisation and month | no: no report can be generated (section 7) |
| EVM file registry, contracts of the other chains (`contracts/{evm,near,starknet,sui,aptos}`) | a map from a CID hash to its first record | anchor | nothing: calls do not interact | first record wins | no |
| Wallet sign-in (`lib/auth/**`, `api/auth/wallet/**`, `api/wallets/**`) | `auth_nonce`, `wallet`, `user` | issue and consume a nonce, sign in, link, unlink | two first sign-ins of one wallet; link transactions that replace each other's rows; a wallet unlinked meanwhile | each link is proven over a nonce of its own; a wallet has one account and no account is left stranded | `SignIn` |
| Readers, preferences, costs, BYOK, pages, MCP server | single rows | read, write | - | - | no |

### How the parts meet

- Both paths of a deposit and both ends of an anchoring job write
  `credit_ledger`. `Deposits` counts the rows of a deposit (`credits`);
  `AnchorJobs` takes a deposit as an external increase of a balance
  (`Deposit`), and both are append-only, so the two compose through the sum.
- Sealing, verifying, expiring and agent runs call `enqueueWebhookDeliveries`
  after their own write. `Webhooks` takes those calls as `Events` with a type
  and an id given by the producer; `Retention` has the moment of one of them
  (`announced`).
- A build of `Exports` pages through `evidence_envelope` while intake inserts
  (`Seal`) and the retention sweep deletes (`Retire`). `Retention` and
  `Sealing` model the two from within: `InsertEnvelope` and `InsertSealed` are
  the same `INSERT`, seen with its expiry and with its signer and quota.
- An envelope or job names the key that made it. `Membership` has this as
  `named`, since that row decides whether a project can be deleted; the
  retention sweep appears there as `ForgetEnvelopes`.
- The watcher and the indexer use the same window arithmetic
  (`lib/scan-window.ts`).
- `Retention` stores documents, `Verification` says what a verifier makes of
  one. The hosted service signs the digest that a submitted document states, as
  `SignEnvelope` does.
- The uploader sends to the chains itself, or hands the file to the anchoring
  service (`AnchorOnServer`), which is then `CreateJob` of `AnchorJobs`.

## 2. Modelling conventions

- A database statement, or a whole transaction when the code opens one, is one
  step. Every `await` between two of them separates two steps, so all other
  actors interleave there. An actor is a program counter and the values it has
  read. A call of a contract is one step, except where it calls out.
- A function that is killed, a throwing statement and an outage are actions
  (`TickAbort`, `ReqAbort`, `Die`, `Crash`, `LoseFanout`, `FailBuild`,
  `SweepAbort`, and the `Abandon...` actions), possible at every step, with the
  rollback the code's transactions give.
- Ids, addresses, hashes, chains and event types are model values; amounts are
  small numbers, as the properties only compare and add them. Time is counted
  in the unit the code compares: blocks, days, months, minutes, instants.
- A request that is refused by its first check, and a call of a contract that
  reverts, leave no trace and are no step.
- Bounds are constants, used in guards: `MaxBlock`, `MaxBalance`,
  `MaxRecorded`, `MaxTime`, `MaxCopies`, `MaxDay`, `MaxVerifications`,
  `Verifiable`, `MaxKeys`, `MaxInFlight`, `MaxMonth`, `MaxMinute`, `MaxLanded`,
  `MaxListed`, `MaxForwarded`, `MaxDepth`, `MaxLeaves`, `MaxSteps`. The number
  of actors is the size of a set. `MaxUint64`, `MaxTries` and `MaxRows` are not
  bounds but the program's own.
- History variables say what has happened and no guard reads them, except the
  bounds: `redelivered`, `verifications`, `deadAtStart`, `passed`, `doubtful`,
  `forgotten`, `boughtPermanent`, `granted`, `forwarded`, `heldSince`,
  `unlinked`, `fresh`, `edited`, `owed`, `threw`, `overCap`.
- `Mut...` definitions stand before the operation they change. Each is a
  plausible bug of that code; no specification uses them, and each property
  below is violated when an operation is replaced by one of them.

## 3. The modules

### Deposits

`MCDeposits` instantiates `Deposits`; `PaidOnce` is its abstract
specification; `DepositsProofs` has the proofs.

| Model | Code |
|---|---|
| `CreateDeposit` | `POST /api/credits/deposit`: a pending row with the derived address |
| `TickReadCursor`, `TickFetchLogs`, `TickReadPending`, `TickConfirm`, `TickWriteCursor` | `scanChain` and `confirmTransfer`: cursor, finalized head and logs of one window, pending addresses, one confirm-and-credit transaction per log, cursor |
| `TickConfirmThrows`, `TickAbort` | the `catch` in the loop; a failure anywhere else |
| `ReqReadPending`, `ReqCheckClaimed`, `ReqVerify`, `ReqUpdate`, `ReqCredit` | `POST .../[id]/confirm`: the pending row, the claimed check, the receipt, the guarded `UPDATE` with the unique index, `creditAccount` |
| `ReqAbort` | the request dies or a call throws |
| `Mine`, `Finalize`, `Reorg` | the chain (external): a reorganisation drops blocks that are not final |

One chain is modelled, as chains have their own cursor and rows. `cursor = -1`
is a missing cursor row. `WatcherSees` is the comparison of the stored
checksummed address with a lower-cased one. A request names a transaction by a
text (`Hashes`) in any letter case, which is what the claimed check and the unique
index compare and the row keeps (`Unused`); the RPC finds the transaction of the
text (`TxOf`), and the watcher writes it in lower case.

Properties:

- `CreditedOnce`: a deposit has at most one ledger row, and only when confirmed.
- `OneHashOneDeposit`: no text of a hash confirms two deposits. That is less than
  the comments say: `OneTransferOneDeposit`, no transaction confirms two deposits,
  is violated by a respelled hash (section 7).
- `ConfirmedIsCovered`: the transaction of a confirmed deposit pays its address
  at least the amount.
- `ConfirmedIsFinal`: nothing about a confirmed deposit changes, also after a
  reorganisation.
- `NothingOwedBehindCursor`: the exact payment of a pending deposit is behind the
  cursor for two reasons only: its confirm transaction threw in some tick
  (`threw`), or its address has an upper-case letter. Overlapping and aborted
  ticks, a cursor that moves back and reorganisations are no reason.
  `NothingPaidBehindCursor`, without the two reasons, is what a comment promises.
- `PaidIsConfirmed`: the watcher confirms an exact, final payment, unless its
  transaction threw or confirmed another deposit.
- `ImplementsPaidOnce`: every step is a step of `PaidOnce` or a stutter, a payment being
  the text of a hash.

### AnchorJobs

`MCAnchorJobs`; abstract specification `PrepaidOrder`; proofs in
`AnchorJobsProofs`.

| Model | Code |
|---|---|
| `CreateJob` | `anchorWithAccount` up to the insert of the job; free and BYOK jobs skip the debit |
| `LockBalance`, `Debit`, `DebitThrows` | `debitCredits`: advisory lock, sum, insert or refusal, in one transaction; it may throw before or after its commit |
| `MarkUnpaid` | the two failure answers after the debit: 402, and the 500 of a debit that threw (`threw`) |
| `StartSends`, `PrepareThrows` | `runAnchorWorker` until the first send: every chain and signer is resolved first |
| `SendEnds`, `Settle` | one send per chain; `allSettled` and the rejection of a partial result |
| `MarkComplete`, `MarkFailed`, `Refund` | the end of the job; the refund is a statement of its own |
| `Die` | the function is killed; a send under way may still land |

`balance` is the sum of the account's rows. The quota check before the insert
has no effect (`parseAnchorPayload` drops `projectId`) and is left out; what
happens to a complete job (index, webhook) belongs to other components.

Properties: `NeverOverdrawn`; `AnswerIsSettled` (a job whose request answered
is complete, paid for and broadcast on every chain, or failed with its debit
returned); `JobsInv`, which has both, and `MissingSignerSendsNothing` (with a
chain that has no signer nothing is sent), with what makes them inductive;
`RequestIsAnswered` (liveness: every request ends, though it queues for the lock
of its account and other requests die or throw holding it: with a settled job,
with the 500 of a debit that threw and a failed job, or because it was itself
killed);
`ImplementsPrepaidOrder` (a debit is taken once from a balance that covers it,
and given back at most once and never after completion).

### Webhooks

`MCWebhooks`; abstract specification `RetryQueue`; proofs in `WebhooksProofs`.

| Model | Code |
|---|---|
| `CreateEndpoint`, `Subscribe`, `Disable`, `RotateSecret` | the management routes |
| `ChangeKey` | the deployment's key is replaced or put back (external): the secrets sealed with it open, or do not |
| `ReadSubscribers`, `InsertDeliveries`, `LoseFanout` | `enqueueWebhookDeliveries`: read, insert with `ON CONFLICT DO NOTHING`, swallowed error |
| `Claim` | the transaction of the drain: up to `Limit` due rows, `SKIP LOCKED`, lease |
| `ReadRow`, `Answer`, `Record` | `dispatchDelivery`: read, secret (`opens`), POST, the `UPDATE` from the attempts read before |
| `Redeliver` | the redeliver route: reset, then its own dispatch |
| `Crash` | the function of a tick or request is killed |
| `LeaseExpires`, `BackoffEnds` | time |

Time is abstract: a row is due, leased or waiting. `Quiet` is the one timing
fact that is used: a POST ends within 15 s, so a dispatch is over or dead
before a lease of 30 s or a backoff of 5 min runs out.

A redeliver request resets the lease of a tick that holds the row, so the row
may then be in two hands. `redelivered` says of a row that its owner has asked
for it again, and the properties say what still holds of such a row.

Properties: `DrainInv` (until its owner asks for it again, no row is in the
hands of two ticks, `OneTickPerRow`, and a row in hand is leased, undelivered,
under the cap and still has the attempts that were read, `LeaseInv`);
`ImplementsRetryQueue` (attempts are counted one by one up to the cap, none
after a success; once the owner has asked, attempts may be counted wrong, but a
success is still never forgotten); `RowIsSettled` (liveness: a row of an endpoint
that stays enabled, with a secret that opens, is delivered or runs out of
attempts, also when overlapping ticks and redeliver requests die at any point).

### Exports

`MCExports`; proofs in `ExportsProofs`.

| Model | Code |
|---|---|
| `CreateJob`, `StartBuild`, `WritePage`, `CloseArchive`, `MarkReady`, `FailBuild`, `Die` | `createExportJob` and `buildExportJob`: the loop over pages by `(created_at, id)`, the final `UPDATE`, the `catch`, the end of the process |
| `Expire`, `LazyExpire`, `Purge` | the expiry time, the check of a download, `DELETE` |
| `SweepSelect`, `SweepUnlink`, `SweepDelete`, `SweepAbort` | `sweepExpiredExportJobs` |
| `Seal`, `Retire` | intake and retention, as a build sees them |

`created_at` counts instants and a JavaScript `Date` holds `Milli` of them
(`ToDate`): Postgres keeps microseconds. `Lag` is the time between the start of
the transaction that inserts a row, which is its `created_at`, and the commit
that makes it visible.

Properties: `ReadyIsComplete` (a ready archive has every envelope that was
stored when the build started and still is, although the cursor is cut to
milliseconds, rows come and go and equal timestamps occur); `JobIsSwept`
(liveness). `WrittenOnce` is violated (section 7); how far it can fail is a theorem,
`RereadsAreClose`: a build reads again only what was created in the millisecond
its cursor was cut to.

### Indexer

`MCIndexer`; proofs in `IndexerProofs`.

| Model | Code |
|---|---|
| `ReadCursor`, `ReadHead`, `ReadLogs`, `InsertBatch`, `WriteCursor`, `AbandonScan` | `scanEvmChain`: the cursor, the finalized block and the window, both `getLogs` with their blocks, the insert, the upsert of the cursor; a failure anywhere, which `runIndexerScan` settles per chain |
| `StartIngest`, `GetReceipt`, `MissReceipt`, `InsertReceipt`, `AbandonIngest` | `ingestAnchorTx` with its retries of a missing receipt |
| `Decode`, `Storable`, `Insert` | the decoding that drops what is not an anchor payload; whether one statement can hold the batch; `ON CONFLICT (chain_id, tx_hash, log_index) DO NOTHING` |
| `Mine`, `Finalize`, `Reorg` | the chain (external): a log index counts the logs of a block, so a transaction that is mined again may have another |

`by` in a row is which path stored it; the table does not say. A batch is refused
when it holds a payload that a `jsonb` column rejects (`Unstorable`: a NUL character
passes the parser) or more rows than one statement has parameters for
(`MaxRows`); its tick throws, and the next one reads the same window. Repeating
the fetch of a missing receipt only repeats a read, so the instance has
`MaxTries = 1`.

Properties:

- `NoHoleBehindCursor`: the cursor is final, and every anchor at or below it is
  in the table, although overlapping scans put the cursor back, batches are
  abandoned, and the chain reorganises.
- `IndexInv`: that, and `ScannedRowsAreFinal` (what the scan stores agrees with
  the final chain in block and index; only the on-demand path may store what
  disappears), with what makes them inductive (section 6).
- `FinalIsIndexed` (liveness): every final anchor that can be stored is indexed by
  the cron alone, unless a window at or before its block is refused (`Refused`).

### Platform and its components

The ten modules below share no variable with each other, so a property of one
holds in all behaviours of their product exactly when it holds in those where
only that one moves. `Platform` chooses the one that moves (`focus`) at the
start, which keeps the sum of their state spaces in place of the product.
`MCPlatform` is its instance.

The proofs about the first five are in `ServiceProofs`, those about the trees
and the verifier in `VerifierProofs`, and those about the uploader, the contracts
and `Platform` itself in `PlatformProofs`.

**Retention** (abstract specification `RetainedStore`) is the life of stored evidence, in days.

| Model | Code |
|---|---|
| `SetRetentionPolicy`, `EffectiveWindow` | the upsert of the policy, the default without one |
| `ReadWindow`, `InsertEnvelope`, `InsertAgentRun`, `AbandonIntake` | `submitEvidence` from the window to the insert with its baked-in expiry; the second insert of `submitAgentRun`, which a foreign key ties to the first |
| `ReadForVerify`, `WriteCount`, `AbandonVerify` | verification by id: the count that was read is written plus one |
| `SelectExpired`, `DeleteSelected`, `AnnounceSelected`, `AbandonSweep` | one batch of `sweepExpiredEnvelopes`: select, delete by id, events |

Properties: `RetentionInv` (a sweep deletes what had expired when it was
selected and nothing else; `evidence.expired` is announced only of an envelope
that is gone; an agent run has its envelope); `VerifiedIsCounted` (concurrent
verifications may lose a count, but never all, and never count too much;
`verifications` counts those that were written);
`ImplementsRetainedStore` (no policy change, overlap or crash makes an envelope
expire at another time than was fixed when it was sealed); `ExpiredIsDeleted`
(liveness).

**Sealing** is what an intake reads before that
insert: the signer of its scope and the quota of its project.

| Model | Code |
|---|---|
| `StartRotation`, `CommitRotation`, `AbandonRotation`, `RevokeSigner` | `generateCloudSigner` as a transaction whose `UPDATE` sees the signers of its start, against the partial unique index; `revokeCloudSigner` |
| `BeginSeal`, `Sign`, `InsertSealed`, `AbandonSeal` | the quota, the active signer, the insert; a refusal leaves nothing |
| `UnderQuota`, `UpdateProjectQuotas` | `enforceEnvelopeQuota`, whose two reads, of the cap and of the count, are one step; the cap set by a lead, at any time |

Properties: `SealingInv` (at most one active signer per scope, and an envelope
that asked for a signature has one of that scope, by a signer not revoked when
the request began); `QuotaOvershoot` (the cap is passed by less than the number
of intakes in flight, which is what reading before inserting costs; a cap that is
lowered below what the month holds, which `overCap` remembers, lets nothing in that
was not under way).

**Membership**: every request has its permission
read in one step (`Start...`, `ReadTarget`, `ReadOrgMember`, `ReadTeamMember`)
and its write in a later one (`AddMember`, `RemoveMember`, `CreateProject`,
`DeleteProject`, `AddProjectMember`, `RemoveProjectMember`, `CreateKey`,
`DeleteOrganization`), in the terms of the functions of `organizations.ts`,
`projects.ts` and `api-keys.ts`. Foreign keys, cascades and primary keys are part
of the write. `UseKey` and `ForgetEnvelopes` are the rows that name a key.
Property: `MembershipInv` (exactly one owner while the organisation exists; no
project, membership or key without what it belongs to, and none gone that an
envelope or a job names). That a project keeps a lead is no property: two leads
may remove each other, and then nobody can change it (section 7).

**SignIn** is sign-in with a wallet and the wallets
linked to an account.

| Model | Code |
|---|---|
| `IssueNonce`, `NonceExpires`, `ConsumeNonce` | the nonce route; the conditional `UPDATE` of `verifyWalletSignature`, which comes before the signature is looked at |
| `FindHolder`, `CreateAccount` | `authorize`: the account of the wallet, or a new one with its wallet in one transaction |
| `CheckElsewhere`, `StartRelink`, `CommitRelink` | the link route: the read, then a transaction of `DELETE` and `INSERT` against two unique indexes |
| `Unlink`, `AbandonProof`, `CreateOAuthAccount` | the unlink route; a request that is killed; an account made by another provider |

Property: `SignInInv`, whose parts are `EveryLinkIsProven` (a wallet is of one
account, an account has one wallet of a family, and each link was proven over a
nonce that was issued for this wallet and links no other), `ServedOnce`,
`SignsInAHolder` (a sign-in answers with an account that has held the wallet at
some moment since its nonce was consumed) and `NoStrandedAccount` (a sign-in that
loses a race leaves no account behind).

**RateLimit**: `ReceiveCall`, `EnforceIpRateLimit`, `FindKey`,
`EnforceApiKeyRateLimit` are `authenticateApiKey` with its two buckets;
`BumpAndCheck` is the counting upsert; `SweepWindows` the sweep. `MaxLag` is how
far the clock a statement was given may be behind; `passed` is the set of calls a
window let through. Property: `RateInv` (no
bucket lets more requests through in a window than its cap, and each request
that goes on, with or without a key, has been counted for its address first).
`RateAssumption` has `MaxLag <= KeepWindows`: it is the number of windows that
the sweep leaves which makes the property true.

**Uploader**: `Anchor`, `SetupFails`, `SendLands`, `SendFails`, `StoringEnds`,
`AnchoringEnds`, `FallBack`, `AnchorOnServer` are `anchorPayg` and the loops
over the sends; `Keep`, `Reload`, `LoseRecord` the record of
`lib/anchor/resume.ts`. Properties: `UploadInv` (chunks land before the file
anchor and storing before anchoring; an upload that ends has all sends on chain
and one hash of each, across attempts); `NothingPaidTwice` (what is known to
have landed is not sent again while no record is lost). `ResumeInv` has what the two
rest on.

**CachePayments** and **DonationEscrow**: one action per function of the
contracts; `Without` is the loop of `revokeAccess`, round by round; a donation is two
steps, `Donate` and `TreasuryReturns` or `TreasuryFails`, on a stack of calls. Properties:
`EntriesInv` (an entry is permanent exactly when it was bought so; the allow list
is what was granted and not revoked, through any calls and from lists with
doubles); `PaidTimeIsKept` (no payment takes an entry from its owner or shortens
its time); `DonationInv` (totals are what was forwarded, also while the treasury
runs and after any nested failure).

**Merkle**: `Levels`, `Root`, `ProofFor` and `VerifyMerkleInclusion` of
`packages/protocol/src/merkle.ts`, a hash being the tuple of what is hashed. A
loop is a function of the number of its rounds (`Levels`, `Places`, `Skip`), and
where the loop has ended a round changes nothing. Indices are below 2^31, where
the shifts of the code halve a number.
Property: `RootCommits` (the tree is that of RFC 6962, distinct lists have
distinct roots, and a proof is accepted exactly at its place: all lists up to
seven leaves, with every proof of the tree, cut short, or turned round).

**Verification** is an envelope, as a document that is built (`BuildEnvelope`),
given receipts (`AddSettlement`, `AddInclusion`), finalised (`Finalize`), signed
(`SignEnvelope`) and edited by anyone (`Edit`, which can put any signature its
owner has made anywhere, but make none), and the report that the verifier gives
of it. `VerifyEnvelope` has the groups of checks of `verifyEnvelope` that depend
on more than the form of the document: subject bytes, artifact signatures,
digest, envelope signatures, settlement receipts with their online check, and
inclusion receipts. A mode says whether it works offline, with a dead endpoint
or with a live one. A receipt of either list has the adapter it names (`Receipts`:
Merkle proof, anchoring transaction, stored copy, or none that is registered),
which alone decides what is checked (`CheckOffline`); nothing compares it with the
list. Properties: `SoundReports` (`ReportIsSound`: an attested report that is not
invalid rests on a signature over the subject or over the content as they are
now; a digest that passes was signed by someone exactly so; an inclusion that
passes and names a root has a confirmed transaction with it, and a Merkle proof
always names one; a dead endpoint makes nothing pass, and nothing fail but what
is no transaction hash) and `HonestPasses` (`HonestIsNeverInvalid`: a document
that only went through the packages' functions never fails, in any mode,
whatever has been mined; a transaction that a reorganisation mines again in
another block is left out, since it fails as a block mismatch). They are stated
in `Platform`, for the states in which this component moves.

## 4. Runs

Distinct states are those of TLC with two workers; a run takes up to four
minutes.

| Run | Instance | States | Shows |
|---|---|---|---|
| `DepositsRace` | 1 user, 2 intents of 1 or 2, 2 transactions exact for one amount each, one of which has 2 spellings, 1 tick, 2 requests | 791,068 | the two paths and the two requests on the same rows: `DepositsInv`, `CreditedOnce`, `OneHashOneDeposit`, `ConfirmedIsCovered`, `ConfirmedIsFinal`, `ImplementsPaidOnce` |
| `DepositsLive` | 1 intent, 1 transaction, 2 overlapping ticks, 1 request, windows of one block, 2 blocks, failing transactions | 44,499 | `PaidIsConfirmed`, `NothingOwedBehindCursor` |
| `DepositsMixedCase` | an address with an upper-case letter | violation | `PaidIsConfirmed` fails |
| `DepositsThrow` | failing transactions | violation | `NothingPaidBehindCursor` fails |
| `DepositsRespelled` | 2 intents, 1 transaction, 2 spellings of its hash, 2 requests | violation | `OneTransferOneDeposit` fails |
| `AnchorSends` | 1 account, 2 jobs, 3 chains of which 2 configured, costs 0 and 2, balance up to 3, failures | 492,476 | `JobsInv`, `NeverOverdrawn`, `AnswerIsSettled`, `ImplementsPrepaidOrder`, `RequestIsAnswered` |
| `WebhooksDrain` | 1 endpoint, whose secret may stop opening, 1 event, 2 overlapping ticks of which 1 is fair, 1 redeliver request, 3 attempts | 133,634 | `DrainInv`, `ImplementsRetryQueue`, `RowIsSettled` |
| `WebhooksSharedId` | 2 events of different types with one id | violation | `EveryEventHasItsRow` fails |
| `ExportsBuild` | 3 envelopes, 2 instants of the same millisecond, pages of 2, 1 job, 1 sweep | 265,952 | `ExportsInv`, `ReadyIsComplete`, `JobIsSwept` |
| `ExportsReread` | 2 envelopes | violation | `WrittenOnce` fails |
| `IndexerScan` | 2 transactions, one with 2 log indexes and one that cannot be stored, 3 blocks, windows of one block, 1 cron scan, 1 scan by hand, 1 ingestion | 394,524 | `IndexInv`, `NoHoleBehindCursor`, `FinalIsIndexed` |
| `Platform` | the ten components of section 3, below | 529,386 | their seventeen properties |

The instances within `Platform`:

| Component | Instance | States |
|---|---|---|
| Retention | 2 envelopes, one from an agent run and verified by 2 requests, windows of 1 and 2 days, 2 days, 2 sweeps of one row a batch, of which 1 is fair | 15,276 |
| Sealing | 2 signers of one project, 3 intakes of which 2 in flight and 1 may be the organisation's own, which finds no signer, a cap of 1 a month that is set and lifted, 2 months | 140,532 |
| Membership | 2 users, 1 project, 2 requests, 1 key at a time | 176,732 |
| Sign-in | 2 families, 2 addresses, 2 accounts of which one holds a wallet, 3 nonces, 2 requests | 55,030 |
| Rate limits | 1 address, 1 key, limits of 1, 2 calls, clocks up to 2 windows behind, 5 windows | 11,026 |
| Uploader | 2 chunks, 2 sends may land doubtfully | 62,843 |
| Cache payments | 1 entry, 2 payers, lists of up to 3 with doubles, durations 0, 1, 6 and 7 where the largest number is 7 | about 1,500 |
| Donations | 2 holders, 1 target, gifts of 1, 2 nested calls | about 16,000 |
| Trees | all lists of up to 7 of 2 leaves | 255 |
| Verification | 2 subjects, 1 root, 1 key, 5 transactions of which one has no hash, one a malformed one and one no online check, 6 forged receipts for each list, 3 changes of the document | 50,484 |

**Why the bounds are enough.** The races of the code are between two actors on
one row or one account: two requests, two ticks, or one of each are there.
`DepositsRace` has two intents and two transactions because taking a transfer
twice needs two intents, and choosing a wrong one needs two transactions; the
second spelling lets one transaction be in both intents. Two
blocks and windows of one block let a tick see some of the chain and a second
one overlap it, and let a reorganisation drop what is not final; the three
blocks of `IndexerScan` let the same transaction move to another block and to
another index after it was ingested, and the cursor be put back; the transaction
that cannot be stored may come before it, after it or beside it. One account
suffices for `AnchorJobs`: accounts share neither a lock nor ledger rows. Three
chains allow a partial broadcast between two configured ones and a missing
signer beside them. In `ExportsBuild` pages of two out of three envelopes make a
build read at least two pages, and two instants within a millisecond make both
ties and cut cursors occur. Two sweeps of one row a batch overlap and leave a
backlog; three intakes with two in flight pass a cap of one by as many as they
may, and a third comes after. Two users can each be the other's target, as
leads and as members. `MaxUint64 = 7` puts the end of the arithmetic within two
payments. Seven leaves have odd levels at every height that promotes a node
twice. Three changes of a document are a receipt, a signed finalisation and an
edit, or two edits of what was signed. The proofs remove the bounds of
the safety properties that section 6 lists.

**Deadlock** is checked in the deposit and indexer runs. The other components
really stop when every request, event and job is used up, and say
`CHECK_DEADLOCK FALSE`.

**Symmetry** is used only in `DepositsRace`, which has no liveness property,
over ids that are only compared.

## 5. Fairness

- `Deposits`: the cron fires again and again (weak fairness of
  `TickReadCursor`). An outage may abort a tick at any step but not at the same
  step of every later tick, hence strong fairness of the others, since
  aborting disables them. A request that is not aborted goes on (weak). Users,
  blocks, finality and failures are under no fairness: a confirm transaction may
  throw every time, and `PaidIsConfirmed` says so.
- `AnchorJobs`: weak fairness of `Proceed(j)`: statements answer, RPC
  transports time out. Failures and deaths are possible (`MayFail = TRUE`); as
  nothing resumes a request that has died, the property lets it end so, but not
  the requests that wait for the lock it held.
- `Webhooks`: time passes (weak fairness of `LeaseExpires`, `BackoffEnds`); the
  drain cron fires every minute, and a crash does not hit the same step of
  every later dispatch (strong fairness of `Claim`, `ReadRow`, `Answer`,
  `Record` for the ticks in `Crons`, since a crash disables them). All other
  ticks and redeliver requests may stop anywhere, and functions have a time
  limit, so one that stopped is over at some time (weak fairness of `Crash`).
  Nothing makes a key come back or an owner rotate a secret.
- `Exports`: a day passes (weak fairness of `Expire`), and the daily sweep does
  not fail at the same step for ever (strong). A build is under no fairness: it
  is a microtask of a request and nothing restarts it.
- `Indexer`: the daily cron begins a scan again and again (weak fairness of
  `ReadCursor` for the scans in `Crons`), and an RPC outage does not hit the same
  step of every later one (strong fairness of the others). `InsertBatch` is only
  enabled for a batch that the table takes, so nothing is assumed of one that it
  refuses. Scans by hand, ingestions and the chain are under no fairness.
- `Retention`: the daily sweep goes on (weak fairness of `Sweep` for
  `SweepCrons`) and does not die before the delete of every batch (strong
  fairness of `DeleteSelected`). The other sweep is under none.

## 6. Proofs

All theorems are proved by TLAPS (SMT, Zenon, and LS4 for the temporal steps)
from the named assumptions of the modules, which type the constants and say
what the code is given: `DepositsAssumption`, `AnchorJobsAssumption`,
`WebhooksAssumption`, `ExportsAssumption`, `IndexerAssumption`,
`RetentionAssumption`, `SealingAssumption` (intakes are finitely many, since a
quota counts them), `FoundersAssumption`, `SignInAssumption` (the wallets at the
start satisfy the unique indexes), `RateAssumption` (`MaxLag <= KeepWindows`),
`UploaderAssumption`, `CacheAssumption`, `DonationAssumption`,
`MerkleAssumption`, `VerificationAssumption` (the types of what is under a root
and in a transaction, which the documents' authors cannot change). Sets of
users, rows, ticks, requests and transactions may be of any size, most of them
infinite too. TLC evaluates every assumption on its instance, and what it runs is
the specification of the theorems; of the components of `Platform` it runs the
product, which implies the specification of each (`Composition`).

Modules: a proof module is named after its component; `ServiceProofs` has the
components of `Platform` that are rows of the server, `VerifierProofs` the
protocol and its verifier, `PlatformProofs` the rest and the product.

| Theorem | Statement | Argument |
|---|---|---|
| `DepositsProofs!Safety` | `Spec => []DepositsInv` | inductive, below |
| `CreditedAtMostOnce`, `HashUsedOnce`, `ConfirmedCovered` | `[]CreditedOnce`, `[]OneHashOneDeposit`, `[]ConfirmedIsCovered` | conjuncts of `DepositsInv` |
| `ConfirmedStays` | `Spec => ConfirmedIsFinal` | an action property, under `DepositsInv` |
| `CursorSafe` | `[]NothingOwedBehindCursor`, with failing transactions and addresses of any spelling | `CursorInv` is inductive, below |
| `DepositsProofs!Refinement` | `Spec => ImplementsPaidOnce` | step simulation under `DepositsInv` |
| `AnchorJobsProofs!Safety` | `Spec => []JobsInv` | inductive, below |
| `NoOverdraft`, `AnswersSettled`, `NothingSentUnconfigured` | `[]NeverOverdrawn`, `[]AnswerIsSettled`, `[]MissingSignerSendsNothing` | from `JobsInv` |
| `AnchorJobsProofs!Refinement` | `Spec => ImplementsPrepaidOrder` | step simulation under `JobsInv` |
| `WebhooksProofs!TypeCorrect` | `Spec => []TypeOK` | inductive by itself |
| `DrainSafety`, `TicksExclude` | `[]DrainInv`, `[]OneTickPerRow` | inductive, with redeliver requests |
| `WebhooksProofs!Refinement` | `Spec => ImplementsRetryQueue` | step simulation under `DrainInv`, with redeliver requests |
| `ExportsProofs!Safety`, `ReadyComplete` | `[]ExportsInv`, `[]ReadyIsComplete` | inductive, below; a conjunct |
| `RereadsAreClose` | a build reads again only what was created in the millisecond of its cursor | what is copied is at most a millisecond ahead of the cursor |
| `IndexSafety` | `Spec => []IndexInv` | inductive, below |
| `NoHole`, `ScannedFinal` | `[]NoHoleBehindCursor`, `[]ScannedRowsAreFinal` | from `IndexInv` |
| `RetentionSafety`, `RunsAreWhole` | `[]RetentionInv`, an agent run has its envelope | inductive, below; a conjunct |
| `CountsAgree` | `RetentionSpec => []VerifiedIsCounted` | from `CountsInv` |
| `StoreRefinement` | `RetentionSpec => ImplementsRetainedStore` | step simulation under `RetentionInv` |
| `SealingSafety`, `SignedAsAsked` | `[]SealingInv`, an envelope has the signature it asked for | inductive, below; a conjunct |
| `QuotaBound` | `[]QuotaOvershoot` | from a bound on intakes in flight |
| `MembershipSafety` | `MembershipSpec => []MembershipInv` | inductive, below |
| `SignInSafety` | `SignInSpec => []SignInInv` | inductive, below |
| `RatesHold` | `RateSpec => []RateInv` | inductive, below |
| `UploadsResume`, `UploadSafety`, `PaidOnceOnly` | `[]ResumeInv`, `[]UploadInv`, `[]NothingPaidTwice` | inductive, below; conjuncts |
| `PermanentOnlyIfPaid` | an entry is permanent exactly when it was bought so | from `ExpiryInv` |
| `TimeIsKept` | `CacheSpec => PaidTimeIsKept` | an action property, under `ExpiryInv` |
| `EntriesSafety` | `CacheSpec => []EntriesInv` | what the loop over a list leaves, below |
| `Totals` | `DonationSpec => []DonationInv` | induction over the stack of calls |
| `DistinctRoots` | no two lists have the same root, whatever their lengths | from the root down, below |
| `ExactProofs` | whatever list of values is shown as a proof, it is accepted for a leaf and an index of a tree exactly if it is their proof | induction over the levels and the rounds of the loop, below |
| `RootIsThatOfReference` | `Root(s) = Reference(s)` for every list | induction over the levels, below |
| `RootsCommit` | `MerkleSpec => []RootCommits` | from the three |
| `ReportsAreSound` | `VerificationSpec => []ReportIsSound` | a case for each group of checks, under the types |
| `HonestDocumentsPass` | `VerificationSpec => []HonestIsNeverInvalid` | `HonestInv` is inductive, below |
| `Composition` | `PlatformSpec` implies the specification of each of its ten components | every step moves one and leaves the others alone |
| `SoundInPlatform`, `HonestInPlatform` | `PlatformSpec => []SoundReports`, `[]HonestPasses` | by `Composition` |

Why the invariants need their strengthening:

- **Deposits.** `CreditedOnce` alone is not inductive: nothing in it keeps two
  requests from both being about to credit the same deposit. `DepositsInv` adds
  that a row that is not confirmed has neither a transaction nor a credit, that
  a request about to write has verified a covering transfer of an existing row,
  and that at most one request is about to credit a confirmed, uncredited row.
  The guarded `UPDATE` establishes the last one; owner and amount of a row never
  change, which carries `Covers` from the check to the write.
- **The cursor of Deposits.** It is right to move to the end of a window because
  of what the tick knows: `WindowInv` says that nothing owed is below its window,
  and that what is owed in it is among the logs it still holds, at an address it
  looks for. Owed is an exact payment that is final and younger than the intent,
  at an address the watcher sees, and that no transaction which threw was about.
  So an intent opened while a tick runs is owed nothing in a window that was read
  already, and a log that pays is dropped only once its transaction is used or
  has thrown. Nothing weaker than those two exceptions holds: see the runs
  `DepositsThrow` and `DepositsMixedCase`.
- **AnchorJobs.** `PointInv` says what each point of the handler knows of its
  job; `LockInv` is the heart of `NeverOverdrawn`: the request with the lock has
  seen a balance that only deposits and refunds have changed since, so what it
  has seen is at most the balance. The proof has one lemma per group of actions
  and one, `OthersKeep`, for what a step leaves to all other jobs.
- **Webhooks.** `LeaseInv` ties a dispatch to its row: while a tick holds a row
  that was not redelivered, the row is leased and therefore not due, so no
  other tick claims it and the attempts that were read are still those of the
  row. `Quiet` keeps the lease from running out under it. `RequestInv` says that
  only a row that its owner asked for again is in the hands of a request.
- **Exports.** `BuildInv` says that what a paging build owes is copied or still
  ahead of its cursor. A page takes the smallest rows, so what it leaves is
  after its last row; the cursor is that row's position rounded down
  (`CursorCovers`), so it is after the cursor too. A row sealed later is
  nothing the build owes, and a retired one no longer is.
- **Indexer.** `NoHoleBehindCursor` alone does not survive the write of a cursor:
  the write is right because of what the scan has read and inserted. The
  invariant adds, for every point of a scan, that its window ends at a final
  block, that it starts where the table has no hole, that the logs it holds are
  all those of the window, and that after the insert they are in the table.
  Final blocks never change, which keeps this true while the chain, other scans
  and ingestions move; a scan that puts the cursor back to its own, older
  window leaves a smaller claim.
- **Retention.** A sweep deletes by id, so `SelectedInv` says that whatever a
  sweep holds has expired and, once it announces, is gone; the expiry of a
  stored row never changes. `AnnouncedIsGone` follows, as no id returns.
- **Sealing.** `SignInv` says that the key an intake holds is of the scope it
  asked for and was not revoked when it began. One active signer per scope is
  what the partial unique index refuses to break. The quota's bound counts, for each
  project, the rows of the month and the intakes that have passed the check and
  not inserted yet; `FlightInv` bounds the latter. A cap that is set changes
  neither, and only an intake below it adds to them.
- **Membership.** A write relies on a role that was read one step before, so the
  invariant says of a request under way what no other request can undo (who the
  owner is never changes) and leaves the rest to the foreign keys in the write.
- **Sign-in.** Two requests could otherwise link the same wallet with the same
  proof: `ProofInv` adds that a request under way holds a used nonce that proves
  no link yet, that the rows its transaction replaces are its own account's, and
  that every holder of the wallet since is in its history.
- **Verifications.** A count is read in one step and written in another.
  `CountsInv` adds that what was read is of verifications that have been written,
  so that the count is never ahead, and a write is never of zero.
- **Rate limits.** A window that has been swept begins again at zero, so the cap
  holds only because no request counts in it any more: `RateInv` adds that a
  window not behind the cutoff has counted what it let through, and that a
  request under way holds a minute that is not. This is where `MaxLag <=
  KeepWindows` is used.
- **Uploader.** "Not paid twice" is about two passes, one of which may be dead.
  `ResumeInv` says that the record and the running pass have the hashes of
  exactly the sends behind them (`RecordInv`, `PassInv`), and that what is known
  to have landed lies before the place where the next pass begins
  (`ProgressInv`).
- **Allow lists.** The loop of `revokeAccess` removes while it goes through the
  list. Its invariant is that the places it has passed are free of the grantee
  and that everyone else is still in the list; each round passes a place or
  shortens the list, so as many rounds as elements are enough.
- **Verifier.** `ReportIsSound` needs no more than types: it is about any
  document, whatever was edited. `HonestIsNeverInvalid` needs `HonestInv`: what the
  functions of the packages leave in a document is what the verifier asks for,
  and nothing that is mined later takes it back.
- **Trees.** Every node of level `k` has a left edge of exactly `k` pairs, except
  the last of the level, whose edge may be shorter (`Shaped`). So a level is
  determined by the one above it: a node that was promoted and one that was
  hashed differ in the length of their edges. `DistinctRoots` goes down with
  that from the root. `ExactProofs` follows the loop: after each sibling, `fn` and
  `sn` are the indices of the node above the leaf at some level and of the last
  node there, or of a node below, from which on the path is promoted, that the
  next sibling will skip up from (`Behind`). `RootIsThatOfReference` says of each
  node which part of the list it covers and that it is the reference of that
  part (`Covers`): full parts have a power of two of leaves, and only the last
  node of a level has fewer.

**Recursion.** The theorems of the library on recursive functions and on
induction take an operator, which these provers cannot instantiate.
`VerifierProofs` derives what it needs for sets and functions instead: a set of
numbers has a least one (`LeastNat`, from the well-founded order on finite sets),
so a set with 0 and every successor is `Nat` (`NatSets`), and steps of a set into
itself can be iterated (`Iteration`). A recursive definition denotes a function
because one that satisfies its equation is built in this way first; `Levels`,
`Places`, `ProofFor`, `Skip`, the verification loop, the powers of two, the
reference and the loop of the allow lists all go through it. An induction is a
set of numbers to which `NatSets` is applied.

**Only model-checked.** Liveness (`PaidIsConfirmed`, `RequestIsAnswered`,
`RowIsSettled`, `JobIsSwept`, `FinalIsIndexed`, `ExpiredIsDeleted`): fairness and
`ENABLED` are beyond TLAPS here.

## 7. Where the code and its comments differ

With a run:

- The watcher never matches an address with an upper-case letter: rows hold the
  checksummed spelling, the watcher compares in lower case
  (`lib/server/deposits.ts:88,210-211`; run `DepositsMixedCase`).
- A log whose transaction threw is not retried: the cursor passes it
  (`deposits.ts:225` says it is; run `DepositsThrow`).
- A confirm request may spell its hash in any letter case, and the claimed check
  and the unique index compare text, so the transaction that confirmed a deposit
  confirms another one respelled (`confirm/route.ts:116,129,159`, `schema.ts:225`;
  `confirm/route.ts:123` says that one transaction confirms one deposit; run
  `DepositsRespelled`).
- Events of different types about one envelope share the delivery key, so the
  second has no row (`webhooks.ts:136,182`; run `WebhooksSharedId`).
- The cursor of a build is cut to milliseconds, so the last row of a page is
  read again. With a non-zero microsecond part there is always such a row, no
  page is empty and the build does not end (`exports.ts:124,156`; run
  `ExportsReread`; theorem `RereadsAreClose` for how far it goes).

Modelled, or seen while modelling, without a run:

- The document of a compliance report is not an evidence envelope (no
  `protocol`, `version`, `signatures` or `receipts`, a subject type that does not
  exist, a claims key with a slash), so generating one always throws, and the
  monthly batch ends at its first organisation (`compliance.ts:331`;
  `docs/deploy/cloud.md:101` promises a report for every organisation).
- One event whose payload `jsonb` refuses (a NUL character passes
  `utils/anchor.ts:157-165`), or a window with more rows than a statement has
  parameters for, fails the one `INSERT` of its window on every tick
  (`scan.ts:130-149`). The cursor stays there, and nothing after it is indexed,
  though `scan.ts:15` says that it advances on every tick.
- The secret of an endpoint that no longer opens makes the dispatch throw before
  any count (`webhooks.ts:365`): the row is leased again every minute, never
  posted and never given up.
- The verifier takes the adapter of a receipt by its id alone
  (`envelope-verify.ts:320`). An inclusion receipt that names the storage adapter
  and holds what is there for evidence only passes, offline and with nothing
  anchored (`adapters-builtin.ts:180`, `envelope-verify.ts:373`): it proves no
  inclusion, but is reported among the checks of inclusions.
- A malformed transaction hash is unknown offline and fails online before the
  endpoint is asked (`evm-anchor.ts:74-80`), so with a dead one too.
- A confirm request that ends after its `UPDATE` leaves a confirmed deposit that
  nothing credits (`confirm/route.ts:176`; `CreditedOnce` says "at most").
- The watcher asks for the exact amount, the request for at least the amount:
  an overpaid deposit waits for its owner (`deposits.ts:76,89`).
- With no pending address the cursor stays, though `deposits.ts:235` says that
  it advances.
- A job that fails and whose request ends before the refund keeps its debit;
  so does one whose debit committed and then threw
  (`anchor-service.ts:231,261-272`).
- A redelivery resets the lease of a tick that holds the row, posts rows that
  are delivered, and lets an attempt go uncounted (`webhooks.ts:329,418`). The
  index into the backoff table is one too high (`webhooks.ts:60`). Due rows of
  a disabled endpoint are still claimed. A fan-out that fails is swallowed
  (`webhooks.ts:185`).
- An export lives 24 hours from its creation, not from its completion
  (`exports.ts:39,190`); no route returns its download token. A build that ends
  after its job was swept leaves a file without a row (`exports.ts:289`).
- A transaction that was ingested on demand and is then mined again under
  another log index is stored twice: the index of a row is part of its key
  (`ingest.ts:17,131`). Two overlapping scans may put the cursor back
  (`scan.ts:154`); nothing is lost by it.
- The daily window of 9,999 blocks is below the daily blocks of the fastest
  chain (`scan-window.ts:10`), and a scan without a cursor starts at block 0.
- The retention sweep is described as one transaction and is several
  statements (`retention.ts:69,95`); a resubmitted agent run does not meet the
  index that should answer 409 (`agent-runs.ts:90`). The `retentionDays` of a
  project (`schema.ts:693-695`) is never read by an intake.
- A project or organisation with a key that an envelope or a job names cannot be
  deleted: the foreign keys of those tables have no cascade
  (`drizzle/0009*.sql:126-131`, `projects.ts:280,408`).
- Removing a member of an organisation leaves its project memberships and keys
  in place (`organizations.ts:276`; `projects.ts:83-85` says that a project
  member is a member of the organisation).
- `projects.ts:394-396` says that the owner of an organisation is implicitly a
  lead of its projects, and can come back after the last lead was removed. The
  code asks for a row of `project_member` (`projects.ts:86-101`), so such a project
  stays without anyone who can change it.
- Unlinking the only wallet of an account leaves nothing to sign in with
  (`api/wallets/[family]/route.ts` has no check).
- The rate-limit sweep keeps two windows, its comment names another age
  (`rate-limit-sweep.ts:9`); a clock that is further behind would start a window
  anew.
- The uploader forgets a storing pass that has ended when the anchoring pass
  fails before its first send (`useFileUploader.ts:607`), and the bytes are
  paid for again.
- `verifyEnvelope` never answers `valid` for a signed document: the status of a
  key is always unknown, which is a warning. `signEnvelope` and the hosted
  signer sign the digest that the document states, without computing it again
  (`packages/sdk/src/evidence.ts:227`, `lib/server/evidence.ts:190-203`), so a
  document that was changed after its digest was stamped is signed and verifies
  as `invalid`. The leaf that an inclusion receipt names need not be the subject
  (`packages/protocol/src/adapters.ts:84`).
- `ensureOrgSla` inserts without `ON CONFLICT`, so two concurrent first uses make
  one of them fail (`compliance.ts:53`).

## 8. Plan, and what is not modelled

Done, in this order: `Deposits`, `AnchorJobs`, `Webhooks`, `Exports`, because
money comes first, then promises to third parties, then stored artefacts; then
`Indexer`, `Retention`, `Sealing`, `Membership`, `RateLimit`, the contracts, the
uploader and the trees; then redelivery in the theorems of `Webhooks` and
killed requests in the liveness of `AnchorJobs`; then `SignIn` and
`Verification`; last the proofs of rate limits, the uploader, the allow lists, the
verifier and the trees, and that a component's properties hold in the product.

Still worth doing:

1. `Ledger`: `Deposits` and `AnchorJobs` over one balance, so that
   `NeverOverdrawn` is stated of deposits that were really confirmed.
2. A refinement of `Exports` to a copy made in one step, and its proof.
3. `Compliance`, once a report can be generated: the batch over organisations of
   which one throws, and two first uses of an SLA row.

Not modelled, and why:

- The file registry of each chain is one map from a hash to its first record;
  calls do not interact, and the records are the events that `Indexer` reads.
- The chain SDKs and hosted signers wrap third-party clients. What they mean to
  the system is the outcome of a send, which `SendEnds` leaves open.
- Canonical JSON, hashes and signature schemes are encodings; they have test
  vectors. The models take a digest to be the content and a signature to be its
  key and what it signs.
- Readers of contracts, costs, preferences, BYOK keys and recommendations read
  or write a single row and decide nothing on what they have read before.
- Pages, blog, explorer queries, CLI and MCP server are presentation. Together
  with tables of chains, ABIs, generated types and documentation pages
  they are most of the repository's lines: what changes shared state is a small
  part of it, which is why the models stand for a small share of all lines.

## 9. Running

    tlc -workers 2 -config DepositsRace.cfg MCDeposits
    tlapm DepositsProofs.tla

A run is named after its `.cfg`; `PROJECT.json` lists module, configuration and
properties of each, the source lines of every definition, and the hazards with
the properties that cover them.
