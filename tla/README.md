# Normic: a TLA+ verification project

Normic lets software agents run companies that sell services to each other, be
paid in USDG through an escrow contract on Robinhood Chain, and trade stock
tokens under their owner's mandate.  This directory holds TLA+ models of the
parts of that system in which a wrong interleaving, a crash or a boundary would
move money, authority or records wrongly, the TLC configurations that check
them, and TLAPS proofs of the most important theorems.  `PROJECT.json` maps
every definition to the lines of the source it stands for.

## 1. Inventory

State, operations and correctness of each part; paths are relative to the
repository.

| Part | Module | State | Operations | What makes it correct |
|---|---|---|---|---|
| Escrow contract (`packages/contracts/src/NormicServiceEscrow.sol`) | `Escrow` | one `Invocation` per id, session spending policy per root, `totalObligations`, pause flag, roles | fund, fundWithSession, accept, submitResult, acceptResult, releaseAfterWindow, refund, dispute, resolveDispute, configureSpending, pause, unpause | solvent; one settlement per payment, to the right party; review period granted in full; session budget; pause traps nobody |
| Projection and indexer (`packages/core/src/finance.ts` ingest, confirm, reconcile; trigger in migration 0006) | `Projection` | `paid_invocations` rows, `escrow_events`, journals, checkpoint | the indexer's batch transaction, one-receipt confirmations, startJob, submitResult | rests on finality; books agree with states; concurrent work is not lost; the indexer makes progress |
| Payment operations (`finance.ts` updatePolicy … reconcileOperation) | `Operations` | policy, session, session authorizations, `payment_operations`, idempotency records | updatePolicy, prepareSessionAuthorization, registerSession, revokeSession, prepare, execute, reconcileOperation | at most one submission per action; only under the authority it was prepared with; an action is repeated only after a reported failure; limits hold |
| Financial root, passkeys, wallet sign-in (`finance.ts` 408–1267) | `FinancialRoot` | root binding, challenges, credentials, wallet, human sessions | prepare, begin and complete registration, provision, recovery, walletChallenge, authenticateWallet | a challenge is used once; root and wallet belong together; recovery is authorised by the root |
| Free jobs and idempotency (`packages/core/src/economy.ts`) | `Jobs` | `services`, `service_invocations`, `service_jobs`, `service_results`, `idempotency_records` | create, update, request, accept, start, submit, fail, cancel | both rows in step; an effect once per key with one answer; the agreement is the current offer |
| Identity and credentials (`economy.ts`, `auth.ts`, migrations 0009–0011) | `Identity` | users, agents, credentials, OAuth grants, onboarding records | bootstrap, connect, register, create, rotate, revoke, token hook | a connection leads to its owner's agent; a credential has one successor |
| Trading (`packages/core/src/trading.ts`) | `Trading` | policy, session, eligibility, quotes, trades, lots, journals | refreshEligibility, updatePolicy, registerSession, revokeSession, quote, execute, reconcile | a quote trades once; what is booked was quoted, and the books add up; approved under a policy that allows it |
| Autonomy (`packages/core/src/autonomy.ts`) | `Autonomy` | mandates, heartbeats, plans, approvals, reservations | updateMandate, pause, heartbeat, submit, decide, execute | the exact approved action, under the mandate it was submitted under, within the capital |
| Market cache (`packages/markets/src/index.ts`) | `MarketData` | cache, in-flight requests, backoff, pacing | cached, refresh, getStockPrice | old answers are marked; everybody is answered; upstream is asked politely |
| Deployment scripts (`packages/contracts/scripts`) | `Deployment` | attempt markers, the deployer's nonce | deploy, reconcile attempts | nothing sent is forgotten; nothing is sent again blindly |
| MCP/REST server, serverless twin, web API (`apps/mcp/src`, `apps/web/src/app/api`) | `Server` | rate limit windows, audit events, the processes | start, rate limit, authenticate, dispatch, audit, shut down | the limit holds for all processes; every request is answered |
| Session custodian, SDK, chain registry, pages, status report | – | none between calls | requests, validation, rendering | – |

The parts meet as follows.  Agents and owners call the services through MCP or
REST (`Server`), with a credential or an OAuth token (`Identity`).  A service
changes the database inside PostgreSQL transactions, most of which take the
company's row lock and record an idempotency key (`Jobs` has both in full),
then talks to the wallet provider, which submits calls to the escrow.  The
escrow's events come back through the finalized blocks the indexer reads (or a
party confirms) and are the only thing that changes payment states and journals
(`Escrow`, `Projection`).  Payments and trades are sent under a policy and a
session that the owner, through the company's root, may replace at any time
(`FinancialRoot`, `Operations`, `Trading`).  Autonomy drives jobs, payments and
trades with one idempotency key per plan.  `Trading` uses the prices whose age
`MarketData` is about only to refuse; it leaves the refusal open.

The hard behaviours are: external calls in the middle of or between
transactions (the wallet provider, the RPC node), crashes and retries around
them, rows that are read, kept across such a call and written back whole, reads
made before a lock and used under it, receipts that arrive out of order,
reorganisations of unfinalized blocks, deadlines decided to the second, and
budgets reserved by one step and consumed by another.  `PROJECT.json` lists the
hazards line by line.

## 2. Modules

`EscrowLifecycle` – the abstract specification: the graph of payment states the
database's trigger enforces, one settlement at most.

`Escrow` – the contract.  One action per external function (`Fund`,
`FundWithSession`, `Accept`, `SubmitResult`, `AcceptResult`,
`ReleaseAfterWindow`, `Refund`, `Dispute`, `ResolveDispute`,
`ConfigureSpending`, `Pause`, `Unpause`), guards in the order of the
`require`s, plus the environment: `Tick` (block time), `Donate` and a fee the
token may keep, `GrantResolver` / `RevokeResolver`.  Integers are bounded by
`MaxUint64` where the contract computes `reviewBy` in checked arithmetic: the
call reverts instead of wrapping.  `Lifecycle == INSTANCE EscrowLifecycle`
states the refinement.  Signature checks, event payloads and access control
over token approvals are abstracted.

`Projection` – rows of known payments, the chain's log with its finalized
prefix, the indexer's open transaction.  `Emit`, `Finalize`, `Reorg` are the
chain; `FetchReceipt`, then `Confirm` or `GiveUp`, is confirm and the last step
of reconcileOperation: the receipt is fetched first, finality and the block's
hash are looked at later, and the comparison of the hashes is that the log still
holds the receipt at its place;
`BeginReconcile`, `IndexReceipt`, `IndexUnattributed`, `IndexRaises`, `Crash`,
`Commit` are the steps of one reconcile, whose writes become visible only at
`Commit`; rows the transaction has touched are locked until then.  `StartJob`
and `SubmitResult` are the provider's concurrent work.  Rows of a transaction
jump several arcs of the lifecycle when it commits, so `EscrowLifecycle` is
used for what the log may contain, not as a refinement of the rows.

`Operations` – the owner's policy and session, the operations, and execute as
the chain of steps it is: `BeginExecute` (unlocked read), `Mark` (first
transaction), `Authorize` and `Broadcast` (inside the second one, holding the
company's lock), `Record`, or `Throw` and `Catch`; `Crash` at any point.  Each
execution carries the copy of the operation it read and writes that copy back.
An ingest reads the event and, without a lock, the operation (`ReadEvent`), and
writes both back when its transaction commits (`Ingest`) or rolls back
(`RollBack`).  `ProviderReportsFailed` is an answer of the provider, whatever
becomes of the call, and `ReconcileFailed` gives the operation up because of it.
Whether the network includes what was submitted is left open: events and answers
come either way.  One company; its payments may have several operations.

`FinancialRoot` – companies of one owner, their roots, wallets, passkeys and
challenges, and the challenges of human wallets.  A mutation that verifies a
passkey or asks the wallet's provider takes two steps, `VerifyRegistration`,
`VerifyAssertion`, `ProvisionWebAuthnAccount` or `ConsumeChallenge` under the
row lock, then the commit (`CompletePasskeyRegistration`,
`AuthorizeRecoveryRegistration`, `ProvisionFinancialWallet`,
`AuthenticateWallet`) or `Rollback`.  Between companies only the unique indexes
of migrations 0013 and 0014 decide, in the commit.

`Jobs` – services, and jobs as the two rows they are.  A call is `Call`,
`ClaimIdempotency` (the insertion of its key, which another open transaction
with that key holds up), what it reads and locks (`LockService`,
`RequireProviderJob`, `ReadInvocation`, `LockJobForCancel`), and the operation,
which commits everything; or `Replay`, `Refuse`, `Rollback`.

`Identity` – verified owners, their agents, credentials and OAuth grants.
Onboarding calls are `BootstrapBegin` or `ConnectBegin`, then `ConnectChoose`
and the commit; other calls authenticate first (`Authenticate`,
`AuthenticateToken`, `HasDynamicOAuthGrant`) and may find their credential
revoked since.  `RotateBegin` takes the company's lock and then reads the
credential, as `rotateCredential` does; a revocation takes no lock and may come
between the two steps of a rotation.  `created_at` is the order of insertion.
`MintToken` is the token hook of migration 0011.

`Trading` – one company, one stock token.  The owner's operations and
`PrepareTrade` are transactions; a quote reads its controls before its lock
(`ReadControls`, then `Quote` or `RefuseQuote`).  Execution past the approval
is step by step: `Simulate`, `RevalidateBeforeBroadcast`, `SavePending`,
`Broadcast` or `BroadcastFails`, `SaveCall` or `SaveUnknown`,
`CompleteExecution`, with `CrashExecution` anywhere.  `Land` and `Revert` are
the chain, `Transfer` is anything else that moves the wallet's balances in a
block: an escrow's payout, a payment, a gift.  A block takes trades and
transfers in any order until a trade in it has been settled (`Open`): it is final
by then.  A reconciliation reads the trade (`ClaimReconciliation`) and later
saves what it found (`SaveReverted`, `Settle`, `AlreadySettled`).  `ActualIn` and
`ActualOut` are the changes of the balances over the whole block, which all of
its trades and transfers share.  Lots are taken by block and, within one, by
their ids (`LotId`).

`Autonomy` – the agent's action plans under the owner's mandate.  A call is
the chain of steps of `submitActionPlan` (`SubmitBegin` reads the day's
spending under the company's lock, then `SubmitBlocked`, `SubmitPending` or
`SubmitReserved` reads the reservations and decides) or of `decideActionPlan`
(`ApproveBegin`, then `Approve` or `ApproveDenied`; `Reject`, `DecideExpired`),
followed by `executePrepared` without that lock: `CheckMandate` (the mandate's
read), `CheckSpending` (after the awaited inspection), `Send`, `RecordExecuted`
(with the time taken before its transaction) or `RecordFailed`, with `Throw`, `RecordRefused` and
`FailureRefused` for what fails.  `Resubmit` and `Reapprove` are the replays of
the same request while its plan executes, `Crash` ends a call anywhere.
`UpdateMandate`, `PauseAutonomy` and `Heartbeat` are the controls.  Every plan
is a purchase; the payment service downstream acts once per idempotency key,
which is what `Operations` is about.

`MarketData` – the cache of one process.  Time is kept as ages.  `Read` asks
for the keys a reader needs, `Start`, `Respond`, `RateLimited` and `Fail` are
the shared request of a key, `Tick` is the clock and the timers that are due.
Timers are punctual: a `setTimeout` that fires late is not modelled.

`Deployment` – runs of `deploy.mjs`.  `ReadNonce`, `ReadMarkers`, `Reconcile`,
`WriteMarker`, `Send` or `SendFails` or `SigningFails`, `SaveHash`, `Verify`
are one run; `Stop` and `Tear` interrupt it anywhere, the latter in the middle
of writing its marker.  `Arrive`, `Lose` and `Mine` are the network; the
deployer's account sends nothing else.

`Server` – three processes over one database.  `StartServer`, `StartOnRequest`,
`CloseDatabase`, `StopListening` and `Exit` are the processes; a request is
`Receive`, `ConsumeRateLimit` (one upsert, with a time read before),
`ServePublic` or `AuthenticateAgent`, `AuthenticateOnWeb`, `VerifyOwner`, then
one of the `Run…` actions and, for a refusal, `RecordAuthorizationDenied`.
`Fail` is a database call that fails.  A second signal is not modelled.  What a
command does is the other
modules' subject; here it has one of the outcomes `publicError` tells apart.

`*MC` modules give small instances; `*Proofs` modules hold theorems, each of
the component it is named for and, at its end, of one that stands next to it:
`EscrowProofs` of the contract's `Deployment`, `ProjectionProofs` of `Identity`
(the rows of the parties), `OperationsProofs` of `Server` (the requests that
ask for operations), `TradingProofs` of `MarketData` (the prices it trades at).
The two halves of such a module share no variable.  `Sums` holds the lemmas
about sums of amounts that four of them need.  In each component module some operators are marked `Mutant:`, or stand before a
definition under a name that says what they leave out; they are variants of
that definition with a plausible bug and are used only to show that a property
can fail.

## 3. Runs

| Run | Instance | Shows |
|---|---|---|
| escrow | three payments: two that overlap in time and budget, one of them with a review period that overflows, and one whose provider is its buyer; two session policies, days of two seconds, times up to 5, a token that may keep a fee, a donation, pauses, a resolver that may lose its role | solvent, exact entitlements, full review period, undisputed submissions are final, a day's session payments within the limit in force, every payment settles, the contract implements the lifecycle |
| projection | two known payments (one bought by a human) and one of another platform, a log of 4, batches of 2, a receipt fetched and confirmed later, reorganisations, crashes, foreign results | rows rest on finality, books match states, settlement needs the stored result, concurrent work is not lost, the indexer catches up while nothing stops the batch |
| operations_broadcast | two payments of 1 and 2 units under limits of 1 or 2, two operations, two executions, two policy versions, two days, ingest transactions that stay open, failures reported early or wrongly | one submission per operation and per reported failure of an action, under its own policy, a day's fundings within a limit |
| root_passkeys | two companies, three passkeys, two calls, six challenges, one sign-in | wallet, root and passkeys belong together, a challenge serves once, recovery is authorised |
| jobs_requests | one service, two jobs, three calls, eleven requests with repeated and reused keys | rows agree, once per key with one answer, the agreement is the current offer |
| identity_connections | two owners with one address, two calls, two onboarding keys, two agents, three credentials | a connection leads to its owner's own agent, one successor per rotation |
| trading_execution | two quotes (purchase, sale), two reconciliation keys, two policies, two sessions | one broadcast, approved under a policy that allows it, one answer per key |
| trading_books | the same quotes and keys under one policy, two blocks, a payout of 3 in each or none | what is booked was quoted, is what happened if the trade had its block for itself, and agrees with lots and entries |
| autonomy_plans | two plans of 2 units on a capital of 3, two calls, supervised and autonomous mandates that are replaced or paused, repeated submissions and approvals, lost answers | a plan's records agree, reservations stay within the capital, approvals are covered with what was executed that day, superseded plans rest |
| market_data | two readers, one symbol, a cache of one entry, ages up to 9 | old answers are marked, requests keep their distance, every reader is answered |
| deployment_runs | four runs, two contracts | every deployment is recorded, none is repeated blindly |
| server_requests | two requests of six kinds, three environments, a limit of 1 per window of 2 | the rate limit holds, every request is answered |

Bounds.  Times in the escrow run to a handful of seconds, which is enough to
put every deadline before, at and after another.  Two ordinary payments are the
least that can confuse whose money is whose; more add nothing, because an
action touches one payment and the shared totals.  `MaxUint64` is 9, above
every time the clock reaches, so that only a review period can overflow.  In
the projection four receipts reach the end of one payment's life (funded,
accepted, submitted, settled) or interleave two, and are two batches; a dispute
that is also settled is beyond it.  A batch of two is the least that can fail in
its middle.  In the operations two executions are the least that can race; a
second policy version is the least that can differ from the one prepared under;
a second operation of one payment can appear only after the first was given up,
and two payments share the day's limit.
Two companies, calls, owners with one address, quotes and reconciliations are
the least that can meet in `FinancialRoot`, `Identity` and `Trading`; six
challenges let both companies enrol, or one enrol and recover; `Jobs` takes
three calls, so that one may wait for the key or the row of another while a
third acts.  Two blocks hold a purchase before a sale, or both together; a
payout as large as a purchase's price can hide it.  Three trades in a block, and
lots of one block in the order of their ids, are beyond the run; the theorem
covers them.  In the autonomy run two plans of two units on a capital of three
are the least that can overspend it, two calls the least that can race; plans
that expire after one second or two, and days of one, put expiry before, at and
after execution and midnight between two executions; a second version of the
mandate can replace or pause the first.  A cache of one entry evicts on every
second key; ages saturate at `MaxAge` = 9, beyond every bound of the properties:
`Stale` and two `Wait`s, which a price takes, are 8.  Four runs of the script are one that leaves
an unresolved marker, one that reconciles it, and two that race behind them.
Two requests fill a window of one, and times up to three open the next one.
Deadlock checking is off where the system may stop: payments all settled, runs
finished, or a bound reached.

Fairness.  `Escrow` assumes that time passes, that a buyer whose refund stays
open takes it (weak fairness), and that a party and a resolver whose calls are
open again and again make them in the end (strong fairness of
`ReleaseAfterWindow` and of `ResolveDispute`: a pause or a revoked role closes
them for a while).  Nothing is assumed of providers, of the administrator, or
of buyers who would accept a result.  `Projection!FairSpec` assumes the
scheduled worker runs (`FINANCIAL_ARCHITECTURE.md` asks for a scheduled
`pnpm finance:reconcile`) and blocks become final; its liveness property is
conditional on the worker failing only finitely often.  `MarketData` assumes
that time passes and that a request is answered, refused or times out, as
`AbortSignal.timeout` makes it.  `Server` assumes only that the handler of a
request that was accepted goes on: each of its awaits resolves or rejects.
That a process which closed its database still answers is part of what is
checked.  The other modules have no liveness property, because the code makes
no promise: it never retries an uncertain submission or a trade on its own, and
a plan left executing waits for whoever repeats the call.

## 4. Proofs

`EscrowProofs` proves for all constants (any set of wallets, payments, terms,
policies, resolvers, any bound on time): type correctness, solvency
(`token balance >= totalObligations`, the property `SECURITY.md` asks an
operator to monitor), the session budget, frozen commitments, the granted
review period, finality of undisputed submissions, exact entitlements, and that
`Escrow` implements `EscrowLifecycle`.  The argument is one inductive invariant
`IInv`, the conjunction of `TypeOK`, `Solvent` and `CommitmentMeansSubmitted`;
each action of `Next` is treated in its own step.  The action properties follow
from it step by step, and a PTL step closes each theorem.  Solvency needs the
type invariant because an obligation subtracted by a settlement must first be
known to be there; frozen commitments need that a payment that was never
submitted has none (`CommitmentMeansSubmitted`).

`SessionBudget` does not read the contract's counter: `SessionWithinLimit` adds
up the payments that sessions funded on the day and compares them with the
limit in force at each of them, so a policy that is replaced may lower or raise
the day's limit but may not reopen what was spent.  `SessionInv` is the bridge:
the counter equals that sum (`SessionPays`, `SessionRests`).

`EntitlementsAreExact` needs a second invariant, because the token may keep a
fee of any transfer and the property speaks only of runs in which it kept none.
`Accounted` holds in all: for each wallet, what it is short of what its payments
explain (`Missing`) is never negative, and all that is missing adds up to what
the token kept and what was sent to the contract unasked.  If that is nothing,
nothing is missing anywhere.  `MoneyStep` says once what a step may
move; `TransferSum`, `DepositAccounted` and `SettlementAccounted` are the steps
that move money.

`AutonomyProofs` proves for all plans, calls, mandates, amounts and bounds:
type correctness, `RecordsAgree`, `OnlyAllowedPlansAct`,
`SupersededPlansRest`, `CapitalReserved` and `ApprovalsCovered`.  Its `IInv`
adds to `TypeOK` and `RecordsAgree` what
the calls rely on.  `CallsMatchPlans`: a call that submits or decides holds the
company's lock and its plan is still new or pending, and a plan handed to an
execution never leaves executing, executed or failed.  `EffectsAreAllowed`:
the same of a plan that has had an effect.  Without the first, an approval
could overwrite a rejection made while it was deciding, and the records would
part.  The proof groups the actions by what they write: controls, steps that
only move a call, steps that write one plan's records.  The assumption is
`AutonomyAssumption`.

`NewMandateStopsThem` is an action property: a plan of an older version of the
mandate has no further effect, whoever repeats its submission or approval,
unless a call had read the mandate before it changed.  Versions only grow
(`MandatesGrow`), a plan keeps its own (`WritesKeep`), and no call gets past
`CheckMandate` for it again (`SupersededStays`).

`CapitalIsReserved` and `ApprovalsAreCovered` hold under supervised and
autonomous mandates alike.  `CapitalInv` adds to `IInv` and `CapitalReserved`
that a decision under way has counted every plan that still holds a reservation
(`ReservationsSeen`): the company's lock keeps others from reserving, and
reservations that execute meanwhile only move from one of its two sums into the
other.  `ApproveCovers` and `SubmitCovers` are the two steps that reserve;
`CapitalKept` treats the others.

`ProjectionProofs`: types and the order checkpoint, finality, log;
`RestsOnFinality`, `BooksMatchState`, `SettlementBackedByResult`,
`CheckpointCovers` and `NothingLost`, for all payments, amounts, batches and
logs.  The invariant rests on one fact about the lifecycle, that it is acyclic:
`Rank` numbers the states and both the contract (`LifecycleRises`) and the
trigger (`GuardRises`) only go up.  `LogInv`: the receipts of one payment rise
along the log.  `RowInv`: a row, committed or in the indexer's transaction, has
the state of the furthest receipt it has seen and the books of that state
(`PostMatches`: an event posts the difference between the books of two states).
`TxInv`: the transaction's copy of a locked row has seen what the committed row
has, and the batch up to the cursor is in the rows as the transaction sees
them.  From the first two a receipt confirmed ahead cannot be taken twice or
taken back; from the last, a commit that writes rows read steps before loses
nothing and the checkpoint covers what is behind it.  `FetchedOK` is all that
is known of a receipt a confirmation has fetched, since a reorganisation may
have taken it off the chain before it is compared.

`OperationsProofs`: types, `BroadcastAtMostOnce`, `BroadcastUnderOwnPolicy`,
`SessionPinned`, `SubmittedStaysMarked` and `DailyFundingBounded`.
`StatusMatchesCall` ties the row to what was handed to the network;
`ExecutionsMatch` says what the copy of an execution may still be, step by step
(one past the marker holds a copy of a row marked by it), and `OneExecution`
that one execution of an operation at most is past the marker.
`OneLiveOperation`: of the operations of one action only one is not failed.
`IngestsMatch` says what the copy an ingest holds is still worth: it is of the
one live operation of its payment and action, or of one that was given up since.
For the daily limit, no write changes an operation's terms (`WritesKeepTerms`).
One can bring back an operation that was given up: an ingest that read it
before.  Such a one is not counted, because only the provider's report could
have given it up (`reported`), and the units granted in its place are.  So a
day's sum grows in `Prepare` alone (`ReservedShrinks`, `PrepareReserves`).

`JobsProofs`: types, `RowsAgree`, `OncePerKey` and `AgreementCurrent`.  The
invariant is what row locks and read copies are worth: `JobLocks`,
`ServiceLocks` (what a call read under a lock is still the row) and
`ClaimsHeld`, `AnswersRecorded` (an open key has one holder, a closed one the
answer everybody got).

`FinancialRootProofs`: types, `WalletMatchesRoot`, `ChallengeUsedOnce` and
`RecoveryAuthorised`.  `RootInv`, `GrantOf` and `EnrolmentOf` say which
challenge stands behind each passkey and which passkey behind each wallet;
`CheckedBy` what an open call has verified, `OneHolder` that two open calls of
one company never do.

`TradingProofs`: `BroadcastOnce`, `ApprovedUnderItsPolicy`, `OneAnswerPerKey`,
`TerminalIsFinal` and `BooksMatchChain`.  The invariant of the first four is per quote (`PolicyOf`, `UseOf`,
`ExecutionOf`, `SentOf`, `AnswerOf`) and per reconciliation key
(`ReconciliationOf`): what a step of `execute` or `reconcile` saved before it
stopped, and so what a repetition of it may still find.

`BooksAreTheChains` is for any number of trades and transfers in a block.  A
settlement reads its amounts off the wallet's balances before and after the
block, which all of them move, so of a confirmed trade it claims what the check
gives: the input as quoted, an output of the minimum or more (`WhatIsRead`), and
the true output for a trade that had its block for itself (`Alone`).  `LedgerInv`
is the inductive invariant: `IInv`, the types of what moves (`MovedTyped`,
`AmountsOf`), and `BooksInv`, in which `BookedOf` ties a confirmed trade to the
chain and `Balanced` has the equations of lots and entries.  A trade in a settled
block stays alone or was not (`AloneBefore`, `MovedStays`).  A purchase adds a
term to each sum (`PurchaseStep`).  A sale takes its units from the oldest lots,
by block and then by id; that they add up to what was sold is an induction over
the lots in that order (`OldestFirst`), and the cost they take along never
exceeds what is left (`CostTaken`, `SharePart`).  Every other step leaves
confirmed trades and their fills alone (`TradesMove`, `ChainMoves`,
`QuotesMove`), which is where the order of reconciliations drops out.

The end of `EscrowProofs` is about `Deployment`: types with the bound on nonces, `EveryDeploymentRecorded`
and `NoBlindRedeployment`.  `NonceInv` and `AttemptInv` relate the nonce a run
read to the markers it has looked at; `PendingTaken` says that a nonce the
pending count has passed is taken by a transaction, which makes a reused nonce
safe.  The bound on nonces is a pigeonhole over the runs (`TakenBound`).

The end of `ProjectionProofs` is about `Identity`: types, `ConnectionOfOwner`
and `RotatedOnce`, for all owners, calls and keys.  `OwnersInv`: whoever
has an agent has registered the address, and nobody else, which is why the loser
of two signups with one address gets no agent to connect.  Agents are numbered
as they come, so a first one stays the first (`IsFirst`); `GrantInv` then only
needs that a connection is made with what its call still may rely on
(`Onboards`, `Connects`, `Chooses`).  `Rotates`: while a rotation holds the
company's lock, the credential it checked gets no successor from anyone else
(`OneRotation`), although it may have been revoked (limit 7 of section 5).

The end of `OperationsProofs` is about `Server`: types and `LimitHolds`, for
all calls, limits and windows.  A call reads the clock and is
counted later, so times come out of order; `AdmittedOf` says that a window is
the bucket's present one or ended before it began, `WindowsApart` that no two
overlap, and `CountOf` that the stored count covers everyone admitted into the
present one.  The window a call is admitted into therefore is the only one that
began less than a window's length before.

The end of `TradingProofs` is about `MarketData`: types and the size of the
cache, `OldAnswersAreMarked` and `PoliteUpstream`, for all readers, symbols and
times.  The argument is a clock that runs down: `Left` is what a request may
still take, and `FetchOf` bounds its age and that together by `Wait`; as an
answer that a reader already has grows older, what it still waits for shrinks by
as much (`ReaderOf`), and both end within the mark's allowance (`Allowed`) and a
`Wait` for each key asked for (`Span`).  That no request waits longer is
`TurnInv`: the next turn is as far off as the requests before it make it, and
they are at most one for each key.  `TurnsApart` and the last start, which a
turn is `Pace` away from, keep requests apart.

`Sums`: amounts are added with `MapThenSumSet` of the community modules, a
recursion over subsets.  Induction over a property is out of the provers' reach
because it takes an operator; a set of counterexamples is not, and a non-empty
set of subsets of a finite set has a least one (`LeastSubset`, from the
library's well-foundedness of the subset order).  With it, the recursion has a
solution (`Recursion`), one only (`Unique`), and its value is what the operator
returns (`Fold`); `SumRemove` then takes any element out of a sum, and the
others (`SumAdd`, `SumChange`, `SumPart`, `SumUnion`, `SumMinus`, `SumPad`,
`SumConstant`) follow.

Every theorem rests on the named ASSUMEs of its component alone, which TLC
evaluates in the runs.  Beside types and bounds they say that sets of
identifiers are finite (runs, requests, wallets, terms, plans, operations,
quotes, symbols: addresses, hashes and keys have a width and tables a finite number of rows) and
that `None` is no identifier (`NoneIsNoClaim`, `NoneIsNoOp`,
`OperationsAssumption`, `IdentityAssumption`).  `MarketDataAssumption` also says
that the model's oldest age is no less than the fresh time.  `TradingAssumption` also says that an offer's minimum
is no more than its expected output, as the venue's answers are checked
(`markets/src/trading.ts:718`).  Each inductive invariant was checked on the instances
of section 3 before it was proved.

Only model-checked: the liveness properties (`EveryPaymentSettles`,
`EveryReceiptIndexed`, `EveryReaderAnswered`, `EveryRequestAnswered`), which the
prover cannot reach.  All other properties of the runs are theorems,
stated for every value of the constants.

## 5. Known limits

What the models show the code not to guarantee.  The numbered ones have a
configuration that produces the counterexample; run it by hand with
`tlc -config X.cfg M`.

1. `ProjectionReplay.cfg` (`ProjectionMC`): a receipt confirmed ahead of the
   checkpoint can make the indexer's batch throw for ever; the comment in
   `reconcile` promises a safe replay.
2. `OperationsConfirmed.cfg` (`OperationsMC`): execute writes back the
   operation it read at its start, so it can turn an operation already
   confirmed by a finalized event into `unknown` (or `submitted`).
3. `AutonomyTwoKeys.cfg` (`AutonomyMC`): an agent's repeated submission
   executes a plan under the submission's key while, or after, the owner's
   approval executes it under its own: the two requests are two requests to
   everything downstream and the purchase is made twice.
4. `AutonomyConcurrent.cfg` (`AutonomyMC`): `submitActionPlan` reads executed
   plans and active reservations in two statements; a plan recorded between
   them is in neither sum, and the next plan is admitted on capital already
   spent.
5. `TradingLimits.cfg` (`TradingMC`): `TRADING_POLICY.md:7` says every quote
   and execution rechecks earned capital, reserve, daily spend and exposures;
   execution rechecks the policy, the session and the eligibility but not the
   funds, so two quotes that fit one by one are executed together.
6. `TradingProceeds.cfg` (`TradingMC`): `verifySettlement` takes an output from
   the wallet's balances around the whole block (`markets/src/trading.ts:528`),
   bounded from below only; an escrow's payout in the block of a sale is booked
   as its proceeds and adds to the investable capital, which
   `PORTFOLIO_ACCOUNTING.md:15` says external transfers never do.
7. `IdentityRotation.cfg` (`IdentityMC`): `rotateCredential` takes the company's
   lock (`economy.ts:1205`) and then reads the credential (1209), but a
   revocation takes no lock: one that commits after that read does not stop the
   rotation, although `economy.ts:1216` refuses a credential revoked before.
8. `ServerDenials.cfg` (`ServerMC`): `docs/phase3-report.md:51` calls
   authorization failures auditable; the agents' own REST routes, the web's
   private jobs and the MCP tools leave an audit event for a refusal, the
   finance, trading and autonomy routes answer 403 without one
   (`finance-rest.ts:80`).

The others are behaviours of the models, each with the reason why no property
forbids it.

- Operations: a provider may answer that a call failed which is still included.
  The operation is then given up and its action may be sent again; the contract
  takes the second one's funding only if the first has not arrived.  An ingest
  that read the operation before writes it back as confirmed, so the live
  fundings of a day may exceed the limit by what was given up, which is why the
  property leaves those out.
- Operations: execute and prepare take the rows of operation, payment and
  company in different orders (`finance.ts:2090`), which the database may have
  to resolve by ending one of them.  The models have no deadlock of locks: a
  step that would wait is not enabled.
- Trading: trades and transfers in one block are compared as a whole.  A trade
  may be booked with what another one or a payout brought in; two purchases and
  a payout that makes up for one of them can each pass and each book both
  outputs; and a payout in the block of a purchase can keep it from ever being
  verified.
- Trading: a session revoked between the last check and the broadcast does not
  stop the broadcast.
- Autonomy: purchases executed under an autonomous mandate are covered when they
  are admitted, by sums read in two statements (4); what all of them spend is
  bounded for approvals only.
- Autonomy: the mandate's daily limit is compared with executed plans only, so
  executions that overlap may pass it together, and executed plans stop
  counting at midnight while earned capital falls only when their payments are
  released.  Nothing in the repository promises more.
- Deployment: a marker left at `BROADCASTING_OR_UNKNOWN` stops every later
  deployment with another nonce until an operator removes it; the verdict that
  a transaction was not accepted can be wrong for one that is still on its way,
  and the next run then sends at the same nonce, which the chain takes once; a
  marker at `SUBMITTED` stops no later run.
- Market data: the wait for the other requests' starts and for the answer adds
  to the age of what is served, so "at most five minutes" (`README.md:206`)
  holds for the moment an answer is chosen and not for the one it is received;
  a backoff is counted from the start of the request that was refused; a timer
  that fires late may bring two starts closer than the pace.
- Server: the web application and the serverless twin keep a start that failed
  until their process is replaced.

## 6. Plan

Next, in this order:

1. Pool: the connection pool, whose size may be one, when a submission's
   transaction asks for the company's capital over a second connection; and
   the order of row locks in execute, prepare and ingest.
2. Opportunities of the autonomy service (claims that race), incoming transfers
   (`observeTransfer`), trading over several days and tokens.

## 7. Not modelled

Within the modules: in `Trading` days, several tokens, and the reasons for
which venue and registry refuse; in `FinancialRoot` sign counters, the expiry of a challenge
against the start of its transaction, idempotent replays (`Jobs` has them) and
a connection revoked after it was checked; in `MarketData` the longer life of
corporate actions, a disabled provider, the bound on remembered backoffs and
the budget of several processes; in `Server` the effect of closing the MCP
handler on open MCP requests, the MCP library, and limits on a body while it
streams; in `Operations` human buyers' own wallets, simulate and the canary
review, which keep no payment state.

Without a module: the session custodian, whose calls keep no state here and may
fail in `Operations`; the ledger of phase 2, which no route can reach outside
tests; incoming transfers and opportunities (section 6); the status report;
pages, the SDK and the chain registry; signature and passkey cryptography,
formatting and public read models.  Components and reasons are listed in
`PROJECT.json`.
