# Verification of the SEC EDGAR Terminal

TLA+ models of the parts of this repository whose correctness depends on the
order of things: paid requests and their ledger, the staged data store with its
leases and shared reads, the durable jobs that keep the data fresh, the gate
that spaces requests to the SEC, the shared reviews of fund reports and the queue
of bank reports. TLC checks small instances; TLAPS proves the safety of every
one of these parts for every value of its constants, and that the three
detailed models implement their abstract ones. Liveness is model-checked.

Run a check with `tlc -config X402Ledger.cfg MC_X402Ledger.tla`, a proof with
`tlapm X402Ledger_proofs.tla`. `PROJECT.json` lists the runs, the mutants that
every property catches, the source lines of every definition, the hazards and
the theorems.

## The system

A Next.js application on serverless functions, Postgres (Supabase) procedures
behind RPC, an object store, a Redis-like cache, and the outside world: the SEC,
the CFTC, a payment facilitator and a chain. Nothing in a server process
survives it, several processes run the same code at the same time, and every RPC
has a deadline after which the caller goes on although the call may still be
served. What is durable is a database row, and what protects it is the procedure
that locks it.

| Component | State | Operations | Interacts with | What makes it correct |
|---|---|---|---|---|
| x402 ledger (`supabase/migrations/20261004*`) | receipts, deliveries | claim, finish, stage, recover | paid requests, by RPC | outcomes are final, a transaction is never lost, a token opens one purchase |
| Paid requests (`x402Payments.js`, `x402Ledger.js`) | the request's place; the pending transaction of the settlement retry; the attempt gate | verify, claim, run the handler, stage, settle, record, answer | ledger, facilitator, chain | one settlement per payment, content only after the charge, no false "not charged" |
| Dataset heads (`20260913031639`, `20260913181102`) | head row with generation, owner, lease, pointers; immutable versions; objects; cache mirror | begin, publish, revalidate, release, reserve, fenced put | data store client | only the living lease publishes; pointers lead to stored bytes |
| Data store client (`dataStore.js`) | registry of reads under way, per process | read, publish, revalidate, release, job calls | heads, jobs, objects | no read joins one from before a lease |
| Document refresh (`secDocumentStore.js`) and outputs (`preparedFinancialData.js`) | the worker's place | lease, read, fetch or prepare, publish, mirror | store client, SEC | nothing goes back to older input; freshness is honest |
| Job queue (`20260913031639`, `20260914*`) | job rows with checkpoint, attempts, lease | enqueue, claim, checkpoint, yield, finish | workers | only the live owner writes; killed last attempts are buried |
| Coverage workers (`secCoverageJobs.js`) and pilot migrator (`dataMigrationJob.js`) | the invocation's local checkpoint | enrol, claim, visit, save, end | job queue, document refresh | no issuer skipped, no progress lost, every job ends |
| SEC dispatch gate (`20260913161017`, `secClient.js`) | next slot, cooldown, owner; local queue | acquire, release, cooldown | every SEC request | spacing and cooldowns hold across processes |
| Disposable cache (`20260913171926`, `warmCache.js`, `redisMaintenance.js`) | entries, payloads, quota counters | get, put, evict, prune | mirrors, readers | counters equal contents |
| CFTC refresh (`cftcPersistence.js`, `cftcHistoryPreparation.js`) | heads, jobs, a refresh anchor | reserve, save, checkpoint, history shards | queue, heads | one refresh per anchor |
| Research views (`preparedResearchViews.js`) | several leases | lease, compare inputs, publish | heads | no view of mixed inputs |
| Scheduler (`cron/sec-coverage`, `20260913074619`) | nonces | start an invocation | coverage workers | one invocation per signature |
| Hosted AI billing (`20260920184816`) | credit, reservations, payment events | reserve, finalise, fulfil, refund, dispute | webhooks | no double spending |
| Fund reviews (`20260916175154`, `20260916183951`, `thirteenFReview*.js`) | job rows with report, lease, cycle and counters; results; a daily budget | enqueue, claim, work, save, release | report loader, disclosure search | results stay with their report; counters and time agree with what was done |
| Bank queues (`20260925*`, `20260930021815`, `bank/worker.js`) | one lease, the directory of filings, jobs per bank and quarter, reports | request, begin, periods, catalog, claim, retain, publish, error, finish | FFIEC, readers | a ready quarter shows the report of its latest submission; every quarter settles |
| Membership registry, disclosure index | snapshots, passages | stage, activate, replace | schedulers | frozen inputs per cycle |
| Browser storage, computations, pages | user data | | | unit-tested functions |

Hard to test: replays and late calls around money; workers that outlive their
leases; reads shared inside a process while another process publishes; kills
between any two steps; lost replies to claims and checkpoints; several workers
on one queue. `PROJECT.json` lists each at the line where it bites.

## Modules

| Module | Stands for |
|---|---|
| `X402Ledger` | the two tables and the four procedures; one step per procedure |
| `X402Purchase` | `createPaidHandler` over `X402Ledger`, with lost, late and unheard calls, kills, facilitator and chain |
| `X402Promise` | abstract: one authority per payment, a charge only under it, content only after the charge |
| `DatasetHead` | heads, versions, objects and fenced mirror; one step per procedure |
| `PreparedData` | `refreshSecDocument` and `prepareFinancialCompany` over `DatasetHead`, with the shared reads of `dataStore.js` |
| `Pipeline` | abstract: publisher, source, output and mirrors move forward only |
| `IngestionJobs` | the job rows and the queue's procedures |
| `CoverageJobs` | `runSecCoverageJob` and `runSecMigrationJob` over `IngestionJobs` |
| `SecDispatch` | the dispatch gate's procedures and `createSecDispatchCoordinator` in several processes |
| `StartLimiter` | abstract: starts keep a spacing, cooldowns are not shortened and stop the starts |
| `FundReviews` | the review procedures with budget and evictions, and the worker that calls them |
| `BankQueue` | the operations of the bank queue and the worker that calls them |
| `MC_*` | model values, small functions and symmetry for TLC |
| `*_proofs` | theorems and proofs |

`X402Purchase` EXTENDS the ledger it calls, `PreparedData` the heads,
`CoverageJobs` the queue (the other three hold both sides): their procedures are operators that the composed
modules use as they are. A call is put on `wire` (`calls` in `CoverageJobs`)
when the code sends it; a `Serve...` action runs the procedure; the caller hears
the reply only while it still waits for it. A call that was given up can
therefore be served at any later time or never. `BankQueue`, where one worker
awaits one call after another, takes a call and its reply in one step, or gives
the call up and leaves it on `wire` to be served late.

### Correspondence

*Paid requests.* `pc` follows the awaits of `createPaidHandler`: `new`,
`claiming`, `handling`, `staging`, `settling`, `finishing`. `Verified` is
verification by the facilitator and the sending of the claim; `Refused` every
answer before it, the attempt gate's included. `kept` is the transaction that
`preserveSettlementOutcome` keeps between the first settlement call and the SDK's
retry. `answer` is fixed when the outcome is being recorded, because the code
swallows whatever comes of that call. `open`, `settlers`, `sent` and `charged`
are the facilitator and the chain, modelled from what the code expects of them:
a message can be broadcast and can land only while it is valid; a first
rejection means that it was not broadcast. The identity of a payment is the hash
of the signed message, which is also its nonce, so the two uniqueness
constraints of the receipts table are one. Bytes are represented by the request
that prepared them.

*Dataset heads.* `gen`, `owner`, `lease` are the generation, owner and
`lease_until` of a head row; `current`, `good`, `rollback` its pointers;
`validated` stands for the freshness metadata (`revalidated_at`, `expires_at`);
`capture` is `cache_claim`. A claim presented by a caller is any pair of
generation and owner.

*Prepared data.* `pending` is `pendingVersions` of each process, with its limit;
`reads` the database reads under way; `waits` who awaits which. `versionWrite`
forgets reads before and after the call, which is `ForgetAll` or `Forget` in the
sending action and again in the action that takes the reply. `Source` stands for
both documents of an issuer, whose older stamp the code takes; `Output` for one
of the four bases. `GiveUp` is any error, timeout, approaching deadline or a
version that was checked recently enough; a killed worker is one whose release
is never served. The publisher's revisions may return to earlier content.

*Jobs.* A row's `owner` is drawn afresh by each claim and stands for its
generation too. `live` and `available` abstract the two deadlines. The
checkpoint has the fields the code validates (`validCheckpoint`); `schema` 0 is
the migrator's `{cursor, coverage}`, 1 a job of a superseded universe, 2 a frozen
shard. Which eligible job a claim returns is left open; that includes the order
by shard. `maxCompanies`, `maxBatches` and time budgets are an invocation that
may stop after any visit; a claim by explicit job key is a special case. Retry
delays are any delay.

*Dispatch gate.* The row's deadlines (`lease`, `next`, `cooldown`, `handoff`) and
the timers of a request are what is left until them, so that clocks of database
and processes only measure durations. `at` follows `createSecDispatchCoordinator`:
`queued`, `turn`, `asking`, `pausing`, `granted`, `holding`, `releasing`, and
`closing` for the release after an uncertain reservation; `away` is the request
at the SEC, `publishing` the cooldown after a 429. A retried request is a new
one. `Kill` ends all requests of a process.

*Fund reviews.* `lease` is what is left of a claim, `today` whether it was
charged to the current day, `forgotten` that a completed job was not asked for
in 30 days. `checked` is `report_checked_at`, and the source answers each stamp
with one report. An owner stands for the generation and the cycle of its claim,
because whatever raises those changes or clears the owner; `cur` and `tried` say
of a result whether it belongs to the job's cycle and claim. A result is stored
as one unit of `Capacity`. `worked` is history: the time spent today under
leases charged today.

*Bank queue.* `control` is the row that serialises the workers; `panel` the
directory's entries; `Windows` the periods that the service may list. A version
stands for the time of a submission and for its bytes. `label` is the submission
a report is filed under, `Verdicts` what parsing and validation say of it: a set,
because the mapping evolves, which is also why a kept report may be `old`. A call
is served and heard, refused, or goes wrong in one of two ways (served unheard,
or given up and perhaps served late). `tries` counts what the client has tried for
the answer it waits for: after an answer that the source is out of order it cools
the queue down (`CoolDown`), waits until its requests pass again (`Waits`) and asks
once more. `quota` stands for every failure that names the time of the next request
(limits, a longer cooldown, an outdated token), with the worker's own cooldown after
it (`Cool`).

## Runs

| Run | Question | Bounds and why they are enough |
|---|---|---|
| `x402_ledger` | can any calls corrupt the ledger? | 2 payments, owners, tokens and transactions, receipts that live longer than deliveries, time past both: every conflict the procedures name needs two of a kind |
| `x402_replay` | can replays, losses and cleanup cheat buyer or seller? | 3 requests: one payment twice, one with the same token later; the receipt of the first expires while the second is signed |
| `x402_promise` | do requests implement the promise, and end? | 2 requests on one payment; liveness needs the smaller instance |
| `dataset_head` | can any claim break the fence? | 1 resource, 3 versions (current, rollback and a new one), 2 owners, 3 generations (a stale one, its successor, and one after a lapse) |
| `prepared` | do shared reads, pauses, late calls or a source that moves bring old data back, make it look fresh or end another's lease? | 2 processes, 2 reads, 3 revisions, the last with the content of the first; from three starts: `Sharing` (3 refreshers; 2 changes of the source, or one and a lapse), `GivingUp` (2 refreshers, one failure, two lapses, 2 changes), `Preparing` (2 refreshers and 2 preparers, one change) |
| `jobs_coverage` | does a shard lose or skip work? | 2 workers, 2 issuers, 2 attempts each, 2 attempts of the job, 1 late call |
| `jobs_progress` | does every shard end? | 1 worker, a current and a superseded job, 2 attempts, 1 late call |
| `jobs_shared` | does a shared queue skip a company? | shard of 3, cohort of 2: cursors beyond and inside the cohort |
| `jobs_scope` | does the migrator take only cohort jobs? | expected violation, see below |
| `sec_dispatch` | do the processes together keep the SEC's limits, and does every request end? | 3 requests, two of them in one process with a queue of 1, 1 reservation id each, a lease of 2 with margin 1, a cooldown longer than the spacing, 1 call under way beside lost ones |
| `fund_reviews` | do results, counters, budget and evidence agree whatever order saves, replacements, evictions and lapses come in? | 1 worker and the late calls of its former claims, 3 jobs of which 2 fit (`Small`: beside a forgotten job only one other, with the short report; what brings a report back meets the calls of its past and goes no further), 2 reports, of which the third stamp brings back the first, 2 holdings, 2 attempts, capacity, day and attempts of 2 |
| `bank_queue` | is a ready quarter current, and does every quarter settle? | 2 workers, 1 bank, 1 quarter that may leave the catalog and come back, 2 submissions, 3 owners, 2 attempts of a job, 2 tries of a request (of the code's 3: one that is repeated and a last one), 1 fault, 1 late call; from an empty store or one that an older mapping filled |

The constants that only bound a search are `MaxNow`, `MaxGen` (guard of
`HeadNext`), `MaxFailures`, `MaxLate`, `MaxWire`, `MaxFaults`, `MaxVersion`,
`MaxStamp`, the finite `Reads`, `Stamps`, `Uuids` and `Owners`. `Small` is the only
state constraint. The starts of `prepared` are states of the `Init` of
`PreparedData`: workers that never begin, failures that lie in the past.
`MaxFaults` counts lost and late calls, kills, overruns, failures of the
directory, runs that leave before they claim a job, and the source denying a
filing it lists: without a limit each of these could keep a quarter pending.
`CHECK_DEADLOCK FALSE` appears where the bounded system really may stop: time is
used up, or every worker has ended. Symmetry is used in safety runs only.

### Fairness

`x402_promise` assumes that a process that is not killed takes its next step
(`WF` on the request's own steps, among them the timeout of each await: 5 s for
the ledger, bounded settlement). Nothing is assumed of database, facilitator or
chain. `jobs_progress` assumes that an invocation begins again and again
(pg_cron every 5 minutes), that calls it waits for are answered or given up,
that an invocation which may visit an issuer again and again does so once
(`SF` on `Visit`: the budget of a run leaves more than the 60 s one issuer needs,
so not every invocation can stop before its first visit), and that leases lapse
and delays end. It assumes nothing of kills and losses, which may occur at any
time but use up attempts.

`sec_dispatch` assumes that time passes and that a request's own next step is
taken (timers, and the deadline of each call); nothing of the database, of the
eight seconds in the queue, or that a process lives on. `bank_queue` assumes that
every worker takes its next step, which includes beginning the next run (cron,
every five minutes, and every request of a reader starts one), and that retry
times, cooldowns and the leases of stalled workers pass; nothing of readers, the
source, late calls or kills.

### Finding

`runSecMigrationJob` claims "any job of dataset sec", where the comment above
speaks of cohort jobs; run `jobs_scope` shows it at work on a coverage shard. It
reads the shard's cursor as its own and overwrites the shard's checkpoint, which
the coverage worker then refuses, or the shard is reported done unvisited. The
properties of `jobs_coverage` therefore hold of a queue without migrators, and
`CohortComplete` shows that the cohort itself is still complete.

## Proofs

`X402Ledger_proofs` proves the ledger's type invariant, that outcomes are
immutable, transactions kept, settled bytes frozen, and that a token opens one
purchase, for all callers. `LedgerAssumption` only separates the null values
from the others and types the durations.

`X402Purchase_proofs` proves all four safety properties of paid requests, that
each of their steps is a ledger step or leaves the ledger alone, and that they
implement `X402Promise`. The assumption that carries the weight is
`Retention > AuthLife + RequestLife`: a receipt outlives every message and every
request that could replay it (in the code: 30 days against minutes). None of the
properties is inductive. `IInv` joins to `TypeOK`:

- `Timely`: messages are verified while alive, requests and their calls are
  within the life of a request;
- `Owned`: a request past its claim owns the receipt until it can expire;
- `Progress`: how far the owner is, against what may have been settled, sent or
  staged;
- `Truthful`: what a request is about to record or has answered, against the
  chain;
- `Messages`: every finish call under way carries an outcome that is true;
- `Rows`: what the rows say of the chain;
- `OneSettler`.

The argument: settlement is asked for only by the owner of a receipt; a receipt
can be lost only by expiry; when it has expired the message is dead and every
request that verified it has ended; so a second owner can neither settle nor be
told anything false. The preservation proof has a step per action and a lemma per
ledger procedure. The refinement needs that `Buyer`, the settler of a payment,
is unique (`OneSettler`) and never changes.

`DatasetHead_proofs` proves the type invariant (with the deadlines of leases and
captures), usable pointers and fenced publication, for any number of resources,
writers and versions.

`PreparedData_proofs` extends it and proves honest freshness and that the system
implements `Pipeline`, for any processes, shared reads and traffic. Neither
follows from the fence of a head, because what a worker publishes was read before
and elsewhere. The argument: generation and owner identify the holder of a lease,
so while a lease lives its head still has the content it had when the lease was
taken; the registry is emptied when the reply of `begin` arrives, so a read that
is joined later has seen that content or newer; so what is written is honest and
no older than the head, an output no newer than its source, and a mirror message
that still passes the generation check says what the head shows. Every step then
maps to a revision, an advance or a refreshed mirror of `Pipeline`, or to a
stutter. It also proves the composition: each step of refreshing and preparing is a
step of the store (`HeadStep`: the store's operations with claims of any
generation) or leaves it alone, so fenced publication and usable pointers hold of
the composed system too. `LeaseExclusive` says who may end a lease and so needs the
callers: only a call that is served changes a row's generation, owner or deadline,
and it compares the claim that its sender was given with the row's. `Content` is any
function of stamps: a publisher may return to earlier content.

`CoverageJobs_proofs` proves that a cohort job ends only when every company was
refreshed, with migrators and coverage workers on one queue; and, for a queue
without migrators (`Migrators = {}`, because of the finding above), valid
checkpoints, visited shards and the loss of at most one visit. The first part of
the invariant says that no two invocations share an owner and that a call is
about its sender's job. The second, `Sound`, counts: an issuer is on one list
once, and the visits made and those left never exceed the attempts of the issuers
passed. The third ties a checkpoint in a row, in a call under way and in the
memory of the live owner together: they are within one visit.

`SecDispatch_proofs` proves that a permit is backed by the living lease, that the
gate with its clients implements `StartLimiter`, and that the turn of a process is
handed on exactly once. The invariant says that
whoever may start has a permit that ends before the lease does, by `Margin`, and
that nobody is releasing that lease; and that until the spacing since the last
start is over, the time left of the lease, or `next`, is at least what remains of
it. Two starts keep their distance across a lapsed lease only because
`Spacing <= Margin < Lease`, which the assumption states and the code's constants
satisfy. A cooldown needs `age`, the time since it was set: a permit given before
it dies within `Life`. The turns have an invariant of their own (`Turns`), which
says the same without cardinalities: a queue holds its waiting requests, each at
one place.

`FundReviews_proofs` proves all five safety properties of the reviews. The
invariant holds of each job with its results: they are of the job's report, the
counters count them, and a completed job has a final one for each holding. Beside
it, the budget has recorded, apart from the time used, the rest of every lease
that was reserved today; and an id of a claim that is not served yet is nobody's,
so that saves and workers stay with the report they were claimed for, however
late they are.

`BankQueue_proofs` proves that a ready quarter shows a validated report of the
submission it wants. The invariant `QInv` says where versions come from: what a
worker holds, or a call carries, was filed no earlier than the submission it is
filed under and no earlier than what is kept of earlier submissions. That lasts
because the wanted submission never goes back, and it does not go back because
only the owner of the lease can tell the directory, and every entry it tells is
as new as the directory's (`Current`). The greatest of the retained versions
exists by well-foundedness of `<`. The attempt showed one assumption to be too
weak: `Init` has submissions filed already, so `MaxVersion` is at least 1.

The assumptions on constants separate null values from the others and type the
bounds; those that carry weight are named above. TLC evaluates them in the runs.

Only model-checked, because liveness and `ENABLED` are outside the prover's
reach: `RequestEnds`, `EveryShardEnds`, `EveryRequestEnds` and
`EveryQuarterSettles`. Every other property of a passing run is a theorem.
Recursion over data does not occur in the models.

## Not modelled

The components with status `not_modelled` in `PROJECT.json`, each with its
reason. In short:

- hosted billing: the procedures have no caller, and the gateway refuses them
  (`tests/data-store-gateway.test.js:84,96`);
- the disposable cache: each call is one transaction under one lock, so what
  could be wrong is counting within SQL; its entries appear as mirrors that may be
  replaced at any time;
- the scheduler's nonce: several invocations at once are part of the job models,
  which never rely on it;
- the CFTC refresh repeats the sequences of queue and heads; research views
  combine several inputs under several leases, where `PreparedData` has one
  output of one source;
- pages, computations and browser storage: pure, or state of one user.

Left out within modelled components: request validation and wording, HTTP headers
and discovery, decoding of the signed transaction, compression and hashing
(bytes are equal or not), batch and manifest reads, the decoded-object cache
(contents are immutable and keyed by their hash), materialised metrics, the
exports and dry runs, and the serving side that falls back to other sources; of
the dispatch gate the pacing of a local development server and the parsing of
`Retry-After`; of the bank queue UBPR jobs, peer snapshots, changes of form, the
spare time between requests, the request limit of a reader and the caches of
readers. The clock is one clock: the allowance between server and database clock
at the authorization's expiry is a listed hazard.

## Plan

Done, in this order because money and then data integrity matter most: ledger,
paid requests and promise; heads and prepared data with their pipeline; job queue
and workers; dispatch gate with its limiter; fund reviews; bank queue; proofs of
the safety properties of all of them.

What would extend the project:

1. `CftcRefresh`: the refresh anchor and a checkpoint whose rejection is ignored,
   over `IngestionJobs`; research views as an extension of `PreparedData`.
2. `DisposableCache`: quota counters against entries, deduplicated payloads,
   eviction limits.
3. `AttemptGate`: slots and the fixed window of the paid routes.
