# Verification of the Quantara BOQ core

Quantara turns drawings and uploads into a bill of quantities (BOQ), has people
verify and finalise it, and sells it as proposals and documents. It is a Next.js
application over PostgreSQL: every HTTP request is a separate actor, the
database rows are the only shared state, and what keeps requests apart are a
version column, row locks, triggers and isolation levels. This directory models
that part: which orders of requests, crashes and late writes the code allows,
and what stays true in all of them. Where the requests talk to Stripe, or leave
work to an invocation that comes later, the other side is modelled as the code uses it.

## Inventory

| Component | State it keeps | Operations | What is hard |
|---|---|---|---|
| BOQ revisions (`src/lib/repositories/boq-repository.ts`, `verification-repository.ts`) | BOQ rows with `version`, `verifiedVersion`, `isLocked`; sections; items with quantity and rate evidence; verification exceptions; revision snapshots | item, section and document edits, recalculation, confirmation, duplication, verification, resolution, lock, fork, sample revision | reads of several queries outside the transaction that acts on them; stale writers racing the lock; evidence copied between items and revisions |
| Durable review runs (`worker-runner-service.ts`, `worker-review-service.ts`) | `WorkerRun` rows with lease and attempts, an append-only journal, a review assignment, an optional plan | enqueue, reap, claim, review, link, plan, complete, settle | leases that expire under a running invocation, crashes between commits, late writes by id |
| Trial entitlements (`entitlement-service.ts`) | usage counters per trial subscription | can...? checks, record... counts | check and count in different transactions |
| TAYQAN work orders (`tayqan-work-order-service.ts`) | work order stage, sources, a working BOQ | intake to delivery, measuring, inserting lines in a BOQ | long-running steps over a BOQ other requests edit |
| TAYQAN hire and payment (`tayqan-checkout-service.ts`, `tayqan-stripe-fulfillment-service.ts`) | `TayqanHireEntitlement` rows; in Stripe, sessions and subscriptions | checkout under the company's lock, fulfilment of a day, a week or a month, linking, expiry | a lock that ends before its request does; events twice, late and out of order; rows found before they are written |
| Commerce checkout and webhooks (`stripe-webhook-service.ts`) | webhook events (the ledger), subscriptions, purchases | create, fulfil, process event | at-least-once delivery, retries, state fetched again from Stripe |
| Stripe catalogue synchronisation | products, prices, sync runs, provider mappings | dry run, publish, map | crash between the provider call and the row |
| Refunds (`refund-request-service.ts`, `refund-execution-service.ts`) | `RefundRequest` rows; in Stripe, refunds and subscriptions | request, reject, approve, execute, settle by event | every write is by id after a read; the provider call between two writes; answers lost |
| Extraction jobs and local queue (`extraction-job-repository.ts`, `local-job-queue.ts`) | `ExtractionJob` rows | enqueue, recover, claim, complete, retry, fail, cancel | the invocation that works on a job vanishes; recovery races a new claim; late results |
| Autonomous BOQ preparation | the same rows, keyed by an operation hash | start, retry, run its source, wait for it, finish | a job that waits for another job, perhaps in another invocation |
| Client proposals, public links | proposal revisions, acceptance, tokens | issue, view, accept, withdraw, expire | client acts while the company revises |
| Generated documents | documents, exports | generate, export | which revision a document shows |
| Upload sessions | sessions, chunks, files | open, append, complete, expire | retried chunks |
| Catalogue import jobs | jobs, batches | start, step, resume | resuming after a crash |
| AI drafts, quantity overrides, item sources | drafts, overrides, source links | propose, apply | stale application |
| Drawings, calculators, furniture, authentication, integrations, user interface | | | mostly data, arithmetic or I/O |

The components meet in the BOQ row. Editors, verification, the lock, the fork,
preparation, TAYQAN and the review runs all read it; those that write items claim it by
its version; proposals and documents read what was locked; the lock asks the
entitlements; a review run pins the version it was enqueued for. A preparation is itself a job of
the extraction queue and enqueues source jobs in it. Stripe is the other meeting place:
checkouts create sessions, payments and refunds come back as events, and one webhook
transaction per event writes hires, subscriptions and refund requests together with the
ledger of events seen.

Correctness, per modelled component:

- BOQ revisions: what is verified is what is there; only verified, evidenced and
  answered content is locked; what is locked never changes, nor does the record
  of it; evidence can be followed to its source; revisions are numbered
  without gaps.
- Review runs: work is done for the version asked for and recorded once; the
  journal tells what happened; an ended run stays as it ended; every run ends.
- Refunds: what is recorded as refunded was refunded, and what was refunded is recorded
  even if the handler that did it died; a rejected request is not refunded.
- Extraction queue: a job is executed by one invocation at a time, a target has one
  active job, ended jobs stay as they ended, attempts are bounded, and a source someone waits for
  settles. A preparation settles, too (it does not, see below).
- Hires: a company holds one session it could pay; a paid day starts once; a month's hire
  tells the latest state of its subscription that an event has announced, and never an
  older one after a newer one.

## Modules

| Module | What it is |
|---|---|
| `BoqLedger` | abstract: a revision is a draft until final; only reviewed, acceptable content becomes final and then never changes |
| `BoqFinalization` | the requests on one project's revisions, one action per query or transaction |
| `BoqFinalizationProofs` | type correctness, the inductive invariant, the theorems on verification, lock and snapshot |
| `BoqContentsProofs` | the theorems on citations, sections, revision numbers and the trial's counter |
| `BoqRefinementProofs` | `BoqFinalization` implements `BoqLedger` |
| `MCBoqFinalization` | symmetry and section maps for TLC |
| `ReviewPromise` | abstract: a review is tried a bounded number of times, then answered with what was asked or given up |
| `WorkerRun` | the review runs, drain invocations, time and crashes |
| `WorkerRunProofs` | type correctness and safety of the runs |
| `WorkerPromiseProofs` | `WorkerRun` implements `ReviewPromise` |
| `MCWorkerRun` | symmetry and identities for TLC |
| `RefundRequests` | refund requests, owners' handlers, Stripe's refunds and their events |
| `RefundRequestsProofs` | type correctness and safety of the refunds |
| `JobLease` | abstract: a job is taken by one worker, who ends it or puts it back; others only if it is lost |
| `ExtractionJobs` | the extraction queue, its invocations, and preparations that use it |
| `ExtractionJobsProofs` | type correctness and safety of the queue; it implements `JobLease` |
| `MCExtractionJobs` | the source of each preparation, for TLC |
| `TayqanHire` | checkouts, Stripe's sessions and subscriptions, webhook transactions, hires |
| `TayqanHireProofs` | type correctness and safety of the hires |
| `MCTayqanHire` | symmetry for TLC |

### BoqFinalization and the code

A request reads with Prisma outside any transaction, then runs one transaction.
Prisma reads included records with one query per level, so a read is not atomic,
and the order of its queries matters:

- `getBOQRecord` reads the BOQ row, then sections and items: `ReadBoq`,
  `ReadBoqItems`. What is decided on may be newer than the version claimed,
  never older; the claim catches that.
- `getItemRecord` reads the item, then its section and BOQ: `ReadItem`,
  `ReadItemBoq`. What is decided on may be older than the version claimed; the claim
  does not catch that.

`Claim` is `claimEditableBOQ` (inlined in `updateBOQ` and `recalculateBOQ`): the
row must be unlocked and still have the version read; it goes up and
`verifiedVersion` is cleared. Every writer of items, evidence and sections is
`Write` with its own items: `UpdateItem`, `ConfirmItem`, `DeleteItem`,
`DuplicateItem`, `CreateItem`, `Recalculate`, `UpdateDocument`, `CreateSection`,
`UpdateSection`, `DeleteSection`. The claim takes the row lock first, so the rest of the
transaction is one step with it. `Verify` is `runBOQVerification`, `Resolve` is
`resolveVerificationException`, and the lock route is `Verify`, `LockCheck` (early
return and trial allowance), `Lock` or `LockFoundLocked`, `RecordCompleted`.
New revisions are `CreateProjectBoq`, `CreateRevision`, `CreateSampleRevision`; a sample may be
a project's first. `UpdateItem` confirms evidence for a value that differs and for one that is given again with its provenance.
`Abandon` is every way a request ends without its transaction: a failed claim, a
rejected input, a serialization failure, a crash.

| Variable | In the code |
|---|---|
| `version`, `verified`, `locked`, `priced` | `BOQ.version`, `verifiedVersion` (0 for null), `isLocked`, `pricingMode` |
| `sections`, `items` | the revision's sections and items with their evidence rows |
| `exceptions` | `VerificationException` rows of severity CRITICAL |
| `snapshot` | `BOQRevisionSnapshot` with `BOQRevisionItemEvidence` |
| `currentRevision`, `completed` | `Project.currentRevisionNumber`, `CompanyTrialUsage.boqsCompleted` |
| `pc`, `seen` | where a request is and what it has read |
| `attested` | history only: places whose quantity a person gave or confirmed |

Abstractions, each of the data:

- An item is a quantity and a rate; the other commercial fields, description and
  unit behave like one of the two. A finding is a critical rate.
- An evidence row is the value it was confirmed for, or `Unverified`, and the
  row it cites. `CopyOf` confirms the value the copier holds, as
  `copyItemProvenance` does.
- `updatedAt` of an item and `resolvedAt` of an exception are compared by the
  code; both are dated by the BOQ's version, a clock every writer of items
  advances. Skew between servers' clocks is left out.
- `BOQ.status` is omitted: LOCKED is written only with `isLocked`, and the other
  statuses guard nothing that `isLocked` does not.
- WARNING findings, furniture, concept and preparation gates only refuse; a refused
  request is `Abandon`.
- `updateBOQSection` changes title, code and order, which are not told apart: only its
  claim shows.
- Foreign keys ON DELETE RESTRICT are `Deletable`. Within one delete of several items the
  database may refuse where the model allows, depending on row order.
- A project starts without a BOQ or with a migrated, unlocked one whose evidence is
  LEGACY_UNVERIFIED. Revisions that were locked before the migration are not
  initial states.

Bounds: `MaxRevision` and `MaxVersion` stop forks and claims; they are guards of
`AddRevision` and `Claim`. The theorems hold for every value of both.

### WorkerRun and the code

A run is an idempotency key (the unique index makes the two the same).
`Enqueue` is `enqueueWorkerReview`'s transaction; a repeated key changes nothing.
`ClaimNext` is `claimNextWorkerRun` with its reaper. An invocation then goes through
`processClaimedWorkerRun`: `ReviewFound` or `ReviewCreate`, `Link`, `PlanFound` or
`Heartbeat` and `PersistPlan`, `CompleteCheck`, `CompleteWrite`. Whatever throws is
`Fail`, then `SettleCheck`, `SettleLost`, `SettleRetry`, `SettleFailed`; a dead
process is `Crash`. `completeWorkerRun` and `settleFailedAttempt` read the row without a
row lock and write it later by id, so each is two steps, between which the lease can
expire and another invocation can claim the run. The row triggers of the migration are
the guards of the second step.

| Variable | In the code |
|---|---|
| `origin` | the immutable columns: `sourceBoqVersion`, `plannerMode` |
| `run` | status, attempts, lease owner, lease expired, available, result linked |
| `journal` | `WorkerRunEvent` in order of `sequenceNumber` |
| `assignment`, `plan` | the `WorkerAssignment` of the run (its BOQ version, 0 for none), its `WorkerAIPlan` |
| `pc`, `held`, `attemptSeen` | an invocation: where it is, its run, the attempts it read when settling |
| `boqVersion` | version of the BOQ, raised by its editors |

Abstractions: lease and back-off times are booleans that turn at any moment
(`LeaseExpires`, `BackoffPasses`), which covers every early expiry of a skewed clock; `SKIP
LOCKED` lets the reaper pass over rows, so any subset of the exhausted runs is reaped;
the order of claims is left open; all runs are of one BOQ; a request that reused a key
for another BOQ is refused and changes nothing; the customer's answers to an
assignment's questions, and the CANCELLED status, which no code sets, are not modelled.

### RefundRequests and the code

Every transition of a request is a read, perhaps a second read in a transaction at the
default isolation level, and an update by id alone; each is a step. `RejectLoad`,
`RejectFresh`, `RejectWrite` are `rejectRefundRequest`. The approve route calls
`approveRefundRequest` and then `executeApprovedRefund`: one handler goes from `ApproveLoad` by
`ApproveFresh`, `ApproveWrite`, `ExecuteFind`, `ExecuteFresh`, `MarkProcessing` to the call to Stripe
(`CreateRefund`, `ReplayRefund`, `RefundRefused`), then `SettleSucceeded` or `SettleFailed`, and
`CancelSubscription`. `FindPayment`, `CreateRequest` and `GiveUp` are
`createRefundRequestCore`, whose transaction takes the payment's advisory lock and so is one step.
`HookFetch`, `HookFind`, `HookFindNone` and `HookWrite` are the webhook's transaction for
`charge.refunded` (`applyChargeRefundState`). A rollback (`HookRollback`) leaves the event to be
delivered again; an acknowledged event may come again too, which the ledger turns into nothing and the
model leaves out.

| Variable | In the code |
|---|---|
| `row` | `RefundRequest`: status, payment, action, and whether `approvedAt` and `rejectedAt` are set |
| `refund`, `sentBy`, `cancelled` | external: the refund of each payment, whose idempotency key made it, subscriptions cancelled |
| `asks` | a customer's handler between the eligibility check and its transaction |
| `pc`, `on`, `action`, `answer` | an owner's handler: where it is, its request, the action chosen, Stripe's answer |
| `due`, `hook` | events not acknowledged; the webhook's transaction for each |

Abstractions: a refund is of the whole amount; amounts, reasons, audit entries and mails are left
out; a refund made outside the application is `RefundElsewhere`; a cancellation that fails is only
logged and is one of the things `Crash` stands for; an idempotency key Stripe has forgotten
(after 24 hours) is not modelled, because no route executes a request again.

### ExtractionJobs and the code

An invocation (`Worker`) enqueues and, in the `after()` callback of the same invocation, processes: it is
one slot that goes through `FindStale`, `ResetStale`, `FindJob` or `CreateJob` (`enqueue` with its
recovery) to `Claim`, `ReadClaimed` and the handler (`processQueuedJob`), and ends in
`Complete`, `ReadFailed`, `Requeue`, `Fail`. `Claim` and every later write is conditional on the status
in the row, which is what the proofs rest on. A preparation's handler is the same slot with an
`outer` job: `RunSource` enqueues the source it reads, processes it in the same invocation or
waits for the one that does (`SourceSettled`, `SourceTimeout`), and goes on. `StartPrep` and
`RetryPrep` do not go through `enqueue`. `Cancel` is a user's. `Throw` is the handler's own exception, which the
queue retries or records; `CallFails` is a query or a call outside the handler that throws: what was written stays, a source that was claimed stays
RUNNING, and if a preparation made the call its own handler catches it. `Vanish` is an invocation that the platform ends
wherever it is, with all its jobs.

| Variable | In the code |
|---|---|
| `row` | `ExtractionJob`: status, what it is for (file and engine, or operation hash), `attemptCount` |
| `stale` | running jobs whose `updatedAt` is older than the cutoff |
| `pc`, `on`, `want`, `outer` | an invocation: where it is, its job, the source it enqueues, the preparation it is in |
| `faults` | bound only: how many invocations were lost and calls failed |

Abstractions: progress writes touch only `updatedAt` and are left out; the handler's checkpoint is the
guard of `RunSource`; what a source yields is its result status; each preparation has one source, where the code has
several one after the other; a second claim by the same `after()` callback is a no-op and left out. So is `NO_HANDLER_REGISTERED`
(`local-job-queue.ts:197-201`), which fails a claimed job with attempts left: the types that the services enqueue all have a handler
(`register-handlers.ts`, imported before every processing), so it cannot be reached, and `ImplementsLease` speaks of those types. `TurnStale` says a job turns stale only when nobody
executes it: the cutoff is 10 minutes and an invocation is ended after `maxDuration`, 300 seconds
(`local-job-queue.ts:24-32` relies on it).
Bounds: ids of jobs (`NoIdLeft`) and `MaxFaults`.

### TayqanHire and the code

`BeginCheckout` to `PersistHire` is `createTayqanCheckoutSession`, one interactive transaction
that holds the company's advisory lock while it talks to Stripe: `ListSessions`, `CloseOne`,
`CreateSession`, `PersistHire`. The transaction times out after 30 seconds, the lock is free, and the
request goes on (`CheckoutTimesOut`); its commit then fails (`PersistTooLate`), and since
only a commit hands out the URL, `handed` is written there. A webhook transaction is
`processStripeWebhookEvent`: for a session's event `FindBySession`, then `ApplyDay` or
`LinkMonth`; for a subscription's or an invoice's event `LockSubscription`,
`FetchSubscription`, `FindBySubscription`, `ApplySubscription`. The rows are found in one step and written
in another. The event is recorded in the ledger by the same commit (`Commit`); whatever rolls back
(`FetchFails`, `Refused`, `HookDies`) leaves it due. Events are a set: any order, any number of
deliveries until one commits.

| Variable | In the code |
|---|---|
| `session`, `sub` | external: Stripe's checkout sessions, and subscriptions with a count of their states |
| `due` | events that are not in the ledger |
| `handed` | sessions whose URL the company got |
| `hire`, `created` | `TayqanHireEntitlement` by order of creation; `asOf` is history: the state of the subscription it was written from |
| `desk`, `lock` | where each checkout is; who has the company's advisory lock |
| `hook` | the transaction of each event, with what it fetched and found |
| `starts` | history: how often `startsAt` was set for a day or week |

Abstractions: one company; tenant, price and environment checks refuse an event and change
nothing; a session of a month is the same thing as its subscription; the other events of a
subscription carry nothing that is used but its id, so a state has one event. `HireExpires` is a
read by the application that finds `expiresAt` past: for a month only when the subscription has moved on.
Bounds: `MaxVersion` and `MaxHires`; with the instance below the second is never reached.


## What the runs check

`tlc -config X.cfg M`; `PROJECT.json` names module and properties of each.

| Run | Instance | Shows |
|---|---|---|
| `BoqFinalize` | 2 requests, 1 revision, 1 line, 2 quantities, 2 rates, 3 versions | `VerificationCurrent`, `LockedIsAcceptable`, `ImplementsLedger`: a stale verification, resolution or editor never gets unreviewed content locked |
| `BoqFork` | 2 requests, 2 revisions, 1 line, 1 rate, 2 versions each, a trial of 2 BOQs | `SnapshotIsContent`, `LockedFrozen`, `RevisionsContiguous`, `CountedPerLock`, `AllowanceOverrun`, `CitedItemsExist`: what is locked stays, through forks, sample revisions and deletions next to it; a request counts a lock at most once, and the trial is overrun by less than the requests in flight |
| `BoqLines` | 2 requests, 1 revision, 2 lines, 2 sections, 3 versions | `DocumentClaimIsFresh`, `SectionsHoldItems`, `CitedItemsExist`: whole documents, copies and section deletions against each other |
| `WorkerInvocations` | 3 invocations, two with one name, 1 run, 3 attempts, 2 BOQ versions | `JournalTellsRun`, `WorkRecordedOnce`, `CompletedDelivers`, `RetriesBounded`, `EndedRunsFrozen`, `KeepsPromise`: late and repeated work of several invocations does no harm to the record, and who asked sees one answer or a run given up with every attempt spent |
| `WorkerSingle` | 1 invocation at a time, 2 runs, 2 attempts, fair | `EveryRunEnds`: with one drain at a time every run ends, however often it dies |
| `Refunds` | 1 request, 1 payment, 2 owners, 1 customer, fair | `RefundIsReal`, `RefundIsTold`, `ClosedForGood`: no answer lost and no order of writes records a refund that was not made; one that was made is recorded though the handler died; a closed request stays closed, whoever read it open |
| `Extraction` | 2 invocations, 1 source, 1 preparation, 2 jobs, 2 attempts, 2 faults, fair | `OneExecutor`, `OneActivePerTarget`, `AttemptsBounded`, `EndedStays`, `ImplementsLease`, `SourceSettles`: recovery, retry and cancellation against late invocations; whoever uses the queue sees leases |
| `Hires` | 1 day, 2 months with 2 states each, 2 checkouts | `OnePayable`, `StartsOnce`, `HireIsCurrent`, `NeverOlder`: events in any order and again, dying transactions, checkouts that outlive their lock |

Why the bounds are enough. A hazard of the BOQ core needs one stale reader, one
writer that overtakes it and, for the lock, a third version: two requests
(each starts over when done, so the number of requests made is not bounded), three
versions. Two revisions give a fork, a sample revision, and a locked and an open
revision side by side; their versions are fewer because a fork doubles everything
else. Two lines are what a copy, a citation and a partly listed document need. In
the review runs three attempts are the code's default; a third invocation allows
a claim between the two steps of another's settlement while a namesake works. The two
BOQ versions are "as enqueued" and "changed since". `BoqFork` and `BoqLines` take
one quantity or one rate because their properties do not compare values; those that do
are checked in `BoqFinalize`. Two owners are the two parties of every race in the refunds; with a
second request of the same payment the event may settle the other one, and
`RefundIsTold` says so in its condition. In the queue, two invocations are one that was overtaken
and one that overtook it; two faults are a lost executor and a lost recovery. Two checkouts
are what a lock keeps apart; two months are needed for a session to be left payable beside a
new one, two states for an old event to come after a newer one, and the events of a day (paid,
delayed, failed, expired) come in every order. The runs of `BoqFinalization` and `ExtractionJobs` check
deadlock; `WorkerRun` stops when every run has ended and the BOQ's versions are used up, `RefundRequests`
when the request is closed and the refund settled, `TayqanHire` when the checkouts are done and every event is recorded.

### Where the code and its words part

Each run below checks one sentence of the repository and TLC finds it broken. None of
them breaks a property above.

| Run | Sentence | Behaviour |
|---|---|---|
| `BoqAttested` | "never claim the old source as newly reviewed" (`estimate-integrity-service.ts:265`) | the same torn read in `duplicateBOQItem`: a quantity nobody confirmed is stored as confirmed |
| `WorkerEnds` | "bounds retries and fails terminally" (`worker-v1-durable-runner.test.ts:247`) | the same, at the last attempt: the run is QUEUED with no attempts left, which nothing claims or reaps |
| `RefundTwoOwners` | "a concurrent approve/reject on the same row is still only ever applied once" (`refund-execution-service.ts:61`) | the update is by id: a rejection lands on an approved request, whose refund is made all the same |
| `ExtractionStuck` | "Quantara preserved the job and will safely resume it" (`autonomous-boq-preparation-handler.ts:106`) | a preparation whose invocation is lost stays RUNNING: starting it finds it running, retrying refuses, and recovery is only for sources |

Other things met on the way, which no run is spent on:

- The read of `updateBOQItem` is torn like that of `duplicateBOQItem`: an edit that commits between the two queries
  passes the claim with the old item, although `boq-repository.ts:1140` says a stale preview cannot be applied.
- `createBOQRevision` forks an open revision, and two lock requests both pass the trial's check
  of one complete BOQ (`entitlement-service.ts:197` says the contrary of both). How far the trial can be
  overrun is `AllowanceOverrun`: by less than the number of requests in flight at once.
- A work order checks the revision and later inserts a section without a claim (`tayqan-work-order-service.ts:1498`, `:3027`): a locked revision can
  gain an empty section.
- With two owners an execution that read APPROVED earlier writes PROCESSING over SUCCEEDED; if it then dies the
  row stays open.
- Two events of a delayed payment handled at once: PENDING is written over ACTIVE (`tayqan-stripe-fulfillment-service.ts:237`).
- Two months paid before either's event is recorded: the subscription takes the latest waiting row, which
  may be the other's. `HireIsCurrent` and `NeverOlder` therefore speak of one paid month (`LoneMonth`).
- The expiry of a month's session leaves its PENDING row, and a conflict between two rows that
  are no longer PENDING makes Stripe deliver that event until it gives up.

## Fairness

Safety is checked without fairness. `FairSpec` of `WorkerRun` assumes that time
passes (`LeaseExpires`, `BackoffPasses`), that the scheduler the repository's README
asks for keeps draining the queue (`ClaimNext`), and that an invocation ends, if only by
dying with its process (`Proceed`, which includes `Crash`). It does not assume that any
attempt succeeds. Weak fairness is enough: a claimable run stays claimable until
someone claims it.

`FairSpec` of `RefundRequests` assumes that Stripe delivers an event until it is acknowledged
(weak fairness of `HookFetch`) and that a transaction that is tried again and again is not rolled
back every time (strong fairness of its other steps, which a rollback disables). Nothing is assumed of
owners and customers.

`FairSpec` of `ExtractionJobs` assumes that an invocation goes on (or vanishes, which is not
fair but bounded), that time passes (`TurnStale`), and that whoever waits for a source or a preparation asks for it
again: a work order enqueues its sources on every advance that finds them unfinished
(`tayqan-work-order-service.ts:1922-1945`), a user presses start or retry. These are strong because an invocation has to be
free for them. `SourceSettles` holds under it, and `PreparationSettles` does not even under it.

## What is proved

TLAPS checks, for any number of requests, revisions, versions, lines, sections, values,
invocations, runs, attempts, payments, owners, jobs, sessions and events, from the assumptions `ConstantsAssumption` and
`AtomsAssumption` of the modules (types of the constants; the markers differ from the
data they stand beside; `Request` of `BoqFinalization` and `Runner` of `WorkerRun` are finite, so that
those at work can be counted):

- `TypeCorrect`: `TypeOK` of `BoqFinalization` is invariant.
- `InductiveHolds`: the inductive invariant is.
- `VerifiedIsCurrent`, `FinalIsAcceptable`, `SnapshotIsFaithful`,
  `ClaimedDocumentIsFresh`: the four safety properties it contains or implies.
- `LockedStaysFrozen`: the action property `LockedFrozen`.
- `RequestsImplementLedger`: `Spec => Ledger!Spec` under the refinement mapping.
- In `BoqContentsProofs`: `InductiveContentsHolds`, a second inductive invariant on top of the first, and
  what it contains: `CitationsResolve`, `ItemsAreInSections`, `RevisionsAreContiguous`, `LocksAreCountedOnce`,
  `OverrunIsBounded`. With them every safety property that the runs of `BoqFinalization` find to
  hold is proved.
  What `BoqAttested` refutes has no theorem: it is false as soon as two requests overlap.
- For the review runs, in `WorkerRunProofs`: `TypeCorrect` (with it, no run is claimed beyond
  its maximum attempts), `InductiveHolds`, `JournalIsTrue`, `WorkIsRecordedOnce`,
  `CompletedRunsDeliver`, `EndedRunsStay`, `RetriesAreBounded`, whatever the number of invocations.
- `InvocationsKeepPromise`, in `WorkerPromiseProofs`: `Spec => Promise!Spec`, for any number of invocations.
- For the refunds, in `RefundRequestsProofs`: `TypeCorrect`, `RefundsAreReal`, and `ClosedIsForGood`,
  for any number of owners at once.
- For the queue, in `ExtractionJobsProofs`: `TypeCorrect`, `ExecutedOnce`, `NoDuplicates`,
  `AttemptsAreBounded`, `EndedJobsStay`, and `InvocationsImplementLease`: `Spec => Lease!Spec`.
- For the hires, in `TayqanHireProofs`: `TypeCorrect`, `OneSessionPayable`, `DaysStartOnce`,
  `HiresAreCurrent`, `HiresNeverGoBack`.

The argument for the BOQ core. `LockedIsAcceptable` is not inductive: the lock looks
at the verified version and the exceptions, not at the findings, so it needs
`VerificationCurrent`; that needs every document request to hold what is there
while its version is (`DocumentReads`); that needs every writer of items to make a
version nobody has read (`Claim` raises it, and `RowsDated` says no row is dated later
than its BOQ). `UnbornClean` says a revision number not used yet carries nothing that a fork
would inherit, and `SnapshotIsContent` stands on its own once locked revisions have no
writers. The conjunction is `Inductive`. The step proof goes per revision
(`RevisionOK`) and per request (`ReadOK`): a writer (`WriteKeeps`), a verification
(`VerifyKeeps`), a lock (`LockKeeps`), a resolution (`ResolveKeeps`) or a new revision
(`BirthKeeps`) keeps its own, and the others do not change. The refinement maps every
writer and every new revision to `Edit`, verification and resolution to `Review`, the lock
to `Finalize`, and reads, section insertions and counting to stuttering.

The argument for the contents of the revisions. What a request writes is `Sound`: an item it keeps or makes
is in a section that exists, and cites what it cited or items of its own revision that stay; and an item goes only if
nothing that stays cites it (`Deletable`, the foreign keys). A document is decided on what was read earlier, but
the claim makes sure that is what is there (`DocumentReads`, from the first invariant), so `Sound` need only be
shown of the rows in place. A fork writes into a revision that has nothing yet (`UnbornEmpty`), so its
citations are those of its source and one step back. Numbers stay contiguous because a fork or a sample adds the
number after the last, or the first (`CurrentNamed` says that the project points at one there is). A lock is counted by a request at most once: a request that has locked or
found a lock counts, and then starts over with a lock check that a locked revision does not pass, so completions and requests about to count
(`CountingLocks`) are at most one per request for each lock (`CountsBounded`). The completions counted plus
the requests that have passed the check and not counted yet never exceed what the check let
through (`AllowanceSpent`): a request passes only while the counter is below the maximum, so even if
all of them pass together they stay below the maximum plus their number.

The argument for the review runs. `CompletedDelivers` looks at what was done before
`CompleteWrite`, perhaps by another invocation, so it needs to be known what each program
counter presupposes (`StagesDone`), and that nothing it rests on is taken back (`Grew`: origin,
assignment and journal only grow). That a review is of the enqueued version and a plan only a
planner run's is `RowsEnqueued`. `JournalTellsRun` bounds retries by attempts although a late
`SettleRetry` may follow another invocation's claim or retry: every retry uses up one holder of
the run, and holders come only from claims, which count attempts, so retries plus
holders never exceed attempts (`AttemptsSpent`). That the journal is right about a run's end needs
that a run that ended is never written, which the guards of all writers give. The
conjunction with the properties is `Inductive`, split by run (`RunInv`) and by invocation
(`StageInv`); a step keeps a run it does not touch (`RunKept`), moves one with an event
(`RunMoves`), or records work in its journal (`RunRecords`). Only `Runner` need be
finite, for the holders to be counted.

The argument for the promise of the review queue. Each step of the invocations is, for each run, one of five turns (`Turns`):
most show nothing, a claim is a try, and the reaping that comes with it gives up other runs. What needs an invariant is that a run is given up only with its attempts spent,
although `settleFailedAttempt` decides on attempts it read earlier: a settling invocation has seen at most as many
as its run has (`SeenAttempts`), so what it saw exhausted still is. The other direction, that a run is not put
back with every attempt spent, does not follow, and is what `WorkerEnds` refutes. What does follow is `RetriesBounded`: when the last attempt is
claimed, retries and holders before it are at most the attempts before it (`AttemptsSpent`), and from then on only a
holder that had read fewer attempts can still retry, once each (`RetriesAhead`).

The argument for the refunds. A SUCCEEDED row needs a refund that exists, whoever writes it: a handler
that settles has an answer that tells of one (`OwnerInv`), a webhook transaction that writes has
fetched one (`HookInv`), Stripe never takes one back to "none", and the payment of a row never changes
once it is created (`Kept`). `ClosedForGood` asks more of the rereads: once a request
has ended and no handler is between a reread that found it open and its write, every reread finds it ended and
stops; what still writes are settlements and rejections, which end it again, and Stripe is not called. The condition is needed: the update is by id, so a handler
that has read an open row can still reopen it, which is how `RefundTwoOwners` goes wrong.

The argument for the queue. Whoever holds a job holds one that is RUNNING or CANCELLED and not stale
(`HeldLive`): a claim takes it from QUEUED, a recovery from stale RUNNING, a retry from FAILED,
NEEDS_INPUT or NEEDS_REVIEW, so none of them takes a held one, and `OneExecutor` follows; every
write of a holder is conditional on RUNNING, so ended jobs stay. `OneActivePerTarget` rests
on the serializable transaction of `CreateJob` and on a preparation having one job for ever (`OnePerPrep`).
`AttemptsBounded` needs that a RUNNING job nobody holds was lost, and a fault paid for the attempt
its recovery will cost (`RowInv`).

The argument for the leases. The mapping shows of a job its status, its attempts and, while it is RUNNING, who holds it.
Each step is, for each job, one of the turns listed as `Turns`: only steps of its holder write a running job,
except a cancellation and the reset of a stale one, which nobody holds (`HeldLive`). A vanishing
invocation may let go of two jobs at once, the source and the preparation around it, which is why a step of `JobLease`
speaks of every job. That a job is FAILED only with its attempts spent is decided in `ReadFailed` and written later;
in between nobody but a canceller writes the row (`SpentInv`).

The argument for the hires. `OnePayable`: who has the lock knows every session that
could be paid; they are those it has yet to expire and the one it keeps, so when it hands one out there is no
other; who lost the lock hands out nothing. `StartsOnce` follows the event that a day was paid, from Stripe to the ledger: starting and
recording are one commit. For the months the inductive invariant (`MonthInv`) says: an event due is
no newer than the subscription, and the state a transaction fetched lies between the two (`Fresh`); one
transaction per subscription is at work; a subscription has one row (`OneRow`); and while one month
at most was paid, no row is ahead of what the transaction at work fetched (`NotAheadOf`). So a write never takes
a row back, and the write of an event that is then recorded brings the row to a state no older than
the event's: if Stripe has a newer one, its event is still due.

Only model-checked: liveness (`EveryRunEnds`, `RefundIsTold`, `SourceSettles`), which is out of the
prover's reach. Every other property of a passing run is stated by a theorem.

## Not modelled, and the plan

Written so far, in order: `BoqLedger`, `BoqFinalization`, their proofs and refinement,
`WorkerRun`, `RefundRequests`, `ExtractionJobs`, `TayqanHire`, each with its proofs, and the abstract
`ReviewPromise` and `JobLease` with their refinements. What would come next:

1. `ClientProposals`: issue, accept, withdraw and expire against new revisions;
   documents that show a locked revision.
2. `TrialUsage`: the other counters (premium items at ReadCommitted, projects,
   proposals); upload sessions and import jobs as small modules of their own.
3. Checkout of software subscriptions and industry packages, which share the webhook's transaction but have
   eligibility rules of their own; Stripe catalogue synchronisation.
4. The stages of a TAYQAN work order, as a client of `ExtractionJobs` and of `BoqFinalization`'s claim.
5. `WorkerRun` composed with the BOQ's writers for the version pin, in place of `EditBoq`.

Left out for good: authentication (a session lookup per request), rendering, provider
I/O, geometry and measurement, wording of messages and documents. A client's own copy
of a document is outside the protocol: `updateBOQ` claims the version it has
just read, not one the client saw, so a client can overwrite edits it never saw, which the
model allows as one more document.
