# SovLend in TLA+

A verification project for the SovLend loan and savings platform: TLA+ modules of its core, TLC
configurations that check them on small instances, and TLAPS proofs for every value of the
constants. Paths below are relative to the repository root unless they name a module.

## 1. The system

SovLend is a Next.js application over PostgreSQL (Prisma) with a worker process (`src/worker.ts`)
over Redis queues (BullMQ). Every operation that moves money runs in one database transaction, most
of them at the Serializable level, and writes business rows, a double-entry journal, an audit event
and an outbox event together. Three kinds of actors meet on the same rows:

- users, through API routes: several requests at once, retried with an idempotency key;
- the worker: nightly jobs (00:15 arrears, 00:30 late fees, 00:45 interest accrual, 05:00 reminders,
  06:00 standing orders), queue consumers with retries, the outbox loop;
- other services: SMS gateway, Lightning gateway with a webhook and a poll, price providers.

What is hard is what lies between a read and the transaction that uses it. A handler checks
permissions, status, pending requests or a key, and then opens its transaction, which may or may not
look again. A job reads a page of installments and then posts them one by one. The worker adds a
job to a queue and then marks the row.

### Inventory

| Component | State | Operations | What makes it correct | Modelled in |
|---|---|---|---|---|
| Repayment allocation | none (pure) | `allocateRepayment` | nothing lost, nothing paid beyond its due | `RepaymentAllocation` |
| Loan servicing | loan status, installments, loan transactions and allocations, journals | repayment, transfer from savings, settlement, cancellation, undo, rescheduling; charge waiver | paid columns equal standing payments; books reconcile; status follows the money | `LoanServicing` (without the waiver) |
| Maintenance jobs | the accrued / assessed marks of installments, loan status | accrual, late fees, arrears | a row is posted once, from figures that still hold; no closed loan reopens | `LoanServicing` |
| Standing-order sweep | notices, request keys, the repayment | scan, enqueue, sweep, sweep after a deposit | collects what is due and no more; one payment a day; one notice | `LoanServicing` (money side) |
| Savings accounts | account status, transactions (balance is their sum) | approve, deposit, withdraw, transfer, credits and debits of loans | balance equals the ledger's liability; never negative | `LoanServicing` (one account) |
| Servicing requests | request rows | request, direct cancel, approve, reject, direct undo | four eyes; effects exactly with approval; one pending request | `ServiceRequests`, `FourEyes` |
| Outbox publication | outbox rows, queue | read batch, add, mark | at least once to the queue, at most one job | `Outbox` |
| General ledger | journals, closures, provisioning, opening balances | post, close, provision, migrate | balanced; nothing posted into a period seen closed; nothing posted twice; the provision follows the arrears | `AccountingPeriod` (one office; not the lines of a journal), `LoanServicing` (savings liability) |
| Origination, disbursement | application and loan rows, approvals, schedule, fees, charges | submit, edit, approve, reject, return, delete, fee edit, disburse, undo; top-up | one standing approval; the approved amount is paid out once, by a third user; the two rows agree; top-up settles the old loan | `LoanOrigination`, `ThreeHands` (without fees, schedule arithmetic and top-up) |
| Reminders, notices | reminder and notification rows, queue jobs | scan, send, record; notices of sweeps | a reminder on the right day, sent once unless something goes wrong, and recorded as it went | `Reminders` (repayment reminders) |
| Donations, investments | commitments, donation requests, invoices | create invoice; settle by webhook, by the payer's page, by the scan | settled once, only if paid, and in the end if paid | `LightningSettlement`, `FundedOnce` |
| Pricing, BTC accounts, identity, reports, routes, UI, migrations | caches, role tables, none | queries, imports | outside the core | not modelled |

Components call each other directly; the shared state is the database. Callbacks are the queue
consumers and the Lightning webhook. The hazards of this code, each at its line, are in
`PROJECT.json`, with the properties that would catch them going wrong.

## 2. Modules

| Module | Contents |
|---|---|
| `RepaymentAllocation` | the waterfall over installments and buckets |
| `LoanServicing` | one loan, its repayments, jobs, servicing actions, savings account and savings liability |
| `FourEyes` | abstract promise of servicing requests |
| `ServiceRequests` | the request and decision handlers; implements `FourEyes` |
| `ThreeHands` | abstract promise of origination |
| `LoanOrigination` | one application and the loan it becomes, up to its payout and the undo of it; implements `ThreeHands` |
| `Outbox` | the worker's outbox loop |
| `FundedOnce` | abstract promise to an investor |
| `LightningSettlement` | invoices of investments and donations, from the request to the settlement; implements `FundedOnce` |
| `AccountingPeriod` | the journals and closures of one office |
| `Reminders` | the reminder scan, its queue and its workers |
| `MCLoanServicing`, `MCServiceRequests`, `MCLoanOrigination`, `MCAccountingPeriod` | instances for TLC (schedule, fee rule, symmetry) |
| `*_proofs` | theorems and their proofs |
| `Sums` | lemmas on sums over finite sets, for the proofs |

### How the code maps to actions

A Serializable transaction is one action: PostgreSQL lets it commit only if it is equivalent to
running alone. What the code reads before opening it belongs to an earlier action, which leaves what
was read in a variable (`requests`, `job`, `submitting`, `deciding`, `batch`), and the transaction
uses that value as it was. A transaction that throws changes nothing: it is an `Abandon`, `Lose` or
`Abort` action, which stands for a crash at that point as well.

**LoanServicing.** `StartRepayment` is `postRepayment` / `transferSavingsToLoan` up to the
transaction: unused key, open status. `CommitRepayment` is the transaction: a key that exists by now
returns the recorded payment, a transfer checks the balance, and `ApplyRepayment` allocates, sweeps an
overpayment to an active savings account or keeps it on the overpayment liability, posts and sets the
status. `SweepStandingOrder` is the whole sweep: it reads everything inside its own transaction. Each
of the three jobs has a scan action, which leaves the computed amounts in `job`, and a posting action
per row or loan, guarded as the code guards it. `SkipRow` is a row whose posting hits a closed period.
`Prepay`, `Foreclose`, `ReverseRepayment` and `UndoDisbursal` are the executors of an approved
request. A change of due dates runs at the default isolation level, so it is two actions:
`StartDateChange` reads the loan, finds the locked installments and computes the status,
`CommitDateChange` is its guarded updates. The guard on `loan.updatedAt` is `DateChangesKept`: a step that
writes the loan row empties `dateChanges`, since what waits there could only fail. The several SELECTs of its
read are taken as one, and the pending charges it moves along are left out. `Deposit`, `Withdraw` and `ApproveSavingsAccount` are the borrower's account.
The journal is kept as what the properties need: the amount of the accrual and late-fee journals of a
row (`accrued`, `assessed`), which rows a payment credited to the receivables, where its overpayment
went, and the balance of the savings liability account.

Dates are days. The code compares `dueOn` (midnight) with a business date with `<` in a repayment and
with the end of today with `<=` in the sweep and the arrears job; `DueBefore` and `DueBy` keep that
difference. A user command carries any business date.

**ServiceRequests.** `Submit` and `Decide` are the checks; `CommitSubmission`, `CommitApproval` and
`CommitRejection` the writes. The loan is what the handlers look at: status, which repayments
stand, whether a settlement exists. Every other reason for an executor to throw (closed period,
spent savings, missing account) is `LoseSubmission` / `LoseDecision`. Users hold permissions as
constants: an officer who may only request, a checker, a manager whose role bypasses maker-checker, a
user who may cancel repayments directly.

**LoanOrigination.** The application and the loan are two rows, and every handler updates them with
`updateMany ... where updatedAt` is what it expects (optimistic locking); `version` stands for
`updatedAt`, a counter instead of a millisecond timestamp. A handler whose guards name all the rows it
decided on (`Edit`, `Submit`, `Reject`, both returns, `EditFees`) is one action. Three rely on more than
they guard and are two: `StartApproval` / `CommitApproval` (an application and an earlier loan, read
before the transaction), `StartDisbursal` / `CommitDisbursal` (approvals, submitter, terms and principal,
guarded by the loan row alone) and `StartDelete` / `CommitDelete` (the loan's history, guarded by the
application row alone; `Unreferenced` is the foreign keys that stop it). A commit whose guard fails is
`Lose`. Commands that only touch `updatedAt` (assigning an officer, guarantors, collateral) make a commit
fail too, and are covered by it. `Undo` is the executor; payments on the loan, which forbid it, are in
`LoanServicing`, and who may ask for it in `ServiceRequests`.

**ThreeHands.** Maker, checker, approved amount, standing payout. The refinement mapping reads them off the
two rows, the approvals and the installments.

**Outbox.** `Commit` is any command's transaction. A worker reads a batch (`ReadBatch`), and for each
event adds the job (`AddJob`) and marks the row (`MarkPublished`); `CutShort` is an error, a crash or
a shutdown at any point. BullMQ ignores an `add` whose job id it holds: that is external, and holds
while the job is kept (nothing in the repository consumes `domain-events`, and completed jobs are
removed only beyond 1000).

**LightningSettlement.** A request that creates an invoice is three actions: what it does before the gateway
call (`StartInvestment`, `StartDonation`), the call (`Issue`) and the transaction (`RecordInvestment`,
`RecordDonation`); `Abandon` is an error or a crash between them, which may leave an invoice at the gateway
that no row knows. A settler (a webhook delivery, an investor's check, the donor's page, the scan) is two:
finding that an invoice is paid (`Webhook`, `CheckInvestment`, `CheckDonation`, `ScanNext`), which leaves the
invoice in `settling`, and `Settle`, the guarded transaction. A webhook may come late, more than once, or
never: `Webhook` is enabled as long as the invoice is paid and its row is NEW, and nothing obliges it to
happen. `listed` is what `isSettled` sees, the 50 latest transactions; `Unlist` takes a payment off it.
`Age` is a donation's invoice passing its last minute (no longer reused) and the fifth minute after its
expiry (no longer asked about). Investments' invoices are asked about whatever their age.
`Succeed` is the donor's page reporting a payment on another chain.

**FundedOnce.** Open, paid, received with one announcement. The refinement mapping reads it off the
commitment's status and its paid invoices.

**AccountingPeriod.** Every command is a `Start` action (key, period, latest provision: all read before the
transaction) and a `Commit`; `Abandon` is a key that is taken by then, an error or a crash. The three
handlers that post under a key share `CommitEntry`, because they share the unique key. `seen` counts the
closures there were when a period was checked, and `known` holds the dates posted when the latest provision was
read, which lets properties say what the reads are worth. The reads of a provision are one action although
the code awaits between them: the key is decided again at the commit, by the unique index; the latest posting
is read before the period is checked, and closures are never removed, so a period open at the check was
open at the read: the model admits every order of the code, and knows the fewest closures.

**Reminders.** `StartScan` is the query of the scan and `AddJob` each `queue.add`. A worker takes a job
(`Take`), drops it (`Skip`) or sends the SMS (`Send`), and records it (`Record`, the transaction). `Send` has
three outcomes: accepted, refused, and accepted with the answer lost, which `sendSms` reports as a failure.
BullMQ is external: a job that throws waits for its next attempt (`Fail`, with a transaction that may have
committed), a worker that stops leaves its job to the stalled check (`Crash`, `Recover`), one that is too busy
to renew its lock loses the job and goes on (`LoseLock`), and old jobs are dropped (`Forget`). `Service` is
anything that happens to the installment meanwhile. Day numbers stand for midnight and a scan runs five hours
later, hence the `- 1` in `Kind`, and the window that leaves out the due date exactly `Back` days ago.

An operator named `Something_Mistake` precedes `Something` and is `Something` with a plausible bug. No
specification uses it; substituting it must break the property `PROJECT.json` names beside it.

### Assumptions of the models

- One maintenance worker runs one job at a time (BullMQ's default concurrency for that worker).
- The savings routes always name a settlement account, so a deposit or withdrawal always posts a
  journal; no caller sets `allowNegativeBalance`.
- A loan the program disbursed has its journal and, unless deductions took all of the proceeds (`Payout` is
  0), its savings credit; an imported one has neither, and no undo.
- After an undo the loan of `LoanServicing` ends at APPROVED; a new disbursement is a new instance.
- The reminder scan runs at 05:00 UTC (`docs/ARCHITECTURE.md:102`).
- `Reminders` has one `Service` step per instance and takes each outcome of it as possible; a loan of a group has
  no reminders.
- A rejected `queue.add` and a rejected gateway call leave nothing behind.
- The savings account belongs to the loan's borrower; loans of a group differ only in whose it is.

## 3. Runs

| Run | Instance | Result |
|---|---|---|
| `LoanServicing` | 2 installments (principal 1 due on day 0, interest 1 due on day 1), flat late fee 1, 2 keys, payments up to 2, 1 command or date change in flight, the whole schedule moved a day, 2 days | passes |
| `ServiceRequests` | 2 requests, 4 users, 1 repayment, 2 commands in flight | passes |
| `LoanOrigination` | 4 users (officer who may do everything but alone, checker who may also pay out, manager, teller), 2 amounts, 2 disbursement keys, 2 commands in flight, 5 updates of each row | passes |
| `Outbox` | 3 events, 2 workers, batches of 2, 2 failures | passes |
| `LightningSettlement` | 1 commitment, 1 donation, 2 invoices, 2 requests, 1 handler and the scan, 1 scan cut short | passes |
| `AccountingPeriod` | 2 clerks, 3 days, 1 key, 1 account, provisions of 1 or 2, 2 closures | passes |
| `Reminders` | 1 installment, 2 days, 2 workers, 2 attempts, 1 stall, 1 change of the installment, 2 mishaps | passes |
| `RepaymentOnlyOnOpenLoan`, `InterestRecognisedOnce`, `PaidRowsKeepTheirDates`, `UndoneScheduleNeverAllocated` | as `LoanServicing` | violated |
| `DueTodayIsToday` | as `Reminders`, 3 days | violated |

**Why the bounds suffice.** Two installments are the smallest schedule in which one is overdue while
the other is not, and in which a remainder is carried. With a principal of 1, an interest of 1 and a
late fee of 1, a payment of 2 can pay short, exactly, or too much. Two keys give two standing payments,
or a payment and one that overtakes it; one command in flight suffices because sweeps, settlements,
cancellations and jobs interleave with it without being in flight themselves. Two days let an installment fall due after
another command was checked. One postponement moves both rows, so that it is refused as soon as either is
locked, and leaves the second beyond the last day. In `ServiceRequests` two requests and two commands in flight are the
smallest instance with two makers, two deciders or a decision racing another; one repayment makes the
two requests compete for it. In `LoanOrigination` five updates are an approval, a return, a new approval, a
disbursement and its undo, or two disbursements and an undo of the first; two amounts tell a payout of an
earlier approval from one of the standing approval; two commands in flight race each other, and a third
overtakes both in one action. In `Outbox`, three events over batches of two make one event wait
behind others. In `LightningSettlement` two requests are what races one key, and a handler and the scan are two
settlers of one invoice; two invoices go to the commitment and the donation, or leave one that was issued and
never recorded. The donation's cap is 1, so its check is met; two requests in flight exceed it. In
`AccountingPeriod` two clerks are a check overtaken by a commit; three days and two closures allow closures
in the wrong order with a journal before, between and after them, and a provision posted before
an earlier date's. In `Reminders` two workers hold one job after a lost lock, two days give the kinds OVERDUE
and DUE_TODAY (three add DUE_SOON; the kinds differ only in the id), two mishaps exhaust the attempts, or
combine a lost lock with a failed transaction.

**Deadlock.** In `LoanServicing` it is checked. In the others it is not: keys, requests, repayments, events, invoices,
days and updates of a row are finite, so the instance ends when they are used up.

**Fairness.** `Outbox` states `WF_vars(Publish(w))` for each worker: the loop of `run` waits for nothing but
its own calls and a one-second timer, and an error is caught and logged. `LightningSettlement` states
`WF_vars(ScanStep)`: the scheduler starts a scan every two minutes and a pass waits only for its own calls; no
fairness is assumed of webhooks, payers, pages or requests. `Reminders` states `WF_vars(Work(w))` for each
worker and `WF_vars(Recover(j))` for each job: a worker takes jobs while there are any, and the queue looks
for stalled jobs periodically; no fairness is assumed of scans. `MaxFailures` and `MaxMishaps` say that
failures end; without them a worker that fails forever gets nothing done, as the code would.
Nothing else here must eventually happen: users may always stop.

### What the passing runs show

- `SavingsReconcile`: the journal moves the savings liability, and other code writes the savings rows;
  they agree after every sweep, transfer, overpayment, cancellation and undo.
- `PaidMatchesPayments`, `PaidWithinDue`, `PaymentAccountedFor`, `PenaltyReceivableCovered`: the
  schedule, the payments and the journals tell one story, although the late-fee job posts amounts
  computed before payments that overtook it.
- `OverpaidHoldsLiability`, `ServicedOwes`, `ReopensOnlyByReversal`: the status follows the money.
- `SweepsOnlyWhatIsDue`: a standing order never pays ahead.
- `ApprovedHasEffects`, `PaymentCancelledOnce`, `EffectsOnlyWhilePending`, `FourEyesKept`: approvals take
  effect exactly once, by a user entitled to decide.
- `RowsAgree`, `OneStandingApproval`, `OnePayout`, `ThreeHandsKept`: the reads outside the guards of
  approval, disbursement and deletion do no harm. The loan's version changes with every approval and return,
  so a disbursement whose guard holds still has its approver and its amount; a deletion that missed a
  disbursement hits a foreign key.
- `PublishedIsQueued`, `OneJobPerEvent`, `EventuallyPublished`: the outbox.
- `PaidRowWasPaid`, `ReceivedOnce`, `FundedOnceKept`: whoever settles first wins and the others do nothing, as
  `settle-lightning-invoice.ts:5-11` says. `CommitmentFollowsInvoice` rests on the unique key of the
  commitment's invoice: of two requests that come back from the gateway, the second fails before it
  can set a paid commitment back. `PaidDonationSucceeded`: a donation has no such key, and a late request writes
  its row, but not the status. `ListedIsSettled`: the scan finds a payment no webhook announced, provided
  the gateway still lists it and, for a donation, its invoice is not yet five minutes past its expiry.
- `CheckedAgainstClosures`: the period check compares with the latest closing *date*, so two closures created
  in the wrong order do not open a period again. `ReserveMatchesPostings`: the provision account moves by what the
  rows say. `DriftExplained`: by how much every provision moves the account away from what the latest date
  requires. One for the newest date adds only what was posted between its read and its write, and repairs
  nothing; a back-dated one counts its whole difference twice. `PostedStays`: a repeated command replaces nothing.
- `ResentOnlyAfterMishap`: `docs/ARCHITECTURE.md:102` says repeated scans and retries create no duplicate notices.
  For scans that is so; a retry sends the SMS again, and the invariant says exactly how often.
  `RowTellsWhatHappened`: overtaking workers may overwrite each other's row, but never claim an SMS nobody
  accepted. `EventuallyOver`: no job lingers.

What the models show beside these, without a run of its own: a flat late fee is charged on an installment that is
already paid, although `ACCOUNTING_AUDIT.md:94` speaks of currently overdue installments; one clerk who posts a
day's provision and then an earlier day's leaves the account holding more than any day requires, and
no provision for a newer day brings it back, although `post-provisioning-entry.ts:31-43` says that running it repeatedly
never double-counts (`DriftExplained` states the amount); an investment repeated under its key at another price keeps the first
amount on the commitment and asks for the second on the invoice; a journal may land in a period closed after its
check; two servicing requests can be pending on one loan, and one user with the right permission can undo a
disbursement directly.

### Findings

Each is a run with `expect: violation`; `PROJECT.json` quotes the line it contradicts.

1. A repayment checked on an open loan is posted after the loan closed (`RepaymentOnlyOnOpenLoan`).
2. The interest of an installment is booked as income twice: a collection overtakes the accrual job,
   or a settlement credits income on an accrued row (`InterestRecognisedOnce`).
3. An installment whose payment commits while its date is being changed is moved all the same
   (`PaidRowsKeepTheirDates`).
4. An undo after a cancelled repayment passes its checks and fails on the foreign key of the
   allocation rows (`UndoneScheduleNeverAllocated`).
5. The reminder that says a payment is due today is sent the day before, and on the due date the client is told
   it is overdue (`DueTodayIsToday`).

## 4. Proofs

| Theorem | Statement |
|---|---|
| `LoanServicing_proofs!TypeCorrect` | `Spec => []TypeOK` |
| `LoanServicing_proofs!LiabilityReconciles` | `Spec => []SavingsReconcile` |
| `LoanServicing_proofs!NothingOverpaid` | `Spec => []PaidWithinDue` |
| `LoanServicing_proofs!OnlyReversalReopens` | `Spec => ReopensOnlyByReversal` |
| `LoanServicing_proofs!PaymentsExplainPaid`, `EveryPaymentAccountedFor` | `Spec => []PaidMatchesPayments`, `Spec => []PaymentAccountedFor` |
| `LoanServicing_proofs!OverpaidIsHeld` | `Spec => []OverpaidHoldsLiability` |
| `LoanServicing_proofs!ServicedLoansOwe` | `SomethingLent` implies `Spec => []ServicedOwes` |
| `LoanServicing_proofs!StandingOrdersTakeWhatIsDue` | `Spec => SweepsOnlyWhatIsDue` |
| `LoanServicing_proofs!PenaltyCollectionsBounded` | collections from a row's penalty receivable stay within what the job booked and what the row began with |
| `LoanServicing_proofs!PenaltyCollectionsCovered` | `WithoutPenalties` implies `Spec => []PenaltyReceivableCovered` |
| `LoanServicing_proofs!PaymentsRecordedOnce` | a recorded payment is never replaced, and cancelled at most once |
| `LoanServicing_proofs!InterestTwiceAtMost` | a row's interest is income at most twice: the bound on finding 2 |
| `LoanServicing_proofs!AllMoneyAccountedFor` | what the standing payments brought in = paid on the rows + swept + retained |
| `LoanServicing_proofs!PrincipalAlwaysReconciles` | `SomethingLent` implies that the principal receivable is the principal the rows show as outstanding |
| `LoanServicing_proofs!WaterfallDetermined` | a payment has exactly one allocation |
| `ServiceRequests_proofs!Typed` | `Spec => []TypeOK` |
| `ServiceRequests_proofs!ApprovedRequestsTookEffect` | `Spec => []ApprovedHasEffects` |
| `ServiceRequests_proofs!CancelledOnce` | `Spec => []PaymentCancelledOnce` |
| `ServiceRequests_proofs!EffectNeedsPending` | `Spec => EffectsOnlyWhilePending` |
| `ServiceRequests_proofs!HandlersKeepFourEyes` | `Spec => FourEyesKept` |
| `ServiceRequests_proofs!ExecutedByEntitled`, `ExecutedOnce` | from the refinement: who carried out a request was entitled to, and stays the only one |
| `LoanOrigination_proofs!OriginationTyped` | `Spec => []TypeOK` |
| `LoanOrigination_proofs!RowsAlwaysAgree` | `Spec => []RowsAgree` |
| `LoanOrigination_proofs!ApprovedByOne` | `Spec => []OneStandingApproval` |
| `LoanOrigination_proofs!PaidOutOnce` | `Spec => []OnePayout` |
| `LoanOrigination_proofs!HandlersKeepThreeHands` | `Spec => ThreeHandsKept` |
| `LoanOrigination_proofs!FilesStayInOrder` | from the refinement: approval by an entitled user, payout of its amount, no payout under a deleted file |
| `Outbox_proofs!Typed`, `PublishedReachedQueue`, `QueuedOnce`, `MarkedOncePerWorker` | `TypeOK`, `PublishedIsQueued`, `OneJobPerEvent`, and no more marks per event than workers |
| `LightningSettlement_proofs!Typed`, `PaidOnlyIfPaid`, `CommitmentAgrees`, `AnnouncedOnce`, `PaidGiftStands` | the five invariants of the run |
| `LightningSettlement_proofs!PromiseKept` | `Spec => FundedOnceKept` |
| `AccountingPeriod_proofs!Typed`, `JournalsKeepClear`, `ReserveIsPosted` | `TypeOK`, `CheckedAgainstClosures`, `ReserveMatchesPostings` |
| `AccountingPeriod_proofs!DriftAlwaysExplained` | `Spec => DriftExplained` |
| `AccountingPeriod_proofs!NothingReplaced` | `Spec => PostedStays` |
| `Reminders_proofs!Typed`, `RowsTold`, `SentOncePerMishap` | the three invariants of the run |

They hold for every number of installments, keys, users, requests, events and workers, every schedule
and fee rule, under the named assumptions of the modules (`NAssumption`, `ServicingAssumption`,
`RequestAssumption`, `OriginationAssumption`, `OutboxAssumption`, `LightningAssumption`, `PeriodAssumption`,
`ReminderAssumption`, `NoneAssumption`). Two theorems of a loan have a hypothesis on its schedule beside them.
`SomethingLent`: the schedule owes something in all, as every schedule with a principal does. `WithoutPenalties`: no
installment starts with a penalty, as none does that `disburse-loan.ts:733` creates. An imported loan may bring one
along (`src/migration/import-loans.ts:150`); a collection of it is credited to income as long as the late-fee
job has not marked the row, and after that all of it to the receivable, more than the job debited to it.
`PenaltyCollectionsBounded` says, without the hypothesis, how much more: the penalty the row began with.

**Sums.** The paid columns, the statuses and the reserve are sums over sets of payments, rows and days, and most of
the proofs are about how one step moves such a sum. `Sums` proves what they need of `SumFunctionOnSet`: that
its recursion has exactly one solution, one element more or less, one value changed, sums of sums and differences, a part of a sum of naturals, the exchange of two
summations. The provers cannot instantiate the induction theorems of the library, so each lemma is
proved by a smallest counterexample: the cardinalities of the finite sets on which it fails are a
set of naturals, a nonempty one has a least element, and taking one element away from that set contradicts it.

**LoanServicing.** `TypeOK` alone is not inductive: that a cancellation leaves non-negative columns rests on
the amounts of recorded payments, and that the waterfall never takes more than is owed on
`paid <= due`. The first lemmas are about the waterfall: what a row gets is a natural number in each bucket, no
more than is owed and, in total, no more than is left; and with something left after a row, the row got all it owes.
The inductive invariant is a conjunction, each part preserved action by action:

- `TypeOK`, `DatesAscend` (what a date change is about to write keeps the installments in order), `SavingsReconcile`
  and `PaidWithinDue`. The late-fee job only raises a due column and the other commands keep paid below it, so the
  figures the job holds need no relation to the rows.
- `FewPayments` (there are finitely many standing payments, so that their sums exist) and `PaidMatchesPayments`. A step
  either records one payment under a new key, or cancels a standing one, or leaves the payments alone
  (`PaymentSteps`); the first two move the sum of an allocation and the paid column by the same amount.
- `PenaltiesAssessed`: a row owes no more penalty than it began with and the job booked. With the two above it bounds
  what collections credit to the receivable, which is a part of what is paid.
- `ArrearsJobFromServiced` (a scan in flight read an open loan and never computed OVERPAID) and
  `DateChangesNeverOverpay`: with them `OverpaidHoldsLiability` and `ServicedOwes` are inductive. A payment that leaves
  a loan open leaves a positive balance behind; one that clears it closes it in the same transaction.
- `InterestWithinSchedule`: neither the accrual of a row nor what a scan holds for it exceeds its scheduled
  interest. With `PaidWithinDue` this gives the factor of two.
- `RowsStand` or `RowsDeleted`, and `NoPrincipalWaived`: the rows keep their scheduled principal until an undo deletes
  them, and no late-fee job is left to write rows that are gone. A scan starts on a serviced loan only, and by
  `ServicedOwes` that one has its rows.

`OnlyReversalReopens` follows from the guard of the arrears update, and from a repayment leaving CLOSED and OVERPAID
alone or moving between them. `StandingOrdersTakeWhatIsDue` follows from the waterfall: a sweep takes at most what the
rows due by the end of the day still owe; if something were left after them, each would have got all it owed, and
together more than the sweep took. `AllMoneyAccountedFor` and `PrincipalAlwaysReconciles` exchange two
summations, over the payments and over the rows; the latter is the comparison `src/scripts/reconcile-ledger.ts`
makes (its check 3b), so it says what that script can count on.

**ServiceRequests.** The inductive invariant relates a row's status to `executedBy`: approved exactly
if executed and not overwritten by a late rejection; an unused id has no effect; an executed cancellation
targets a cancelled repayment, and two of them never share one. The refinement maps a row to its
proposal (type and maker), forgetting its status; every handler step is a step of `FourEyes` or a
stutter, because a decision in flight was checked against a row that no step rewrites. `ExecutedByEntitled` and
`ExecutedOnce` are proved of `FourEyes` and carried to the handlers by the refinement.

**LoanOrigination.** The four invariants are inductive only with what the commands in flight know.
`ApprovalsAsRead`: if the application is still submitted at the version an approval read, its user may give
it. `DisbursalsAsRead`: if the loan is still approved at the version a disbursement read, the principal is
the loan's and the user may still pay it. Both hold because versions only grow and nothing they depend on
changes without them: a submitter changes only while the application is a draft, and by `RowsAgree` the
loan is not approved then. The refinement maps a commit of an approval to `Approve`, of a disbursement to
`Pay`, of a deletion to `Delete`; everything read before is a stutter. `FilesStayInOrder` is an invariant of
`ThreeHands` carried to the rows the same way.

**Outbox.** What a worker has added and not marked is in the queue, what a batch holds is committed, and a
worker that has already marked an event is not holding it; the last gives the bound on attempts.

**LightningSettlement.** The invariant has three parts. `Issuing`: an invoice a request holds is unrecorded and
held by it alone, and a commitment has at most one recorded invoice. `Paying`: a settler holds only paid
invoices, and only recorded ones are paid. `Following`: `CommitmentFollowsInvoice` and `ReceivedOnce`. A settler
that comes second finds the row PAID; one that comes first moves the invoice, the commitment and the
event together, and by `Issuing` no other invoice of that commitment can move it again.

**AccountingPeriod.** What a command in flight carries was checked against the closures it saw
(`CommandsChecked`), and closures are only ever appended, so the journal keeps clear of the same ones when it is
written. `ReserveMatchesPostings` holds because journal and row are written by one transaction; that the amount
of a journal is positive (`TypeOK`) needs the latest of the dates posted earlier, which exists
because there are finitely many (`Greatest`). `DriftExplained` needs one invariant more, `ProvisionsRead`: what a
provision in flight subtracts is what the latest earlier date it knew requires, still, because rows are never
replaced (`RequiredKept`). A commit then moves the reserve by its row's difference (`ReserveMoves`, one term of
the sum over the days), and the latest posted date to its own only where it is the newest (`LatestWith`).

**Reminders.** For each job id, the messages accepted, plus the workers that hold the job and have not sent,
plus one if some worker may still take it, are at most one plus the mishaps (`Balance`). A worker
that takes a job moves the last summand to the second, one that sends moves the second to the first, and
every step that lets a job be taken again is a mishap or follows one that left nobody at it.

**Only model-checked.** `EventuallyPublished`, `ListedIsSettled` and `EventuallyOver`: liveness under fairness and
ENABLED are out of the prover's reach. Every other property of the passing runs is proved.

## 5. Not modelled

Charge waivers and write-offs; fees, charges and expiry at disbursement; top-ups; transfers between
savings accounts; the lines and balance of journals other than those named above; accounting rules
and their accounts; postings of an organization without an office; currencies and rounding of conversions; the
notices of sweeps; creation of donation requests, access of investors to organizations; audit rows; the components
of the last rows of the inventory. Reports, routes, UI and migrations keep no state of their own that a
concurrent step could break. They are most of the repository's lines, which is why the modules map
a small share of all lines and most of the lines of the components they model.

## 6. Plan

Next, in this order:

1. Charge waivers: a charge set back to pending between the check of a refund and its transaction.
2. `LoanOrigination` extended: two loans and the top-up that pays off the earlier one; composed with
   `ServiceRequests`, so that an undo request left pending over a second disbursement has an identity to miss.
3. `Reminders` extended by the job ids and notices of standing-order sweeps.

Theorems to add: the invariants of these extensions, and the principal and penalty receivables of an imported loan once
the journals of the import are modelled.
