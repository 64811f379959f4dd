--------------------------- MODULE LoanServicing ---------------------------
(***************************************************************************)
(* One disbursed loan of lending/, from disbursement to closure: teller    *)
(* repayments, savings-to-loan transfers, standing-order sweeps, the three *)
(* nightly jobs (interest accrual, late fees, arrears), full settlement    *)
(* (prepay, foreclosure), cancellation of a repayment, change of the due   *)
(* dates and undo of the disbursement; with the owner's savings account    *)
(* and the savings liability account of the general ledger.                *)
(*                                                                         *)
(* A Serializable database transaction is one action.  What the code reads *)
(* before it opens the transaction is an earlier action that leaves what   *)
(* it read in `requests' (user commands) or `job' (the maintenance worker, *)
(* which runs one job at a time), and the transaction uses it as it was.   *)
(* A change of due dates runs at the database's default isolation, where   *)
(* other transactions commit between its read and its writes; what it read *)
(* is in `dateChanges'.                                                    *)
(*                                                                         *)
(* A definition whose name ends in an underscore and a mistake is the next *)
(* definition with that mistake; it is used only to show that a property   *)
(* would notice.                                                           *)
(***************************************************************************)
EXTENDS RepaymentAllocation, FiniteSets, Functions

CONSTANTS
  Schedule,     \* what each installment owes when the loan is disbursed
  DueDay,       \* the day each installment falls due when the loan is disbursed
  NewDates,     \* the due dates of all installments an officer may ask for
  LateFeeRule,  \* product.lateFeeRule: calculationType, graceDays, amountMinor, percentageBps
  Lookback,     \* lookbackBufferDays of the accrual and late-fee windows
  Payout,       \* net proceeds credited to savings at disbursement; 0: deductions took them all
  Keys,         \* idempotency keys of the loan's money transactions
  NoPayment,    \* not a payment: the key has not been used
  MaxAmount,    \* bound: largest single payment, deposit or withdrawal
  MaxSavings,   \* bound: no deposit lifts the savings balance above this
  MaxInFlight,  \* bound: user commands between their checks and their transaction
  Horizon       \* bound: last day

Statuses == {"APPROVED", "ACTIVE", "IN_ARREARS", "OVERPAID", "CLOSED"}
Open == {"ACTIVE", "IN_ARREARS", "OVERPAID"}
Serviced == {"ACTIVE", "IN_ARREARS"}
Days == 0 .. Horizon
Sources == {"settlement", "savings"}

Payments == [type : {"REPAYMENT", "PREPAYMENT", "FORECLOSURE"},
             amount : Nat,
             source : Sources,
             alloc : [Installments -> Amounts],
             interestReceivable : SUBSET Installments,  \* interest credited to the receivable
             penaltyReceivable : SUBSET Installments,   \* penalties credited to the receivable
             swept : Nat,                               \* overpayment moved to savings
             retained : Nat,                            \* overpayment left on the liability
             reversed : BOOLEAN]

ASSUME ServicingAssumption ==
  /\ Schedule \in [Installments -> Amounts]
  /\ DueDay \in [Installments -> Nat] /\ NewDates \subseteq [Installments -> Nat]
  /\ \A i, j \in Installments : i < j => DueDay[i] <= DueDay[j]
  /\ NoPayment \notin Payments
  /\ LateFeeRule \in [calculationType : {"FLAT", "PERCENT_OF_OVERDUE"},
                      graceDays : Nat, amountMinor : Nat, percentageBps : Nat]
  /\ Lookback \in Nat /\ Payout \in Nat /\ Horizon \in Nat
  /\ MaxAmount \in Nat /\ MaxSavings \in Nat /\ MaxInFlight \in Nat

Requests == [key : Keys, amount : Nat, source : Sources]

\* A change of due dates: the dates it read and writes, and the status it computed.
DateChanges == [from : [Installments -> Nat], to : [Installments -> Nat], status : Statuses]

Jobs == [kind : {"none", "interest", "penalty", "arrears"},
         amounts : [Installments -> Nat], from : Statuses, to : Statuses]

VARIABLES
  status,           \* loan.status
  due, paid, waived,\* the due, paid and waived columns of the installments
  dueDay,           \* installment.dueOn
  accrued,          \* amount of the installment's accrual journal; 0: interestAccruedOn is null
  assessed,         \* amount of the installment's late-fee journal; 0: penaltyAssessedOn is null
  payments,         \* LoanTransaction rows by idempotency key, with their allocations and journal
  requests,         \* user commands that passed their checks and have not opened their transaction
  dateChanges,      \* changes of due dates that read the loan and have not written it
  job,              \* what the running maintenance job read
  savings,          \* the savings account's balance: the sum of its SavingsTransaction rows
  savingsLiability, \* balance of the savings liability account: the sum of its posted journal lines
  savingsActive,    \* savingsAccount.status = ACTIVE
  disbursed,        \* the program disbursed the loan, and its journal stands; FALSE: an imported loan
  cashedOut,        \* a withdrawal was recorded after the disbursement's savings credit
  today

loanVars == <<status, due, paid, waived, accrued, assessed, payments>>
savingsVars == <<savings, savingsLiability, savingsActive, disbursed, cashedOut>>
vars == <<loanVars, dueDay, requests, dateChanges, job, savingsVars, today>>

Nothing == [b \in Buckets |-> 0]
NoRows == [i \in Installments |-> Nothing]
NoJob == [kind |-> "none", amounts |-> [i \in Installments |-> 0], from |-> "ACTIVE", to |-> "ACTIVE"]

Used(k) == payments[k] # NoPayment
Live(k) == Used(k) /\ ~payments[k].reversed
LiveKeys == {k \in Keys : Live(k)}

\* By standing payment: what it allocated to one bucket, and what it left on the overpayment
\* liability account.
Allocated(i, b) == [k \in LiveKeys |-> payments[k].alloc[i][b]]
Retained == [k \in LiveKeys |-> payments[k].retained]

\* due - paid, the balance the waterfall, the repayment status and the arrears job work with.
Unpaid == [i \in Installments |-> Total(due[i]) - Total(paid[i])]
\* due - paid - waived, the balance the cancellation and the sweep work with.
Outstanding == [i \in Installments |-> Unpaid[i] - Total(waived[i])]
Owed_IgnoresPaid == due
Owed == [i \in Installments |-> [b \in Buckets |-> due[i][b] - paid[i][b]]]

\* What an allocation pays on each installment.
RowTotals(alloc) == [i \in Installments |-> Total(alloc[i])]

\* Installments with dueOn before midnight of day d (a business date), and before a moment of day d.
DueBefore(d) == {i \in Installments : dueDay[i] < d}
DueBy(d) == {i \in Installments : dueDay[i] <= d}
-----------------------------------------------------------------------------
\* A loan disbursed by the program has its proceeds on an active savings account; an imported one
\* may belong to a client whose account still waits for approval.
Init ==
  /\ status = "ACTIVE"
  /\ due = Schedule
  /\ dueDay = DueDay
  /\ paid = NoRows
  /\ waived = NoRows
  /\ accrued = [i \in Installments |-> 0]
  /\ assessed = [i \in Installments |-> 0]
  /\ payments = [k \in Keys |-> NoPayment]
  /\ requests = {}
  /\ dateChanges = {}
  /\ job = NoJob
  /\ savingsActive \in BOOLEAN
  /\ disbursed = savingsActive
  /\ savings = IF disbursed THEN Payout ELSE 0
  /\ savingsLiability = savings
  /\ cashedOut = FALSE
  /\ today = 0
-----------------------------------------------------------------------------
(***************************************************************************)
(* Repayments.                                                             *)
(***************************************************************************)

InFlight == Cardinality(requests) + Cardinality(dateChanges)

\* postRepayment / transferSavingsToLoan up to the transaction: an unused key, an open loan, and for
\* a transfer an active savings account of the same owner.
StartRepayment(k, amount, source) ==
  /\ ~Used(k)
  /\ status \in Open
  /\ source = "savings" => savingsActive
  /\ InFlight < MaxInFlight
  /\ requests' = requests \cup {[key |-> k, amount |-> amount, source |-> source]}
  /\ UNCHANGED <<loanVars, job, savingsVars, today>>

\* Savings liability lines of a repayment journal: the swept overpayment is credited, and a payment
\* out of savings debits it.
LiabilityCredit_ForgetsSweep(p) == - (IF p.source = "savings" THEN p.amount ELSE 0)
LiabilityCredit(p) == p.swept - (IF p.source = "savings" THEN p.amount ELSE 0)

\* The SavingsTransaction rows written beside that journal, with postJournal false.
PassbookCredit(p) == p.swept - (IF p.source = "savings" THEN p.amount ELSE 0)

StatusAfterRepayment_KeepsClearedOpen(p, overdue) ==
  LET remaining == SumFunctionOnSet(Unpaid, Installments) - (p.amount - p.swept - p.retained)
      overdueRemaining == SumFunctionOnSet([i \in overdue |-> Unpaid[i] - Total(p.alloc[i])], overdue)
  IN  IF p.retained > 0 THEN "OVERPAID"
      ELSE IF remaining < 0 THEN "CLOSED"
      ELSE IF status = "IN_ARREARS" /\ overdueRemaining <= 0 THEN "ACTIVE"
      ELSE status

StatusAfterRepayment(p, overdue) ==
  LET remaining == SumFunctionOnSet(Unpaid, Installments) - (p.amount - p.swept - p.retained)
      overdueRemaining == SumFunctionOnSet([i \in overdue |-> Unpaid[i] - Total(p.alloc[i])], overdue)
  IN  IF p.retained > 0 THEN "OVERPAID"
      ELSE IF remaining <= 0 THEN "CLOSED"
      ELSE IF status = "IN_ARREARS" /\ overdueRemaining <= 0 THEN "ACTIVE"
      ELSE status

\* applyRepaymentInTransaction.  It does not look at loan.status before it posts.
ApplyRepayment(k, amount, source, overdue) ==
  \E rem \in Remainders(Owed, amount) :
    LET alloc == Allocation(Owed, rem)
        p == [type |-> "REPAYMENT", amount |-> amount, source |-> source, alloc |-> alloc,
              interestReceivable |-> {i \in Installments : accrued[i] > 0 /\ alloc[i]["interest"] > 0},
              penaltyReceivable |-> {i \in Installments : assessed[i] > 0 /\ alloc[i]["penalties"] > 0},
              swept |-> IF savingsActive THEN rem[N] ELSE 0,
              retained |-> IF savingsActive THEN 0 ELSE rem[N],
              reversed |-> FALSE]
    IN  /\ payments' = [payments EXCEPT ![k] = p]
        /\ paid' = [i \in Installments |-> [b \in Buckets |-> paid[i][b] + alloc[i][b]]]
        /\ savingsLiability' = savingsLiability + LiabilityCredit(p)
        /\ savings' = savings + PassbookCredit(p)
        /\ cashedOut' = (cashedOut \/ source = "savings")
        /\ status' = StatusAfterRepayment(p, overdue)
        /\ UNCHANGED <<due, waived, accrued, assessed, savingsActive, disbursed>>

\* The transaction of a started command: a used key returns the recorded transaction, otherwise the
\* payment is applied; a transfer first checks the balance.  `day' is the command's business date.
CommitRepayment(r, day) ==
  /\ r \in requests
  /\ requests' = requests \ {r}
  /\ IF Used(r.key) THEN UNCHANGED <<loanVars, savingsVars>>
     ELSE /\ r.source = "savings" => r.amount <= savings
          /\ ApplyRepayment(r.key, r.amount, r.source, DueBefore(day))
  /\ UNCHANGED <<job, today>>

\* The command fails after its checks: a lost connection, an error in the transaction, a crash.
AbandonRepayment(r) ==
  /\ r \in requests
  /\ requests' = requests \ {r}
  /\ UNCHANGED <<loanVars, job, savingsVars, today>>

\* computeSweepAmountMinor
SweepAmount_WholeBalance(dueOutstanding) == savings
SweepAmount(dueOutstanding) == IF savings < dueOutstanding THEN savings ELSE dueOutstanding

\* executeStandingOrderSweep: everything is read again inside the transaction, the amount is what is
\* due by the end of the day, capped at the savings balance.
SweepStandingOrder(k) ==
  LET outstandingRows == {i \in DueBy(today) : Outstanding[i] > 0}
      dueOutstanding == SumFunctionOnSet(Outstanding, outstandingRows)
      amount == SweepAmount(dueOutstanding)
  IN  /\ ~Used(k)
      /\ status \in Serviced
      /\ savingsActive
      /\ outstandingRows # {}
      /\ amount \in Nat \ {0}
      /\ ApplyRepayment(k, amount, "savings", DueBy(today))
      /\ UNCHANGED <<requests, job, today>>
-----------------------------------------------------------------------------
(***************************************************************************)
(* The maintenance jobs.  Each reads the loan once, outside a transaction, *)
(* and then posts row by row what it computed from that read.              *)
(***************************************************************************)

InWindow(day) == today - day >= 0 /\ today - day <= Lookback

\* computeAccruableInterestMinor on a row the scan selects; 0 for a row it skips.
AccruableInterest(i) ==
  IF accrued[i] = 0 /\ InWindow(dueDay[i])
  THEN Max0(due[i]["interest"] - paid[i]["interest"] - waived[i]["interest"])
  ELSE 0

\* computePenaltyAmountMinor: FLAT does not depend on the row, PERCENT_OF_OVERDUE takes basis points
\* of its outstanding principal and interest.
PenaltyAmount(i) ==
  IF LateFeeRule.calculationType = "FLAT" THEN LateFeeRule.amountMinor
  ELSE (Max0(Owed[i]["principal"] + Owed[i]["interest"]
             - waived[i]["principal"] - waived[i]["interest"]) * LateFeeRule.percentageBps) \div 10000

AssessablePenalty(i) ==
  IF assessed[i] = 0 /\ InWindow(dueDay[i] + LateFeeRule.graceDays) THEN PenaltyAmount(i) ELSE 0

\* A scan that finds nothing to post ends the job and changes nothing, so only the others are steps.
ScanRows(kind, amounts) ==
  /\ job = NoJob
  /\ status \in Serviced
  /\ \E i \in Installments : amounts[i] > 0
  /\ job' = [NoJob EXCEPT !.kind = kind, !.amounts = amounts]
  /\ UNCHANGED <<loanVars, requests, savingsVars, today>>

ScanInterest == ScanRows("interest", [i \in Installments |-> AccruableInterest(i)])
ScanPenalties == ScanRows("penalty", [i \in Installments |-> AssessablePenalty(i)])

\* The rows are taken in due order; the job ends after the last.
NextRow(kind, i) ==
  /\ job.kind = kind
  /\ job.amounts[i] > 0
  /\ \A j \in Installments : j < i => job.amounts[j] = 0
  /\ LET left == [job EXCEPT !.amounts[i] = 0]
     IN  job' = IF \A j \in Installments : left.amounts[j] = 0 THEN NoJob ELSE left

\* Dr interest receivable / Cr interest income of the amount the scan computed, guarded by
\* interestAccruedOn null.
PostAccrual(i) ==
  /\ NextRow("interest", i)
  /\ accrued' = IF accrued[i] = 0 THEN [accrued EXCEPT ![i] = job.amounts[i]] ELSE accrued
  /\ UNCHANGED <<status, due, paid, waived, assessed, payments, requests, savingsVars, today>>

\* Dr penalty receivable / Cr penalty income, and the row owes it, guarded by penaltyAssessedOn null.
PostPenalty(i) ==
  /\ NextRow("penalty", i)
  /\ IF assessed[i] = 0
     THEN /\ assessed' = [assessed EXCEPT ![i] = job.amounts[i]]
          /\ due' = [due EXCEPT ![i]["penalties"] = @ + job.amounts[i]]
     ELSE UNCHANGED <<assessed, due>>
  /\ UNCHANGED <<status, paid, waived, accrued, payments, requests, savingsVars, today>>

\* assertPeriodOpen finds the day's accounting period closed: the row is skipped.
SkipRow(i) ==
  /\ job.kind \in {"interest", "penalty"}
  /\ NextRow(job.kind, i)
  /\ UNCHANGED <<loanVars, requests, savingsVars, today>>

\* determineServicingStatus on due - paid.  The job compares due dates with the current moment.
ClassifiedStatus ==
  IF SumFunctionOnSet(Unpaid, Installments) <= 0 THEN "CLOSED"
  ELSE IF SumFunctionOnSet(Unpaid, DueBy(today)) > 0 THEN "IN_ARREARS"
  ELSE "ACTIVE"

ScanArrears ==
  /\ job = NoJob
  /\ status \in Serviced
  /\ ClassifiedStatus # status
  /\ job' = [NoJob EXCEPT !.kind = "arrears", !.from = status, !.to = ClassifiedStatus]
  /\ UNCHANGED <<loanVars, requests, savingsVars, today>>

CommitArrears_Unguarded ==
  /\ job.kind = "arrears"
  /\ status' = job.to
  /\ job' = NoJob
  /\ UNCHANGED <<due, paid, waived, accrued, assessed, payments, requests, savingsVars, today>>

\* updateMany guarded by the status the scan read.
CommitArrears ==
  /\ job.kind = "arrears"
  /\ status' = IF status = job.from THEN job.to ELSE status
  /\ job' = NoJob
  /\ UNCHANGED <<due, paid, waived, accrued, assessed, payments, requests, savingsVars, today>>

\* The worker stops, or the job throws, before its next row.
AbortJob ==
  /\ job # NoJob
  /\ job' = NoJob
  /\ UNCHANGED <<loanVars, requests, savingsVars, today>>
-----------------------------------------------------------------------------
(***************************************************************************)
(* Servicing actions, as their approval executes them.                     *)
(***************************************************************************)

\* calculateLoanPayoff: all principal and fees, interest on rows due by the business date, penalties
\* unless waived.
SettledRow(i, day, waivePenalties) ==
  [b \in Buckets |->
     IF (b = "interest" /\ dueDay[i] > day) \/ (b = "penalties" /\ waivePenalties) THEN 0
     ELSE Max0(Owed[i][b])]

WaivedRow(i, day, waivePenalties) ==
  [b \in Buckets |->
     IF (b = "interest" /\ dueDay[i] > day) \/ (b = "penalties" /\ waivePenalties) THEN Max0(Owed[i][b])
     ELSE 0]

\* executeFullSettlement.  Interest and penalties are credited to income.
SettleInFull(k, type, day, waivePenalties) ==
  LET alloc == [i \in Installments |-> SettledRow(i, day, waivePenalties)]
      total == SumFunctionOnSet(RowTotals(alloc), Installments)
  IN  /\ ~Used(k)
      /\ status \in Open
      /\ total \in Nat \ {0}
      /\ payments' = [payments EXCEPT ![k] =
           [type |-> type, amount |-> total, source |-> "settlement", alloc |-> alloc,
            interestReceivable |-> {}, penaltyReceivable |-> {},
            swept |-> 0, retained |-> 0, reversed |-> FALSE]]
      /\ paid' = [i \in Installments |-> [b \in Buckets |-> paid[i][b] + alloc[i][b]]]
      /\ waived' = [i \in Installments |-> [b \in Buckets |->
                      waived[i][b] + WaivedRow(i, day, waivePenalties)[b]]]
      /\ status' = "CLOSED"
      /\ UNCHANGED <<due, accrued, assessed, requests, job, savingsVars, today>>

Prepay(k, day) == \E waivePenalties \in BOOLEAN : SettleInFull(k, "PREPAYMENT", day, waivePenalties)
Foreclose(k, day) == SettleInFull(k, "FORECLOSURE", day, TRUE)

StatusAfterReversal_KeepsOverpaid(k, day) ==
  LET p == payments[k]
      left == [i \in Installments |-> Outstanding[i] + Total(p.alloc[i])]
  IN  IF SumFunctionOnSet(left, Installments) > 0
      THEN IF SumFunctionOnSet(left, DueBefore(day)) > 0 THEN "IN_ARREARS" ELSE "ACTIVE"
      ELSE IF status = "OVERPAID" THEN "OVERPAID" ELSE "CLOSED"

\* Status after a cancellation, from the rows and payments as it leaves them.
StatusAfterReversal(k, day) ==
  LET p == payments[k]
      left == [i \in Installments |-> Outstanding[i] + Total(p.alloc[i])]
      retained == SumFunctionOnSet(Retained, LiveKeys \ {k})
  IN  IF SumFunctionOnSet(left, Installments) > 0
      THEN IF SumFunctionOnSet(left, DueBefore(day)) > 0 THEN "IN_ARREARS" ELSE "ACTIVE"
      ELSE IF status = "OVERPAID" /\ retained > 0 THEN "OVERPAID" ELSE "CLOSED"

\* The paid columns once the allocation of p is given back.
RestoredPaid_PrincipalOnly(p) ==
  [i \in Installments |-> [paid[i] EXCEPT !["principal"] = @ - p.alloc[i]["principal"]]]
RestoredPaid(p) == [i \in Installments |-> [b \in Buckets |-> paid[i][b] - p.alloc[i][b]]]

\* executeTransactionReversal: the posted journal is negated, the paid columns give the allocation
\* back, and the savings rows written beside the payment are returned; it fails when a paid column
\* is below the allocation or the savings balance below the swept overpayment.
ReverseRepayment(k, day) ==
  LET p == payments[k] IN
  /\ Live(k)
  /\ p.type = "REPAYMENT"
  /\ status \in Open \cup {"CLOSED"}
  /\ \A i \in Installments, b \in Buckets : p.alloc[i][b] <= paid[i][b]
  /\ LET funded == savings + (IF p.source = "savings" THEN p.amount ELSE 0)
     IN  /\ p.swept <= funded
         /\ savings' = funded - p.swept
  /\ savingsLiability' = savingsLiability - LiabilityCredit(p)
  /\ cashedOut' = (cashedOut \/ p.swept > 0)
  /\ payments' = [payments EXCEPT ![k].reversed = TRUE]
  /\ paid' = RestoredPaid(p)
  /\ status' = StatusAfterReversal(k, day)
  /\ UNCHANGED <<due, waived, accrued, assessed, requests, job, savingsActive, disbursed, today>>

\* What executeUndoDisbursal checks: no standing payment, the disbursement's journal, and its proceeds
\* still there where it had any.
UndoAllowed ==
  /\ status = "ACTIVE"
  /\ LiveKeys = {}
  /\ disbursed
  /\ Payout > 0 => ~cashedOut
  /\ Payout <= savings

\* Allocation rows of a payment, cancelled or not, reference the installments (ON DELETE RESTRICT).
NeverAllocated == \A k \in Keys : Used(k) => payments[k].alloc = NoRows

\* executeUndoDisbursal deletes the schedule, so a job's guarded updates of its rows find nothing
\* any more, takes the proceeds back and negates the disbursement journal.
UndoDisbursal ==
  /\ UndoAllowed
  /\ NeverAllocated
  /\ due' = NoRows
  /\ paid' = NoRows
  /\ waived' = NoRows
  /\ savings' = savings - Payout
  /\ savingsLiability' = savingsLiability - Payout
  /\ status' = "APPROVED"
  /\ job' = NoJob
  /\ UNCHANGED <<accrued, assessed, payments, requests, savingsActive, disbursed, cashedOut, today>>
-----------------------------------------------------------------------------
(***************************************************************************)
(* rescheduleLoanDates.                                                    *)
(***************************************************************************)

\* scheduleDateLockReason: the installment's date stays fixed.
Locked(i) ==
  \/ assessed[i] > 0
  \/ accrued[i] > 0
  \/ \E k \in LiveKeys : Total(payments[k].alloc[i]) > 0
  \/ Outstanding[i] <= 0

\* planScheduleDateChange: the dates ascend, and no locked installment moves.
MayMove(dates) ==
  /\ dates # dueDay
  /\ \A i \in Installments : Locked(i) => dates[i] = dueDay[i]
  /\ \A i, j \in Installments : i < j => dates[i] < dates[j]

\* determineServicingStatus on due - paid - waived of each row, never below zero, the dates compared
\* with the current moment.
StatusUnder(dates) ==
  LET owing == {i \in Installments : Outstanding[i] > 0}
  IN  IF owing = {} THEN "CLOSED"
      ELSE IF \E i \in owing : dates[i] <= today THEN "IN_ARREARS"
      ELSE "ACTIVE"

\* The read at the head of the transaction and what is computed from it.
StartDateChange(dates) ==
  /\ status \in Serviced
  /\ MayMove(dates)
  /\ InFlight < MaxInFlight
  /\ dateChanges' = dateChanges \cup {[from |-> dueDay, to |-> dates, status |-> StatusUnder(dates)]}
  /\ UNCHANGED <<loanVars, dueDay, requests, job, savingsVars, today>>

\* The guarded updates of the loan and of the rows, dueOn still as read.  That the loan row is as
\* expectedUpdatedAt says is the presence of the change in dateChanges: see DateChangesKept.
CommitDateChange(c) ==
  /\ c \in dateChanges
  /\ status \in Serviced
  /\ dueDay = c.from
  /\ dueDay' = c.to
  /\ status' = c.status
  /\ dateChanges' = {}
  /\ UNCHANGED <<due, paid, waived, accrued, assessed, payments, requests, job, savingsVars, today>>

\* The change fails: the loan was written since the officer saw it, or the transaction breaks off.
AbandonDateChange(c) ==
  /\ c \in dateChanges
  /\ dateChanges' = dateChanges \ {c}
  /\ UNCHANGED <<loanVars, dueDay, requests, job, savingsVars, today>>

\* Every other step.  One that writes the loan row renews updatedAt, and the changes that read the
\* row before can only fail; all but a cancellation write it only to assign another status.
DateChangesKept ==
  /\ dueDay' = dueDay
  /\ dateChanges' = IF status' = status /\ \A k \in LiveKeys : ~payments'[k].reversed
                    THEN dateChanges ELSE {}
-----------------------------------------------------------------------------
(***************************************************************************)
(* The savings account and the calendar.                                   *)
(***************************************************************************)

\* recordSavingsTransactionInTransaction with a settlement account: the row and its journal.
Deposit(amount) ==
  /\ savingsActive
  /\ savings + amount <= MaxSavings
  /\ savings' = savings + amount
  /\ savingsLiability' = savingsLiability + amount
  /\ UNCHANGED <<loanVars, requests, job, savingsActive, disbursed, cashedOut, today>>

Withdraw_Overdrawing(amount) ==
  /\ savingsActive
  /\ savings' = savings - amount
  /\ savingsLiability' = savingsLiability - amount
  /\ cashedOut' = TRUE
  /\ UNCHANGED <<loanVars, requests, job, savingsActive, disbursed, today>>

Withdraw(amount) ==
  /\ savingsActive
  /\ amount <= savings
  /\ savings' = savings - amount
  /\ savingsLiability' = savingsLiability - amount
  /\ cashedOut' = TRUE
  /\ UNCHANGED <<loanVars, requests, job, savingsActive, disbursed, today>>

ApproveSavingsAccount ==
  /\ ~savingsActive
  /\ savingsActive' = TRUE
  /\ UNCHANGED <<loanVars, requests, job, savings, savingsLiability, disbursed, cashedOut, today>>

Tick ==
  /\ today < Horizon
  /\ today' = today + 1
  /\ UNCHANGED <<loanVars, requests, job, savingsVars>>
-----------------------------------------------------------------------------
RepaymentStep ==
  \/ \E k \in Keys, amount \in 1 .. MaxAmount, source \in Sources :
       StartRepayment(k, amount, source) /\ DateChangesKept
  \/ \E r \in requests : \E day \in Days : CommitRepayment(r, day) /\ DateChangesKept
  \/ \E r \in requests : AbandonRepayment(r) /\ DateChangesKept
  \/ \E k \in Keys : SweepStandingOrder(k) /\ DateChangesKept

JobStep ==
  \/ ScanInterest /\ DateChangesKept
  \/ ScanPenalties /\ DateChangesKept
  \/ ScanArrears /\ DateChangesKept
  \/ \E i \in Installments : PostAccrual(i) /\ DateChangesKept
  \/ \E i \in Installments : PostPenalty(i) /\ DateChangesKept
  \/ \E i \in Installments : SkipRow(i) /\ DateChangesKept
  \/ CommitArrears /\ DateChangesKept
  \/ AbortJob /\ DateChangesKept

ServiceStep ==
  \/ \E k \in Keys, day \in Days : Prepay(k, day) /\ DateChangesKept
  \/ \E k \in Keys, day \in Days : Foreclose(k, day) /\ DateChangesKept
  \/ \E k \in Keys, day \in Days : ReverseRepayment(k, day) /\ DateChangesKept
  \/ UndoDisbursal /\ DateChangesKept

SavingsStep ==
  \/ \E amount \in 1 .. MaxAmount : Deposit(amount) /\ DateChangesKept
  \/ \E amount \in 1 .. MaxAmount : Withdraw(amount) /\ DateChangesKept
  \/ ApproveSavingsAccount /\ DateChangesKept

DateChangeStep ==
  \/ \E dates \in NewDates : StartDateChange(dates)
  \/ \E c \in dateChanges : CommitDateChange(c)
  \/ \E c \in dateChanges : AbandonDateChange(c)

Next ==
  \/ RepaymentStep
  \/ JobStep
  \/ ServiceStep
  \/ SavingsStep
  \/ Tick /\ DateChangesKept
  \/ DateChangeStep

Spec == Init /\ [][Next]_vars
-----------------------------------------------------------------------------
TypeOK ==
  /\ status \in Statuses
  /\ due \in [Installments -> Amounts]
  /\ paid \in [Installments -> Amounts]
  /\ waived \in [Installments -> Amounts]
  /\ dueDay \in [Installments -> Nat]
  /\ \A i, j \in Installments : i < j => dueDay[i] <= dueDay[j]
  /\ accrued \in [Installments -> Nat]
  /\ assessed \in [Installments -> Nat]
  /\ payments \in [Keys -> Payments \cup {NoPayment}]
  /\ requests \subseteq Requests
  /\ dateChanges \subseteq DateChanges
  /\ job \in Jobs
  /\ savings \in Nat
  /\ savingsLiability \in Int
  /\ savingsActive \in BOOLEAN
  /\ disbursed \in BOOLEAN
  /\ cashedOut \in BOOLEAN
  /\ today \in Days
-----------------------------------------------------------------------------
(***************************************************************************)
(* What the running program maintains.                                     *)
(***************************************************************************)

\* The savings liability of the ledger equals the client's savings balance, the first check of
\* reconcile-ledger: a sweep, a transfer, an overpayment, a cancellation or an undo moves both by
\* the same amount, though the journal and the savings rows are written by different code.
SavingsReconcile == savings = savingsLiability

\* The paid columns of an installment are what its standing payments allocated to it: an installment
\* is never paid without a payment, and a cancellation gives back exactly what its payment paid.
PaidMatchesPayments ==
  \A i \in Installments, b \in Buckets :
    paid[i][b] = SumFunctionOnSet(Allocated(i, b), LiveKeys)

\* No bucket is ever paid beyond what it owes, however payments, late fees, cancellations and
\* settlements interleave.
PaidWithinDue == \A i \in Installments, b \in Buckets : paid[i][b] <= due[i][b]

\* Every payment is accounted for to the last unit: what reaches the installments, what is swept to
\* savings and what is kept on the overpayment liability add up to what was paid, and an
\* overpayment goes to one place.
PaymentAccountedFor ==
  \A k \in {j \in Keys : Used(j)} :
    LET p == payments[k] IN
    /\ SumFunctionOnSet(RowTotals(p.alloc), Installments) + p.swept + p.retained = p.amount
    /\ p.swept = 0 \/ p.retained = 0

\* Collections never take more out of the penalty receivable than the late-fee job booked on it.
PenaltyReceivableCovered ==
  \A i \in Installments :
    SumFunctionOnSet(Allocated(i, "penalties"),
                     {k \in LiveKeys : i \in payments[k].penaltyReceivable}) <= assessed[i]

\* A loan shown as overpaid holds money of the borrower on the overpayment liability account: the
\* cancellation of the overpayment itself ends the status.
OverpaidHoldsLiability ==
  status = "OVERPAID" => SumFunctionOnSet(Retained, LiveKeys) > 0

\* A loan the nightly jobs still service has something left to pay: none is left open after the
\* payment that clears it.
ServicedOwes == status \in Serviced => SumFunctionOnSet(Unpaid, Installments) > 0

Reopens == status \in {"CLOSED", "OVERPAID"} /\ status' \in Serviced

\* A closed or overpaid loan is reopened by a cancelled repayment and by nothing else; an arrears job
\* that read the loan before it closed does not bring it back.
ReopensOnlyByReversal ==
  [][Reopens => \E k \in Keys : Live(k) /\ payments'[k].reversed]_vars

\* A standing order collects what is due by the end of the day and no more: it pays no installment
\* of a later day and overpays nothing.  (A sweep is the only payment out of savings that does not
\* end a started command.)
SweepsOnlyWhatIsDue ==
  [][\A k \in Keys :
       ~Used(k) /\ Used(k)' /\ payments'[k].source = "savings" /\ requests' = requests
         => /\ \A i \in Installments \ DueBy(today) : payments'[k].alloc[i] = Nothing
            /\ payments'[k].swept = 0]_vars
-----------------------------------------------------------------------------
(***************************************************************************)
(* What the documentation and the comments say, and the code does not do.  *)
(***************************************************************************)

\* docs/loan.md, Repayment: "Loan must be ACTIVE, IN_ARREARS, or OVERPAID".  A repayment is posted
\* on an open loan only.
RepaymentOnlyOnOpenLoan ==
  [][\A k \in Keys : ~Used(k) /\ Used(k)' /\ payments'[k].type = "REPAYMENT" => status \in Open]_vars

\* What the ledger holds as interest income of installment i: its accrual, and the collections that
\* were not credited to the receivable.
InterestIncome(i) ==
  accrued[i] + SumFunctionOnSet(Allocated(i, "interest"),
                                {k \in LiveKeys : i \notin payments[k].interestReceivable})

\* assess-loan-interest-accruals.ts: an accrued installment's collection goes to the receivable
\* "instead of crediting income a second time".  The interest of an installment is income once.
InterestRecognisedOnce == \A i \in Installments : InterestIncome(i) <= Schedule[i]["interest"]

\* loan-service-actions.ts, executeUndoDisbursal: "Safe to remove the generated schedule: undo is
\* refused once a payment exists, so these installments have never been allocated to."  An undo that
\* passes its checks finds no allocation row on the schedule it deletes.
UndoneScheduleNeverAllocated == UndoAllowed => NeverAllocated

\* schedule-date-change.ts, scheduleDateLockReason: "Payment already recorded" is "Why a due date
\* stays fixed".  No installment a standing payment has paid is moved.
PaidRowsKeepTheirDates ==
  [][\A i \in Installments : dueDay'[i] # dueDay[i]
       => \A k \in LiveKeys : Total(payments[k].alloc[i]) = 0]_vars
=============================================================================
