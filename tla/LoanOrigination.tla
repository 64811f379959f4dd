-------------------------- MODULE LoanOrigination --------------------------
(***************************************************************************)
(* One loan application of lending/ and the loan it becomes: submission,   *)
(* edits, approval, rejection, return to draft or to review, deletion,     *)
(* fee edits, disbursement, and undo of the disbursement.                  *)
(*                                                                         *)
(* The application and the loan are two rows, each with its own updatedAt. *)
(* A handler that decides on what it read and writes only rows whose       *)
(* updatedAt is still what it read is one action.  Approval, disbursement  *)
(* and deletion also rely on what those guards do not name, so each is two *)
(* actions: what it read stays in `approving', `disbursing' or `deleting'  *)
(* while other commands overtake it.  updatedAt is a counter here, so that *)
(* two updates of a row never carry the same one.                          *)
(*                                                                         *)
(* What happens to the loan between its disbursement and an undo is in     *)
(* LoanServicing; how an undo is requested is in ServiceRequests.          *)
(*                                                                         *)
(* A definition whose name ends in an underscore and a mistake is the next *)
(* definition with that mistake; it is used only to show that a property   *)
(* would notice.                                                           *)
(***************************************************************************)
EXTENDS FiniteSets, Integers

CONSTANTS
  Users,
  Makers,         \* users with permissions.loanApply
  Approvers,      \* users with permissions.loanApprove
  Disbursers,     \* users with permissions.loanDisburse
  Managers,       \* users whose role passes canBypassOriginationMakerChecker
  Tellers,        \* users with the role TELLER
  Reviewers,      \* users isAutomaticReturnToReviewUser names
  Amounts,        \* principals an approver may enter, within the product's range
  Keys,           \* idempotency keys of disbursements
  NoAmount, NoDisbursement, Nobody,
  MaxVersion,     \* bound: updates of a row
  MaxInFlight     \* bound: commands between their checks and their transaction

Disbursements == [principal : Amounts, reversed : BOOLEAN]

\* No handler sets WITHDRAWN or DISBURSED.
Applications == [status : {"DRAFT", "SUBMITTED", "APPROVED", "REJECTED", "DELETED"},
                 version : Nat, submittedBy : Users, approved : Amounts \cup {NoAmount}]
Loans == [status : {"NONE", "DRAFT", "APPROVED", "ACTIVE"},
          version : Nat, principal : Amounts \cup {NoAmount}]
Approvals == [reviewer : Users, at : Nat]

Approving == [user : Users, amount : Amounts, version : Nat, loan : Nat]
Disbursing == [key : Keys, user : Users, version : Nat, principal : Amounts]
Deleting == [status : {"DRAFT", "SUBMITTED", "APPROVED", "REJECTED"}, version : Nat]

ASSUME OriginationAssumption ==
  /\ Makers \subseteq Users /\ Makers # {}
  /\ Approvers \subseteq Users /\ Disbursers \subseteq Users
  /\ Managers \subseteq Users /\ Tellers \subseteq Users /\ Reviewers \subseteq Users
  /\ NoAmount \notin Amounts /\ NoDisbursement \notin Disbursements /\ Nobody \notin Users
  /\ MaxVersion \in Nat /\ MaxInFlight \in Nat

VARIABLES
  application,    \* the LoanApplication row; DELETED: it is gone
  loan,           \* the Loan row; NONE: there is none
  approvals,      \* Approval rows with decision APPROVED that are not revoked
  disbursements,  \* DISBURSEMENT transactions by idempotency key; reversed: an undo took it back
  scheduled,      \* principal of the loan's installments, or NoAmount when it has none
  approving, disbursing, deleting

rows == <<application, loan, approvals, disbursements, scheduled>>
vars == <<rows, approving, disbursing, deleting>>

\* POST /api/loan-applications: an application starts out submitted.
Init ==
  /\ \E u \in Makers :
       application = [status |-> "SUBMITTED", version |-> 0, submittedBy |-> u, approved |-> NoAmount]
  /\ loan = [status |-> "NONE", version |-> 0, principal |-> NoAmount]
  /\ approvals = {}
  /\ disbursements = [k \in Keys |-> NoDisbursement]
  /\ scheduled = NoAmount
  /\ approving = {}
  /\ disbursing = {}
  /\ deleting = {}

Used(k) == disbursements[k] # NoDisbursement
Standing == {k \in Keys : Used(k) /\ ~disbursements[k].reversed}

InFlight == Cardinality(approving) + Cardinality(disbursing) + Cardinality(deleting)

\* The bound on updates of a row.
Touch(row) == row.version < MaxVersion
-----------------------------------------------------------------------------
(***************************************************************************)
(* The application.                                                        *)
(***************************************************************************)

\* canEditSubmittedLoanApplication, with loanApply.
MayEdit(u) == u \in Makers /\ (u = application.submittedBy \/ u \in Managers)

\* PATCH /api/loan-applications/[id]
Edit(u) ==
  /\ application.status \in {"DRAFT", "SUBMITTED"}
  /\ MayEdit(u)
  /\ Touch(application)
  /\ application' = [application EXCEPT !.version = @ + 1]
  /\ UNCHANGED <<loan, approvals, disbursements, scheduled, approving, disbursing, deleting>>

\* POST /api/loan-applications/[id]/submit
Submit(u) ==
  /\ application.status = "DRAFT"
  /\ MayEdit(u)
  /\ Touch(application)
  /\ application' = [application EXCEPT !.status = "SUBMITTED", !.submittedBy = u, !.version = @ + 1]
  /\ UNCHANGED <<loan, approvals, disbursements, scheduled, approving, disbursing, deleting>>

Reject_AsWithdrawn(u) ==
  /\ application.status = "SUBMITTED"
  /\ loan.status = "NONE"
  /\ u \in Managers \/ (u \in Approvers /\ u # application.submittedBy)
  /\ Touch(application)
  /\ application' = [application EXCEPT !.status = "WITHDRAWN", !.version = @ + 1]
  /\ UNCHANGED <<loan, approvals, disbursements, scheduled, approving, disbursing, deleting>>

\* rejectLoanApplication
Reject(u) ==
  /\ application.status = "SUBMITTED"
  /\ loan.status = "NONE"
  /\ u \in Managers \/ (u \in Approvers /\ u # application.submittedBy)
  /\ Touch(application)
  /\ application' = [application EXCEPT !.status = "REJECTED", !.version = @ + 1]
  /\ UNCHANGED <<loan, approvals, disbursements, scheduled, approving, disbursing, deleting>>

\* approveLoanApplication up to its transaction: the application as it is, a submitter only if the
\* role may approve alone, and the loan an earlier approval left, if any.
StartApproval(u, amount) ==
  /\ application.status = "SUBMITTED"
  /\ u \in Approvers
  /\ u = application.submittedBy => u \in Managers
  /\ InFlight < MaxInFlight
  /\ approving' = approving \cup
       {[user |-> u, amount |-> amount, version |-> application.version,
         loan |-> IF loan.status = "NONE" THEN 0 ELSE loan.version]}
  /\ UNCHANGED <<rows, disbursing, deleting>>

\* Its transaction: both rows as they were read; the loan is created, or the draft approved again.
CommitApproval(c) ==
  /\ c \in approving
  /\ approving' = approving \ {c}
  /\ application.status = "SUBMITTED" /\ application.version = c.version
  /\ IF c.loan = 0 THEN loan.status = "NONE" ELSE loan.status = "DRAFT" /\ loan.version = c.loan
  /\ Touch(application) /\ Touch(loan)
  /\ application' = [application EXCEPT !.status = "APPROVED", !.approved = c.amount, !.version = @ + 1]
  /\ loan' = [status |-> "APPROVED", version |-> loan.version + 1, principal |-> c.amount]
  /\ approvals' = approvals \cup {[reviewer |-> c.user, at |-> application.version]}
  /\ UNCHANGED <<disbursements, scheduled, disbursing, deleting>>

\* canReturnLoanToDraft
MayReturn(u) == u \in Managers \cup Approvers

\* Both returns take the loan back to a draft and the approval away.
Return(status) ==
  /\ application.status = "APPROVED"
  /\ loan.status = "APPROVED"
  /\ scheduled = NoAmount
  /\ Touch(application) /\ Touch(loan)
  /\ application' = [application EXCEPT !.status = status, !.approved = NoAmount, !.version = @ + 1]
  /\ loan' = [loan EXCEPT !.status = "DRAFT", !.version = @ + 1]
  /\ approvals' = {}
  /\ UNCHANGED <<disbursements, scheduled, approving, disbursing, deleting>>

ReturnToDraft_ApplicationOnly(u) ==
  /\ MayReturn(u)
  /\ \A k \in Keys : ~Used(k)
  /\ application.status = "APPROVED"
  /\ loan.status = "APPROVED"
  /\ Touch(application)
  /\ application' = [application EXCEPT !.status = "DRAFT", !.approved = NoAmount, !.version = @ + 1]
  /\ approvals' = {}
  /\ UNCHANGED <<loan, disbursements, scheduled, approving, disbursing, deleting>>

\* returnLoanToDraft: no transaction was ever posted.
ReturnToDraft(u) ==
  /\ MayReturn(u)
  /\ \A k \in Keys : ~Used(k)
  /\ Return("DRAFT")

ReturnToReview_KeepsApproval(u) ==
  /\ MayReturn(u)
  /\ application.status = "APPROVED"
  /\ loan.status = "APPROVED"
  /\ Touch(application) /\ Touch(loan)
  /\ application' = [application EXCEPT !.status = "SUBMITTED", !.approved = NoAmount, !.version = @ + 1]
  /\ loan' = [loan EXCEPT !.status = "DRAFT", !.version = @ + 1]
  /\ UNCHANGED <<approvals, disbursements, scheduled, approving, disbursing, deleting>>

\* returnLoanToReview: every disbursement was taken back.
ReturnToReview(u) ==
  /\ MayReturn(u) \/ u \in Reviewers
  /\ Standing = {}
  /\ Return("SUBMITTED")
-----------------------------------------------------------------------------
(***************************************************************************)
(* Deletion.                                                               *)
(***************************************************************************)

\* historyBlock is null.
Deletable ==
  \/ loan.status = "NONE"
  \/ /\ loan.status \in {"DRAFT", "APPROVED"}
     /\ scheduled = NoAmount
     /\ \A k \in Keys : ~Used(k)

\* deleteLoanApplication, what it reads in its transaction, at the default isolation level.
StartDelete(u) ==
  /\ application.status # "DELETED"
  /\ Deletable
  /\ \/ u \in Managers
     \/ u \in IF application.status = "APPROVED" \/ loan.status = "APPROVED" THEN Approvers ELSE Makers
  /\ InFlight < MaxInFlight
  /\ deleting' = deleting \cup {[status |-> application.status, version |-> application.version]}
  /\ UNCHANGED <<rows, approving, disbursing>>

\* Installments and transactions reference the loan ON DELETE RESTRICT.
Unreferenced == scheduled = NoAmount /\ \A k \in Keys : ~Used(k)

\* What it writes, guarded by the application row alone.
CommitDelete(c) ==
  /\ c \in deleting
  /\ deleting' = deleting \ {c}
  /\ application.status = c.status /\ application.version = c.version
  /\ Unreferenced
  /\ Touch(application) /\ Touch(loan)
  /\ application' = [application EXCEPT !.status = "DELETED", !.approved = NoAmount, !.version = @ + 1]
  /\ loan' = [status |-> "NONE", version |-> loan.version + 1, principal |-> NoAmount]
  /\ approvals' = {}
  /\ UNCHANGED <<disbursements, scheduled, approving, disbursing>>
-----------------------------------------------------------------------------
(***************************************************************************)
(* Disbursement.                                                           *)
(***************************************************************************)

\* updateLoanFees: a new processing fee in the loan's terms.
EditFees(u) ==
  /\ u \in Disbursers
  /\ loan.status = "APPROVED"
  /\ Touch(loan)
  /\ loan' = [loan EXCEPT !.version = @ + 1]
  /\ UNCHANGED <<application, approvals, disbursements, scheduled, approving, disbursing, deleting>>

\* canDisburseWithoutMakerCheckerSplit, or neither the submitter nor a reviewer.
MayDisburse(u) ==
  /\ u \in Disbursers
  /\ \/ u \in Managers \cup Tellers
     \/ /\ u # application.submittedBy
        /\ \A a \in approvals : a.reviewer # u

\* disburseLoan up to its transaction; the schedule is generated from the principal read here.
StartDisbursal(k, u) ==
  /\ ~Used(k)
  /\ loan.status = "APPROVED"
  /\ MayDisburse(u)
  /\ InFlight < MaxInFlight
  /\ disbursing' = disbursing \cup
       {[key |-> k, user |-> u, version |-> loan.version, principal |-> loan.principal]}
  /\ UNCHANGED <<rows, approving, deleting>>

LoanAsRead_StatusOnly(c) == loan.status = "APPROVED"
LoanAsRead_Unguarded(c) == TRUE
LoanAsRead(c) == loan.status = "APPROVED" /\ loan.version = c.version

\* Its Serializable transaction.
CommitDisbursal(c) ==
  /\ c \in disbursing
  /\ disbursing' = disbursing \ {c}
  /\ LoanAsRead(c)
  /\ ~Used(c.key)
  /\ Touch(loan)
  /\ loan' = [loan EXCEPT !.status = "ACTIVE", !.version = @ + 1]
  /\ disbursements' = [disbursements EXCEPT ![c.key] = [principal |-> c.principal, reversed |-> FALSE]]
  /\ scheduled' = c.principal
  /\ UNCHANGED <<application, approvals, approving, deleting>>

\* executeUndoDisbursal, when no payment stands against the loan.
Undo(k) ==
  /\ loan.status = "ACTIVE"
  /\ k \in Standing
  /\ Touch(loan)
  /\ loan' = [loan EXCEPT !.status = "APPROVED", !.version = @ + 1]
  /\ disbursements' = [disbursements EXCEPT ![k].reversed = TRUE]
  /\ scheduled' = NoAmount
  /\ UNCHANGED <<application, approvals, approving, disbursing, deleting>>

\* A guard of the transaction fails, a check inside it throws, or the server stops.
Lose ==
  /\ \/ \E c \in approving : approving' = approving \ {c} /\ UNCHANGED <<disbursing, deleting>>
     \/ \E c \in disbursing : disbursing' = disbursing \ {c} /\ UNCHANGED <<approving, deleting>>
     \/ \E c \in deleting : deleting' = deleting \ {c} /\ UNCHANGED <<approving, disbursing>>
  /\ UNCHANGED rows
-----------------------------------------------------------------------------
ApplicationStep ==
  \E u \in Users :
    \/ Edit(u)
    \/ Submit(u)
    \/ Reject(u)
    \/ \E amount \in Amounts : StartApproval(u, amount)
    \/ ReturnToDraft(u)
    \/ ReturnToReview(u)
    \/ StartDelete(u)
    \/ EditFees(u)
    \/ \E k \in Keys : StartDisbursal(k, u)

CommitStep ==
  \/ \E c \in approving : CommitApproval(c)
  \/ \E c \in deleting : CommitDelete(c)
  \/ \E c \in disbursing : CommitDisbursal(c)
  \/ \E k \in Keys : Undo(k)
  \/ Lose

Next == ApplicationStep \/ CommitStep

Spec == Init /\ [][Next]_vars
-----------------------------------------------------------------------------
TypeOK ==
  /\ application \in Applications
  /\ loan \in Loans
  /\ approvals \subseteq Approvals
  /\ disbursements \in [Keys -> Disbursements \cup {NoDisbursement}]
  /\ scheduled \in Amounts \cup {NoAmount}
  /\ approving \subseteq Approving
  /\ disbursing \subseteq Disbursing
  /\ deleting \subseteq Deleting

\* The application and the loan agree, although most commands guard and write only one of them: a loan
\* is approved or paid out exactly while its application is approved, for the amount of that
\* approval, and a rejected or deleted application has none.
RowsAgree ==
  /\ loan.status \in {"APPROVED", "ACTIVE"} <=> application.status = "APPROVED"
  /\ application.status = "APPROVED" => loan.principal \in Amounts /\ loan.principal = application.approved
  /\ application.status \in {"REJECTED", "DELETED"} => loan.status = "NONE"

\* An approved application rests on one approval that is not revoked, and any other on none: a
\* return revokes what a later approval replaces.
OneStandingApproval ==
  IF application.status = "APPROVED" THEN \E a \in approvals : approvals = {a} ELSE approvals = {}

\* The money of a loan is out at most once, and out exactly while the loan is active and has its
\* schedule: two disbursements, or a disbursement and an undo, never overlap.
OnePayout ==
  IF loan.status = "ACTIVE"
  THEN \E k \in Keys : Standing = {k} /\ disbursements[k].principal = scheduled
  ELSE Standing = {} /\ scheduled = NoAmount
-----------------------------------------------------------------------------
Checker == IF \E a \in approvals : TRUE THEN (CHOOSE a \in approvals : TRUE).reviewer ELSE Nobody

Promise == INSTANCE ThreeHands WITH
  Checkers <- Approvers,
  AloneCheckers <- Managers,
  Payers <- Disbursers,
  AlonePayers <- Managers \cup Tellers,
  maker <- application.submittedBy,
  checker <- Checker,
  approved <- application.approved,
  paid <- scheduled,
  everPaid <- \E k \in Keys : Used(k),
  deleted <- application.status = "DELETED"

\* A payout is of the amount approved, by a third user or one entitled to act alone, and a file that
\* ever paid out is not deleted: the handlers, with their reads outside the guards, implement
\* ThreeHands.
ThreeHandsKept == Promise!Spec
=============================================================================
