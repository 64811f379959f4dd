----------------------- MODULE LoanOrigination_proofs -----------------------
(***************************************************************************)
(* Safety of origination for any users, roles, amounts and commands, and   *)
(* its implementation of ThreeHands.                                       *)
(***************************************************************************)
EXTENDS LoanOrigination, TLAPS

\* An approval on the way whose application is still as it was read comes from a user who may give
\* it: a submitter changes only with the version.
ApprovalsAsRead ==
  \A c \in approving :
    /\ c.version <= application.version
    /\ application.status = "SUBMITTED" /\ application.version = c.version =>
         c.user \in Approvers /\ (c.user = application.submittedBy => c.user \in Managers)

\* A disbursement on the way whose loan is still as it was read has its principal and its right to
\* pay: no application is resubmitted, and no approval given or revoked, but the loan's version
\* changes or the loan is not an approved one.
DisbursalsAsRead ==
  \A c \in disbursing :
    /\ c.version <= loan.version
    /\ LoanAsRead(c) => c.principal = loan.principal /\ MayDisburse(c.user)

IInv ==
  TypeOK /\ RowsAgree /\ OneStandingApproval /\ OnePayout /\ ApprovalsAsRead /\ DisbursalsAsRead

LEMMA InitIInv == Init => IInv
BY OriginationAssumption
   DEF Init, IInv, TypeOK, RowsAgree, OneStandingApproval, OnePayout, ApprovalsAsRead, DisbursalsAsRead,
       Applications, Loans, Standing, Used
-----------------------------------------------------------------------------
(***************************************************************************)
(* What each action leaves in the row it updates.                          *)
(***************************************************************************)
LEMMA SubmitRow ==
  ASSUME application \in Applications, NEW u \in Users, Submit(u)
  PROVE  /\ application' \in Applications /\ application'.version = application.version + 1
         /\ application'.status = "SUBMITTED" /\ application'.submittedBy = u
         /\ application'.approved = application.approved
<1> DEFINE v == application.version + 1
<1>1. v \in Nat
  BY DEF Applications
<1>2. application' = [application EXCEPT !.status = "SUBMITTED", !.submittedBy = u, !.version = v]
  BY DEF Submit
<1> HIDE DEF v
<1>3. /\ application' \in Applications /\ application'.version = v
      /\ application'.status = "SUBMITTED" /\ application'.submittedBy = u
      /\ application'.approved = application.approved
  BY <1>1, <1>2 DEF Applications
<1> QED BY <1>3 DEF v

LEMMA RejectRow ==
  ASSUME application \in Applications, NEW u \in Users, Reject(u)
  PROVE  /\ application' \in Applications /\ application'.version = application.version + 1
         /\ application'.status = "REJECTED" /\ application'.submittedBy = application.submittedBy
         /\ application'.approved = application.approved
<1> DEFINE v == application.version + 1
<1>1. v \in Nat
  BY DEF Applications
<1>2. application' = [application EXCEPT !.status = "REJECTED", !.version = v]
  BY DEF Reject
<1> HIDE DEF v
<1>3. /\ application' \in Applications /\ application'.version = v
      /\ application'.status = "REJECTED" /\ application'.submittedBy = application.submittedBy
      /\ application'.approved = application.approved
  BY <1>1, <1>2 DEF Applications
<1> QED BY <1>3 DEF v

LEMMA ApprovalRow ==
  ASSUME application \in Applications, NEW c \in Approving, CommitApproval(c)
  PROVE  /\ application' \in Applications /\ application'.version = application.version + 1
         /\ application'.status = "APPROVED" /\ application'.submittedBy = application.submittedBy
         /\ application'.approved = c.amount
<1> DEFINE v == application.version + 1
<1>1. v \in Nat
  BY DEF Applications
<1>2. application' = [application EXCEPT !.status = "APPROVED", !.approved = c.amount, !.version = v]
  BY DEF CommitApproval
<1> HIDE DEF v
<1>3. /\ application' \in Applications /\ application'.version = v
      /\ application'.status = "APPROVED" /\ application'.submittedBy = application.submittedBy
      /\ application'.approved = c.amount
  BY <1>1, <1>2 DEF Applications, Approving
<1> QED BY <1>3 DEF v

LEMMA ReturnRow ==
  ASSUME application \in Applications, NEW status \in {"DRAFT", "SUBMITTED"}, Return(status)
  PROVE  /\ application' \in Applications /\ application'.version = application.version + 1
         /\ application'.status = status /\ application'.submittedBy = application.submittedBy
         /\ application'.approved = NoAmount
<1> DEFINE v == application.version + 1
<1>1. v \in Nat
  BY DEF Applications
<1>2. application' = [application EXCEPT !.status = status, !.approved = NoAmount, !.version = v]
  BY DEF Return
<1> HIDE DEF v
<1>3. /\ application' \in Applications /\ application'.version = v
      /\ application'.status = status /\ application'.submittedBy = application.submittedBy
      /\ application'.approved = NoAmount
  BY <1>1, <1>2 DEF Applications
<1> QED BY <1>3 DEF v

LEMMA DeletionRow ==
  ASSUME application \in Applications, NEW c \in deleting, CommitDelete(c)
  PROVE  /\ application' \in Applications /\ application'.version = application.version + 1
         /\ application'.status = "DELETED" /\ application'.submittedBy = application.submittedBy
         /\ application'.approved = NoAmount
<1> DEFINE v == application.version + 1
<1>1. v \in Nat
  BY DEF Applications
<1>2. application' = [application EXCEPT !.status = "DELETED", !.approved = NoAmount, !.version = v]
  BY DEF CommitDelete
<1> HIDE DEF v
<1>3. /\ application' \in Applications /\ application'.version = v
      /\ application'.status = "DELETED" /\ application'.submittedBy = application.submittedBy
      /\ application'.approved = NoAmount
  BY <1>1, <1>2 DEF Applications
<1> QED BY <1>3 DEF v

LEMMA ReturnedLoan ==
  ASSUME loan \in Loans, NEW status, Return(status)
  PROVE  /\ loan' \in Loans /\ loan'.version = loan.version + 1
         /\ loan'.status = "DRAFT" /\ loan'.principal = loan.principal
<1> DEFINE v == loan.version + 1
<1>1. v \in Nat
  BY DEF Loans
<1>2. loan' = [loan EXCEPT !.status = "DRAFT", !.version = v]
  BY DEF Return
<1> HIDE DEF v
<1>3. /\ loan' \in Loans /\ loan'.version = v
      /\ loan'.status = "DRAFT" /\ loan'.principal = loan.principal
  BY <1>1, <1>2 DEF Loans
<1> QED BY <1>3 DEF v

LEMMA DisbursedLoan ==
  ASSUME loan \in Loans, NEW c \in disbursing, CommitDisbursal(c)
  PROVE  /\ loan' \in Loans /\ loan'.version = loan.version + 1
         /\ loan'.status = "ACTIVE" /\ loan'.principal = loan.principal
<1> DEFINE v == loan.version + 1
<1>1. v \in Nat
  BY DEF Loans
<1>2. loan' = [loan EXCEPT !.status = "ACTIVE", !.version = v]
  BY DEF CommitDisbursal
<1> HIDE DEF v
<1>3. /\ loan' \in Loans /\ loan'.version = v
      /\ loan'.status = "ACTIVE" /\ loan'.principal = loan.principal
  BY <1>1, <1>2 DEF Loans
<1> QED BY <1>3 DEF v

LEMMA UndoneLoan ==
  ASSUME loan \in Loans, NEW k \in Keys, Undo(k)
  PROVE  /\ loan' \in Loans /\ loan'.version = loan.version + 1
         /\ loan'.status = "APPROVED" /\ loan'.principal = loan.principal
<1> DEFINE v == loan.version + 1
<1>1. v \in Nat
  BY DEF Loans
<1>2. loan' = [loan EXCEPT !.status = "APPROVED", !.version = v]
  BY DEF Undo
<1> HIDE DEF v
<1>3. /\ loan' \in Loans /\ loan'.version = v
      /\ loan'.status = "APPROVED" /\ loan'.principal = loan.principal
  BY <1>1, <1>2 DEF Loans
<1> QED BY <1>3 DEF v
-----------------------------------------------------------------------------
\* The rows of an application before its loan is approved: edits, submission and rejection.
LEMMA ApplicationOnly ==
  ASSUME IInv, NEW u \in Users, Edit(u) \/ Submit(u) \/ Reject(u)
  PROVE  IInv'
<1> USE DEF IInv
<1>1. /\ application \in Applications /\ application' \in Applications
      /\ application.status \in {"DRAFT", "SUBMITTED"} /\ application'.status # "APPROVED"
      /\ application'.version = application.version + 1
      /\ application'.status = "REJECTED" => loan.status = "NONE"
      /\ application'.status # "DELETED"
      /\ UNCHANGED <<loan, approvals, disbursements, scheduled, approving, disbursing, deleting>>
  <2>0. application \in Applications
    BY DEF TypeOK
  <2>1. CASE Edit(u)
    BY <2>0, <2>1 DEF Edit, Applications
  <2>2. CASE Submit(u)
    BY <2>0, <2>2, SubmitRow DEF Submit
  <2>3. CASE Reject(u)
    BY <2>0, <2>3, RejectRow DEF Reject
  <2> QED BY <2>0, <2>1, <2>2, <2>3
<1>2. loan.status # "APPROVED"
  BY <1>1 DEF RowsAgree
<1>3. TypeOK'
  BY <1>1 DEF TypeOK
<1>4. RowsAgree' /\ OneStandingApproval'
  BY <1>1 DEF RowsAgree, OneStandingApproval
<1>5. OnePayout'
  BY <1>1 DEF OnePayout, Standing, Used
<1>6. ApprovalsAsRead'
  BY <1>1 DEF ApprovalsAsRead, TypeOK, Approving, Applications
<1>7. DisbursalsAsRead'
  BY <1>1, <1>2 DEF DisbursalsAsRead, LoanAsRead
<1> QED BY <1>3, <1>4, <1>5, <1>6, <1>7

LEMMA ApprovalStep ==
  ASSUME IInv, NEW c \in approving, CommitApproval(c)
  PROVE  IInv'
<1> USE DEF IInv
<1>1. c \in Approving /\ application \in Applications /\ loan \in Loans
  BY DEF TypeOK
<1>2. TypeOK'
  <2>1. application' \in Applications
    BY <1>1, ApprovalRow
  <2>2. loan' \in Loans
    BY <1>1 DEF CommitApproval, Loans, Approving
  <2>3. approvals' \subseteq Approvals
    BY <1>1 DEF CommitApproval, TypeOK, Approvals, Approving, Applications
  <2> QED BY <2>1, <2>2, <2>3 DEF CommitApproval, TypeOK
<1>3. RowsAgree'
  BY <1>1, ApprovalRow DEF CommitApproval, RowsAgree, Approving
<1>4. OneStandingApproval'
  BY <1>1 DEF CommitApproval, OneStandingApproval, Applications
<1>5. OnePayout'
  BY DEF CommitApproval, OnePayout, Standing, Used
<1>6. ApprovalsAsRead'
  BY <1>1 DEF CommitApproval, ApprovalsAsRead, TypeOK, Approving, Applications
<1>7. DisbursalsAsRead'
  BY <1>1 DEF CommitApproval, DisbursalsAsRead, LoanAsRead, TypeOK, Disbursing, Loans
<1> QED BY <1>2, <1>3, <1>4, <1>5, <1>6, <1>7

\* Both returns.
LEMMA ReturnStep ==
  ASSUME IInv, NEW status \in {"DRAFT", "SUBMITTED"}, Return(status)
  PROVE  IInv'
<1> USE DEF IInv
<1>1. application \in Applications /\ loan \in Loans
  BY DEF TypeOK
<1>2. TypeOK'
  <2>1. application' \in Applications
    BY <1>1, ReturnRow
  <2>2. loan' \in Loans
    BY <1>1, ReturnedLoan
  <2> QED BY <2>1, <2>2 DEF Return, TypeOK
<1>3. RowsAgree' /\ OneStandingApproval'
  BY <1>1 DEF Return, RowsAgree, OneStandingApproval, Applications, Loans
<1>4. OnePayout'
  BY <1>1 DEF Return, OnePayout, Standing, Used, Loans
<1>5. ApprovalsAsRead'
  BY <1>1 DEF Return, ApprovalsAsRead, TypeOK, Approving, Applications
<1>6. DisbursalsAsRead'
  BY <1>1 DEF Return, DisbursalsAsRead, LoanAsRead, TypeOK, Disbursing, Loans
<1> QED BY <1>2, <1>3, <1>4, <1>5, <1>6

LEMMA DeletionStep ==
  ASSUME IInv, NEW c \in deleting, CommitDelete(c)
  PROVE  IInv'
<1> USE DEF IInv
<1>1. application \in Applications /\ loan \in Loans
  BY DEF TypeOK
<1>2. TypeOK'
  <2>1. application' \in Applications
    BY <1>1, DeletionRow
  <2>2. loan' \in Loans
    BY <1>1 DEF CommitDelete, Loans
  <2> QED BY <2>1, <2>2 DEF CommitDelete, TypeOK
<1>3. RowsAgree' /\ OneStandingApproval'
  BY <1>1 DEF CommitDelete, RowsAgree, OneStandingApproval, Applications
<1>4. OnePayout'
  BY <1>1 DEF CommitDelete, OnePayout, Unreferenced, Standing, Used
<1>5. ApprovalsAsRead'
  BY <1>1 DEF CommitDelete, ApprovalsAsRead, TypeOK, Approving, Applications
<1>6. DisbursalsAsRead'
  BY <1>1 DEF CommitDelete, DisbursalsAsRead, LoanAsRead, TypeOK, Disbursing, Loans
<1> QED BY <1>2, <1>3, <1>4, <1>5, <1>6

\* A fee edit, a disbursement and an undo change the loan and leave its application alone.
LEMMA FeesStep ==
  ASSUME IInv, NEW u \in Users, EditFees(u)
  PROVE  IInv'
<1> USE DEF IInv
<1>1. loan \in Loans
  BY DEF TypeOK
<1>2. TypeOK'
  BY <1>1 DEF EditFees, TypeOK, Loans
<1>3. RowsAgree' /\ OneStandingApproval'
  BY <1>1 DEF EditFees, RowsAgree, OneStandingApproval, Loans
<1>4. OnePayout'
  BY <1>1 DEF EditFees, OnePayout, Standing, Used, Loans
<1>5. ApprovalsAsRead'
  BY DEF EditFees, ApprovalsAsRead
<1>6. DisbursalsAsRead'
  BY <1>1 DEF EditFees, DisbursalsAsRead, LoanAsRead, TypeOK, Disbursing, Loans
<1> QED BY <1>2, <1>3, <1>4, <1>5, <1>6

LEMMA DisbursalStep ==
  ASSUME IInv, NEW c \in disbursing, CommitDisbursal(c)
  PROVE  IInv'
<1> USE DEF IInv
<1>1. c \in Disbursing /\ loan \in Loans /\ loan.status = "APPROVED"
  BY DEF CommitDisbursal, LoanAsRead, TypeOK
<1>2. TypeOK'
  <2>1. loan' \in Loans
    BY <1>1, DisbursedLoan
  <2>2. disbursements' \in [Keys -> Disbursements \cup {NoDisbursement}]
    BY <1>1 DEF CommitDisbursal, TypeOK, Disbursing, Disbursements
  <2> QED BY <1>1, <2>1, <2>2 DEF CommitDisbursal, TypeOK, Disbursing
<1>3. RowsAgree' /\ OneStandingApproval'
  BY <1>1 DEF CommitDisbursal, RowsAgree, OneStandingApproval, Loans
<1>4. OnePayout'
  <2>1. Standing = {}
    BY <1>1 DEF OnePayout
  <2>2. disbursements'[c.key] = [principal |-> c.principal, reversed |-> FALSE] /\ Used(c.key)'
    <3>1. c.key \in Keys /\ [principal |-> c.principal, reversed |-> FALSE] \in Disbursements
      BY <1>1 DEF Disbursing, Disbursements
    <3>2. disbursements'[c.key] = [principal |-> c.principal, reversed |-> FALSE]
      BY <3>1 DEF CommitDisbursal, TypeOK
    <3> QED BY <3>1, <3>2, OriginationAssumption DEF Used
  <2>3. \A k \in Keys : k # c.key => disbursements'[k] = disbursements[k]
    BY <1>1 DEF CommitDisbursal, TypeOK
  <2>4. Standing' = {c.key}
    BY <1>1, <2>1, <2>2, <2>3 DEF Standing, Used, Disbursing
  <2> QED BY <1>1, <2>2, <2>4 DEF CommitDisbursal, OnePayout, Loans, Disbursing
<1>5. ApprovalsAsRead'
  BY DEF CommitDisbursal, ApprovalsAsRead
<1>6. DisbursalsAsRead'
  BY <1>1 DEF CommitDisbursal, DisbursalsAsRead, LoanAsRead, TypeOK, Disbursing, Loans
<1> QED BY <1>2, <1>3, <1>4, <1>5, <1>6

LEMMA UndoStep ==
  ASSUME IInv, NEW k \in Keys, Undo(k)
  PROVE  IInv' /\ \A q \in Keys : Used(q)' = Used(q)
<1> USE DEF IInv
<1>1. loan \in Loans /\ loan.status = "ACTIVE" /\ Used(k) /\ Standing = {k}
  BY DEF Undo, TypeOK, OnePayout, Standing
<1>2. disbursements[k] \in Disbursements
  BY <1>1 DEF TypeOK, Used
<1>3. /\ disbursements' = [disbursements EXCEPT ![k] = [disbursements[k] EXCEPT !.reversed = TRUE]]
      /\ [disbursements[k] EXCEPT !.reversed = TRUE] \in Disbursements
  <2>1. disbursements' = [disbursements EXCEPT ![k] = [disbursements[k] EXCEPT !.reversed = TRUE]]
    BY Zenon DEF Undo
  <2>2. [disbursements[k] EXCEPT !.reversed = TRUE] \in Disbursements
    BY <1>2 DEF Disbursements
  <2> QED BY <2>1, <2>2
<1>4. /\ disbursements' \in [Keys -> Disbursements \cup {NoDisbursement}]
      /\ disbursements'[k] = [disbursements[k] EXCEPT !.reversed = TRUE]
      /\ \A q \in Keys : q # k => disbursements'[q] = disbursements[q]
  BY <1>3 DEF TypeOK
<1>5. TypeOK'
  <2>1. loan' \in Loans
    BY <1>1, UndoneLoan
  <2> QED BY <1>4, <2>1 DEF Undo, TypeOK
<1>6. RowsAgree' /\ OneStandingApproval'
  BY <1>1 DEF Undo, RowsAgree, OneStandingApproval, Loans
<1>7. \A q \in Keys : Used(q)' = Used(q)
  BY <1>1, <1>3, <1>4, OriginationAssumption DEF Used
<1>8. OnePayout'
  <2>1. disbursements'[k].reversed = TRUE
    BY <1>2, <1>4 DEF Disbursements
  <2>2. Standing' = {}
    BY <1>1, <1>4, <1>7, <2>1 DEF Standing
  <2> QED BY <1>1, <2>2 DEF Undo, OnePayout, Loans
<1>9. ApprovalsAsRead'
  BY DEF Undo, ApprovalsAsRead
<1>10. DisbursalsAsRead'
  BY <1>1 DEF Undo, DisbursalsAsRead, LoanAsRead, TypeOK, Disbursing, Loans
<1> QED BY <1>5, <1>6, <1>7, <1>8, <1>9, <1>10

\* What a command has read, and what is lost of it, changes no row.
LEMMA RowsKept ==
  ASSUME IInv, UNCHANGED rows,
         approving' \subseteq Approving /\ ApprovalsAsRead',
         disbursing' \subseteq Disbursing /\ DisbursalsAsRead',
         deleting' \subseteq Deleting
  PROVE  IInv'
BY DEF IInv, rows, TypeOK, RowsAgree, OneStandingApproval, OnePayout, Standing, Used

LEMMA StartStep ==
  ASSUME IInv, NEW u \in Users,
         \/ \E amount \in Amounts : StartApproval(u, amount)
         \/ \E k \in Keys : StartDisbursal(k, u)
         \/ StartDelete(u)
  PROVE  IInv' /\ UNCHANGED rows
<1> USE DEF IInv
<1>0. application \in Applications /\ loan \in Loans
  BY DEF TypeOK
<1>1. ASSUME NEW amount \in Amounts, StartApproval(u, amount)
      PROVE  IInv' /\ UNCHANGED rows
  <2>1. approving' \subseteq Approving
    BY <1>0, <1>1 DEF StartApproval, TypeOK, Approving, Applications, Loans
  <2>2. ApprovalsAsRead'
    BY <1>0, <1>1 DEF StartApproval, ApprovalsAsRead, rows, Applications
  <2>3. DisbursalsAsRead' /\ UNCHANGED <<disbursing, deleting>> /\ UNCHANGED rows
    BY <1>1 DEF StartApproval, DisbursalsAsRead, LoanAsRead, MayDisburse, rows
  <2> QED BY <2>1, <2>2, <2>3, RowsKept DEF TypeOK
<1>2. ASSUME NEW k \in Keys, StartDisbursal(k, u)
      PROVE  IInv' /\ UNCHANGED rows
  <2>1. loan.principal \in Amounts
    BY <1>2 DEF StartDisbursal, RowsAgree
  <2>2. disbursing' \subseteq Disbursing
    BY <1>0, <1>2, <2>1 DEF StartDisbursal, TypeOK, Disbursing, Loans
  <2>3. DisbursalsAsRead'
    BY <1>0, <1>2 DEF StartDisbursal, DisbursalsAsRead, LoanAsRead, MayDisburse, rows, Loans
  <2>4. ApprovalsAsRead' /\ UNCHANGED <<approving, deleting>> /\ UNCHANGED rows
    BY <1>2 DEF StartDisbursal, ApprovalsAsRead, rows
  <2> QED BY <2>2, <2>3, <2>4, RowsKept DEF TypeOK
<1>3. CASE StartDelete(u)
  <2>1. deleting' \subseteq Deleting
    BY <1>0, <1>3 DEF StartDelete, TypeOK, Deleting, Applications
  <2>2. /\ ApprovalsAsRead' /\ DisbursalsAsRead'
        /\ UNCHANGED <<approving, disbursing>> /\ UNCHANGED rows
    BY <1>3 DEF StartDelete, ApprovalsAsRead, DisbursalsAsRead, LoanAsRead, MayDisburse, rows
  <2> QED BY <2>1, <2>2, RowsKept DEF TypeOK
<1> QED BY <1>1, <1>2, <1>3

LEMMA LoseStep ==
  ASSUME IInv, Lose
  PROVE  IInv' /\ UNCHANGED rows
<1> USE DEF IInv
<1>1. /\ approving' \subseteq approving /\ disbursing' \subseteq disbursing /\ deleting' \subseteq deleting
      /\ UNCHANGED rows
  BY DEF Lose
<1>2. ApprovalsAsRead' /\ DisbursalsAsRead'
  BY <1>1 DEF ApprovalsAsRead, DisbursalsAsRead, LoanAsRead, MayDisburse, rows
<1> QED BY <1>1, <1>2, RowsKept DEF TypeOK
-----------------------------------------------------------------------------
LEMMA ReturnsStep ==
  ASSUME IInv, NEW u \in Users, ReturnToDraft(u) \/ ReturnToReview(u)
  PROVE  IInv'
BY ReturnStep DEF ReturnToDraft, ReturnToReview

LEMMA NextIInv == IInv /\ [Next]_vars => IInv'
<1> SUFFICES ASSUME IInv, [Next]_vars
             PROVE  IInv'
  OBVIOUS
<1>1. CASE ApplicationStep
  BY <1>1, ApplicationOnly, StartStep, ReturnsStep, FeesStep DEF ApplicationStep
<1>2. CASE CommitStep
  BY <1>2, ApprovalStep, DeletionStep, DisbursalStep, UndoStep, LoseStep DEF CommitStep
<1>3. CASE UNCHANGED vars
  BY <1>3, RowsKept DEF vars, rows, IInv, TypeOK, ApprovalsAsRead, DisbursalsAsRead, LoanAsRead, MayDisburse
<1> QED BY <1>1, <1>2, <1>3 DEF Next

LEMMA AlwaysIInv == Spec => []IInv
BY InitIInv, NextIInv, PTL DEF Spec

\* The rows keep their types.
THEOREM OriginationTyped == Spec => []TypeOK
BY AlwaysIInv, PTL DEF IInv

\* The application and the loan agree, whatever commands overtake each other.
THEOREM RowsAlwaysAgree == Spec => []RowsAgree
BY AlwaysIInv, PTL DEF IInv

\* An approved application rests on exactly one approval.
THEOREM ApprovedByOne == Spec => []OneStandingApproval
BY AlwaysIInv, PTL DEF IInv

\* At most one disbursement stands, and only on an active loan.
THEOREM PaidOutOnce == Spec => []OnePayout
BY AlwaysIInv, PTL DEF IInv
-----------------------------------------------------------------------------
LEMMA CheckerIsReviewer ==
  ASSUME NEW a, approvals = {a}
  PROVE  Checker = a.reviewer
BY DEF Checker

LEMMA InitRefines == Init => Promise!Init
BY OriginationAssumption DEF Init, Promise!Init, Checker, Used

\* Approval, by a user who may approve, of an application nobody has approved.
LEMMA ApprovalRefines ==
  ASSUME IInv, NEW c \in approving, CommitApproval(c)
  PROVE  Promise!Approve(c.user, c.amount)
<1>1. c \in Approving /\ application \in Applications
  BY DEF IInv, TypeOK
<1>2. approvals = {} /\ Checker = Nobody
  BY DEF CommitApproval, IInv, OneStandingApproval, Checker
<1>3. Checker' = c.user
  <2> DEFINE a == [reviewer |-> c.user, at |-> application.version]
  <2>1. approvals' = {a} /\ a.reviewer = c.user
    BY <1>2 DEF CommitApproval
  <2> HIDE DEF a
  <2>2. (CHOOSE b \in approvals' : TRUE) = a
    BY <2>1
  <2> QED BY <2>1, <2>2 DEF Checker
<1>4. c.user \in Approvers /\ (c.user = application.submittedBy => c.user \in Managers)
  BY DEF CommitApproval, IInv, ApprovalsAsRead
<1>5. /\ application'.submittedBy = application.submittedBy /\ application'.approved = c.amount
      /\ application.status = "SUBMITTED" /\ application'.status = "APPROVED"
  BY <1>1 DEF CommitApproval, Applications
<1>6. scheduled' = scheduled /\ disbursements' = disbursements
  BY DEF CommitApproval
<1> QED BY <1>2, <1>3, <1>4, <1>5, <1>6 DEF Promise!Approve, Used

\* Payout of the approved amount, by a user who may pay it.
LEMMA DisbursalRefines ==
  ASSUME IInv, NEW c \in disbursing, CommitDisbursal(c)
  PROVE  Promise!Pay(c.user)
<1>1. c \in Disbursing /\ loan.status = "APPROVED"
  BY DEF IInv, TypeOK, CommitDisbursal, LoanAsRead
<1>2. c.principal = loan.principal /\ MayDisburse(c.user)
  BY DEF CommitDisbursal, IInv, DisbursalsAsRead
<1>3. application.status = "APPROVED" /\ loan.principal = application.approved /\ scheduled = NoAmount
  BY <1>1 DEF IInv, RowsAgree, OnePayout
<1>4. PICK a \in approvals : approvals = {a}
  BY <1>3 DEF IInv, OneStandingApproval
<1>5. Checker = a.reviewer /\ a.reviewer \in Users
  BY <1>4, CheckerIsReviewer DEF IInv, TypeOK, Approvals
<1>6. UNCHANGED <<application, approvals>> /\ Checker' = Checker /\ scheduled' = c.principal
  BY DEF CommitDisbursal, Checker
<1>7. (\E k \in Keys : Used(k))'
  <2>1. c.key \in Keys /\ [principal |-> c.principal, reversed |-> FALSE] \in Disbursements
    BY <1>1 DEF Disbursing, Disbursements
  <2>2. disbursements'[c.key] = [principal |-> c.principal, reversed |-> FALSE]
    BY <2>1 DEF CommitDisbursal, IInv, TypeOK
  <2> QED BY <2>1, <2>2, OriginationAssumption DEF Used
<1>8. c.user \in Disbursers /\ (c.user \in {application.submittedBy, Checker} => c.user \in Managers \cup Tellers)
  BY <1>2, <1>4, <1>5 DEF MayDisburse
<1> QED BY <1>2, <1>3, <1>5, <1>6, <1>7, <1>8, OriginationAssumption DEF Promise!Pay

\* Every step of the handlers is a step of ThreeHands, or none.
LEMMA StepRefines == IInv /\ [Next]_vars => [Promise!Next]_Promise!vars
<1> SUFFICES ASSUME IInv, [Next]_vars
             PROVE  [Promise!Next]_Promise!vars
  OBVIOUS
<1>0. application \in Applications
  BY DEF IInv, TypeOK
<1>1. ASSUME UNCHANGED rows
      PROVE  UNCHANGED Promise!vars
  BY <1>1 DEF rows, Promise!vars, Checker, Used
<1>2. ASSUME NEW u \in Users, Edit(u) \/ Reject(u) \/ EditFees(u)
      PROVE  UNCHANGED Promise!vars
  <2>1. /\ application'.submittedBy = application.submittedBy
        /\ application'.approved = application.approved
        /\ (application'.status = "DELETED") = (application.status = "DELETED")
        /\ UNCHANGED <<approvals, disbursements, scheduled>>
    BY <1>0, <1>2 DEF Edit, Reject, EditFees, Applications
  <2> QED BY <2>1 DEF Promise!vars, Checker, Used
<1>3. ASSUME NEW u \in Users, Submit(u)
      PROVE  Promise!Submit(u)
  <2>1. approvals = {}
    BY <1>3 DEF Submit, IInv, OneStandingApproval
  <2>2. /\ application'.submittedBy = u /\ application'.approved = application.approved
        /\ application.status = "DRAFT" /\ application'.status = "SUBMITTED"
        /\ UNCHANGED <<approvals, disbursements, scheduled>>
    BY <1>0, <1>3 DEF Submit, Applications
  <2> QED BY <2>1, <2>2 DEF Promise!Submit, Checker, Used
<1>4. ASSUME NEW u \in Users, ReturnToDraft(u) \/ ReturnToReview(u)
      PROVE  Promise!Withdraw
  <2>1. PICK status \in {"DRAFT", "SUBMITTED"} : Return(status)
    BY <1>4 DEF ReturnToDraft, ReturnToReview
  <2>2. /\ application'.submittedBy = application.submittedBy /\ application'.approved = NoAmount
        /\ application.status # "DELETED" /\ application'.status # "DELETED"
        /\ approvals' = {} /\ scheduled = NoAmount /\ UNCHANGED <<disbursements, scheduled>>
    BY <1>0, <2>1 DEF Return, Applications
  <2> QED BY <2>2 DEF Promise!Withdraw, Checker, Used
<1>5. ASSUME NEW c \in deleting, CommitDelete(c)
      PROVE  Promise!Delete
  <2>1. /\ application'.submittedBy = application.submittedBy /\ application'.approved = NoAmount
        /\ application'.status = "DELETED" /\ approvals' = {}
        /\ \A k \in Keys : ~Used(k)
        /\ UNCHANGED <<disbursements, scheduled>>
    BY <1>0, <1>5 DEF CommitDelete, Unreferenced, Applications
  <2> QED BY <2>1 DEF Promise!Delete, Checker, Used
<1>6. ASSUME NEW k \in Keys, Undo(k)
      PROVE  Promise!TakeBack
  <2>1. (\E q \in Keys : Used(q))' = (\E q \in Keys : Used(q))
    BY <1>6, UndoStep
  <2> QED BY <1>6, <2>1 DEF Undo, Promise!TakeBack, Checker
<1>7. CASE ApplicationStep
  BY <1>1, <1>2, <1>3, <1>4, <1>7, StartStep DEF ApplicationStep, Promise!Next
<1>8. CASE CommitStep
  <2>1. ASSUME NEW c \in approving, CommitApproval(c)
        PROVE  Promise!Next
    BY <2>1, ApprovalRefines DEF Promise!Next, IInv, TypeOK, Approving
  <2>2. ASSUME NEW c \in disbursing, CommitDisbursal(c)
        PROVE  Promise!Next
    BY <2>2, DisbursalRefines DEF Promise!Next, IInv, TypeOK, Disbursing
  <2> QED BY <1>1, <1>5, <1>6, <1>8, <2>1, <2>2, LoseStep DEF CommitStep, Promise!Next
<1>9. CASE UNCHANGED vars
  BY <1>1, <1>9 DEF vars
<1> QED BY <1>7, <1>8, <1>9 DEF Next

\* The handlers implement ThreeHands: the payout is of the approved amount, by a third user or one
\* entitled to act alone, and never of a file that is gone.
THEOREM HandlersKeepThreeHands == Spec => ThreeHandsKept
BY InitRefines, StepRefines, AlwaysIInv, PTL DEF Spec, ThreeHandsKept, Promise!Spec
-----------------------------------------------------------------------------
(* What follows from ThreeHands at every later moment of a file.           *)

\* A standing approval is by an entitled user, a standing payout is of the amount approved, and a file
\* that is gone never paid out.
FileInOrder ==
  /\ \A a \in approvals : /\ a.reviewer \in Approvers
                          /\ a.reviewer = application.submittedBy => a.reviewer \in Managers
  /\ scheduled # NoAmount => approvals # {} /\ scheduled = application.approved
  /\ application.status = "DELETED" => approvals = {} /\ \A k \in Keys : ~Used(k)

\* The same of what ThreeHands sees.
PromiseInOrder ==
  /\ Checker # Nobody => Checker \in Approvers /\ (Checker = application.submittedBy => Checker \in Managers)
  /\ scheduled # NoAmount => Checker # Nobody /\ scheduled = application.approved /\ \E k \in Keys : Used(k)
  /\ application.status = "DELETED" => Checker = Nobody /\ ~ \E k \in Keys : Used(k)

LEMMA PromiseInOrderStep == PromiseInOrder /\ [Promise!Next]_Promise!vars => PromiseInOrder'
<1> SUFFICES ASSUME PromiseInOrder, [Promise!Next]_Promise!vars
             PROVE  PromiseInOrder'
  OBVIOUS
<1>1. ASSUME NEW u \in Users, Promise!Submit(u) \/ Promise!Pay(u)
      PROVE  PromiseInOrder'
  BY <1>1 DEF Promise!Submit, Promise!Pay, PromiseInOrder
<1>2. ASSUME NEW u \in Users, NEW amount \in Amounts, Promise!Approve(u, amount)
      PROVE  PromiseInOrder'
  BY <1>2 DEF Promise!Approve, PromiseInOrder
<1>3. CASE Promise!Withdraw \/ Promise!TakeBack \/ Promise!Delete
  BY <1>3 DEF Promise!Withdraw, Promise!TakeBack, Promise!Delete, PromiseInOrder
<1>4. CASE UNCHANGED Promise!vars
  BY <1>4 DEF Promise!vars, PromiseInOrder
<1> QED BY <1>1, <1>2, <1>3, <1>4 DEF Promise!Next

\* However a file is approved, returned, resubmitted, paid out, undone and approved again, its standing
\* approval is by a user who may give it for whoever submitted it last, and the money that is out is
\* the amount of that approval; a deletion that overtakes a disbursement never loses a payout.
THEOREM FilesStayInOrder == Spec => []FileInOrder
<1>1. Init => PromiseInOrder
  BY DEF Init, PromiseInOrder, Checker, Used
<1>2. IInv /\ PromiseInOrder => FileInOrder
  <2> SUFFICES ASSUME IInv, PromiseInOrder PROVE FileInOrder
    OBVIOUS
  <2>1. CASE approvals = {}
    <3>1. Checker = Nobody
      BY <2>1 DEF Checker
    <3> QED BY <2>1, <3>1 DEF PromiseInOrder, FileInOrder
  <2>2. ASSUME NEW a, approvals = {a}
        PROVE  FileInOrder
    <3>1. Checker = a.reviewer /\ Checker # Nobody
      BY <2>2, CheckerIsReviewer, OriginationAssumption DEF IInv, TypeOK, Approvals
    <3> QED BY <2>2, <3>1 DEF PromiseInOrder, FileInOrder
  <2> QED BY <2>1, <2>2 DEF IInv, OneStandingApproval
<1> QED BY <1>1, <1>2, PromiseInOrderStep, StepRefines, AlwaysIInv, PTL DEF Spec
=============================================================================
