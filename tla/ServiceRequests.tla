-------------------------- MODULE ServiceRequests --------------------------
(***************************************************************************)
(* Servicing requests of one loan (lending/application/                    *)
(* loan-service-actions.ts): a user asks for a disbursement to be undone,  *)
(* for a full settlement, or for a repayment to be cancelled; another one  *)
(* approves or rejects.  Approval executes the action in the transaction   *)
(* that marks the request APPROVED.                                        *)
(*                                                                         *)
(* Both handlers check outside the transaction and act inside it, so a     *)
(* command is in `submitting' or `deciding' between its two halves, where  *)
(* other commands overtake it and a crash loses it.  The loan itself is    *)
(* what the handlers look at: its status and which repayments stand (their *)
(* amounts are in LoanServicing).                                          *)
(*                                                                         *)
(* A definition whose name ends in an underscore and a mistake is the next *)
(* definition with that mistake; it is used only to show that a property   *)
(* would notice.                                                           *)
(***************************************************************************)
EXTENDS FiniteSets, Integers

CONSTANTS
  Requests,          \* requests, by idempotency key
  Users,
  Repayments,        \* repayments that can be posted on the loan
  Reversers,         \* users with LOAN_REVERSE
  DirectCancellers,  \* users with LOAN_REPAYMENT_REVERSE
  CancelRequesters,  \* users with LOAN_REPAYMENT_REVERSE_REQUEST
  Managers,          \* users whose role passes canBypassOriginationMakerChecker
  NoRequest, Nobody, NoTarget,
  MaxInFlight        \* bound: commands between their checks and their transaction

ActionTypes == {"UNDO_DISBURSAL", "PREPAY", "FORECLOSURE", "TRANSACTION_REVERSAL"}

LoanStatuses == {"APPROVED", "ACTIVE", "IN_ARREARS", "OVERPAID", "CLOSED"}
Open == {"ACTIVE", "IN_ARREARS", "OVERPAID"}
Serviced == {"ACTIVE", "IN_ARREARS"}

Rows == [type : ActionTypes, target : Repayments \cup {NoTarget}, requestedBy : Users,
         status : {"PENDING", "APPROVED", "REJECTED"}, decidedBy : Users \cup {Nobody}]

Submissions == [id : Requests, type : ActionTypes, target : Repayments \cup {NoTarget}, user : Users]
Decisions == [id : Requests, user : Users, approve : BOOLEAN]

ASSUME RequestAssumption ==
  /\ Reversers \subseteq Users /\ DirectCancellers \subseteq Users
  /\ CancelRequesters \subseteq Users /\ Managers \subseteq Users
  /\ Nobody \notin Users /\ NoTarget \notin Repayments /\ NoRequest \notin Rows
  /\ NoRequest \notin [type : ActionTypes, requestedBy : Users]
  /\ MaxInFlight \in Nat

VARIABLES
  loanStatus,
  standing,    \* repayments posted and not cancelled
  cancelled,   \* repayments with a reversal
  settled,     \* a PREPAYMENT or FORECLOSURE transaction is on the loan
  rows,        \* LoanServiceRequest rows
  executedBy,  \* recordedByUserId of the LoanTransaction with the unique key service:<request>
  submitting,  \* requestLoanServiceAction between its checks and its transaction
  deciding     \* decideLoanServiceAction between its checks and its write

loanVars == <<loanStatus, standing, cancelled, settled>>
vars == <<loanVars, rows, executedBy, submitting, deciding>>

Init ==
  /\ loanStatus = "ACTIVE"
  /\ standing = {}
  /\ cancelled = {}
  /\ settled = FALSE
  /\ rows = [r \in Requests |-> NoRequest]
  /\ executedBy = [r \in Requests |-> Nobody]
  /\ submitting = {}
  /\ deciding = {}
-----------------------------------------------------------------------------
Exists(r) == rows[r] # NoRequest
Pending(r) == Exists(r) /\ rows[r].status = "PENDING"

CanCancelDirectly(u, type) == type = "TRANSACTION_REVERSAL" /\ u \in DirectCancellers

MayRequest(u, type) ==
  \/ u \in Reversers
  \/ type = "TRANSACTION_REVERSAL" /\ u \in DirectCancellers \cup CancelRequesters

\* assertAllowed(LOAN_REVERSE), and for one's own request the maker-checker rule; a user who can
\* cancel repayments directly skips both.
MayDecide_Own(u, row) == CanCancelDirectly(u, row.type) \/ u \in Reversers
MayDecide(u, row) ==
  \/ CanCancelDirectly(u, row.type)
  \/ u \in Reversers /\ (u = row.requestedBy => u \in Managers)

\* The checks of requestLoanServiceAction on the loan.
Requestable(type, target) ==
  CASE type = "UNDO_DISBURSAL"       -> loanStatus = "ACTIVE" /\ standing = {} /\ ~settled /\ target = NoTarget
    [] type = "PREPAY"               -> loanStatus \in Open /\ target = NoTarget
    [] type = "FORECLOSURE"          -> loanStatus \in Serviced /\ target = NoTarget
    [] type = "TRANSACTION_REVERSAL" -> target \in standing

InFlight == Cardinality(submitting) + Cardinality(deciding)

\* requestLoanServiceAction up to its transaction: a new key, permission, the loan as it is, and no
\* request of the loan pending.
Submit(r, type, target, u) ==
  /\ ~Exists(r)
  /\ MayRequest(u, type)
  /\ Requestable(type, target)
  /\ \A q \in Requests : ~Pending(q)
  /\ InFlight < MaxInFlight
  /\ submitting' = submitting \cup {[id |-> r, type |-> type, target |-> target, user |-> u]}
  /\ UNCHANGED <<loanVars, rows, executedBy, deciding>>
-----------------------------------------------------------------------------
(***************************************************************************)
(* The executors.  Each checks the loan again; the schedule, the period,   *)
(* the savings balance and the settlement account are further reasons for  *)
(* them to throw, which is LoseSubmission or LoseDecision here.            *)
(***************************************************************************)

UndoDisbursal_ToApplication ==
  /\ loanStatus = "ACTIVE"
  /\ standing = {} /\ ~settled
  /\ cancelled = {}
  /\ loanStatus' = "SUBMITTED"
  /\ UNCHANGED <<standing, cancelled, settled>>

\* The schedule is deleted, which the allocation rows of any payment forbid, cancelled or not.
UndoDisbursal ==
  /\ loanStatus = "ACTIVE"
  /\ standing = {} /\ ~settled
  /\ cancelled = {}
  /\ loanStatus' = "APPROVED"
  /\ UNCHANGED <<standing, cancelled, settled>>

SettleInFull ==
  /\ loanStatus \in Open
  /\ loanStatus' = "CLOSED"
  /\ settled' = TRUE
  /\ UNCHANGED <<standing, cancelled>>

CancelRepayment_Twice(p) ==
  /\ p \in standing \cup cancelled
  /\ loanStatus \in Open \cup {"CLOSED"}
  /\ standing' = standing \ {p}
  /\ cancelled' = cancelled \cup {p}
  /\ loanStatus' \in {"ACTIVE", "IN_ARREARS", "CLOSED"} \cup ({loanStatus} \cap {"OVERPAID"})
  /\ UNCHANGED settled

\* The new status depends on what is outstanding after it.
CancelRepayment(p) ==
  /\ p \in standing
  /\ loanStatus \in Open \cup {"CLOSED"}
  /\ standing' = standing \ {p}
  /\ cancelled' = cancelled \cup {p}
  /\ loanStatus' \in {"ACTIVE", "IN_ARREARS", "CLOSED"} \cup ({loanStatus} \cap {"OVERPAID"})
  /\ UNCHANGED settled

Effect(type, target) ==
  \/ type = "UNDO_DISBURSAL" /\ UndoDisbursal
  \/ type \in {"PREPAY", "FORECLOSURE"} /\ SettleInFull
  \/ type = "TRANSACTION_REVERSAL" /\ CancelRepayment(target)

\* The effect and its LoanTransaction, whose key no other transaction may have.
Execute(r, type, target, u) ==
  /\ executedBy[r] = Nobody
  /\ Effect(type, target)
  /\ executedBy' = [executedBy EXCEPT ![r] = u]

\* The transaction of requestLoanServiceAction: the row is created, and a direct canceller's request
\* is executed and approved with it.
CommitSubmission(c) ==
  LET direct == CanCancelDirectly(c.user, c.type)
      row == [type |-> c.type, target |-> c.target, requestedBy |-> c.user,
              status |-> IF direct THEN "APPROVED" ELSE "PENDING",
              decidedBy |-> IF direct THEN c.user ELSE Nobody]
  IN  /\ c \in submitting
      /\ submitting' = submitting \ {c}
      /\ ~Exists(c.id)
      /\ rows' = [rows EXCEPT ![c.id] = row]
      /\ IF direct THEN Execute(c.id, c.type, c.target, c.user) ELSE UNCHANGED <<loanVars, executedBy>>
      /\ UNCHANGED deciding

\* The key exists by now, the executor throws, or the server stops.
LoseSubmission(c) ==
  /\ c \in submitting
  /\ submitting' = submitting \ {c}
  /\ UNCHANGED <<loanVars, rows, executedBy, deciding>>
-----------------------------------------------------------------------------
\* decideLoanServiceAction up to its write.
Decide(r, u, approve) ==
  /\ Pending(r)
  /\ MayDecide(u, rows[r])
  /\ InFlight < MaxInFlight
  /\ deciding' = deciding \cup {[id |-> r, user |-> u, approve |-> approve]}
  /\ UNCHANGED <<loanVars, rows, executedBy, submitting>>

CommitApproval_Stale(d) ==
  /\ d \in deciding /\ d.approve
  /\ deciding' = deciding \ {d}
  /\ Execute(d.id, rows[d.id].type, rows[d.id].target, d.user)
  /\ rows' = [rows EXCEPT ![d.id].status = "APPROVED", ![d.id].decidedBy = d.user]
  /\ UNCHANGED submitting

CommitApproval_MarkedThoughItThrows(d) ==
  /\ d \in deciding /\ d.approve
  /\ deciding' = deciding \ {d}
  /\ Pending(d.id)
  /\ \/ Execute(d.id, rows[d.id].type, rows[d.id].target, d.user)
     \/ UNCHANGED <<loanVars, executedBy>>
  /\ rows' = [rows EXCEPT ![d.id].status = "APPROVED", ![d.id].decidedBy = d.user]
  /\ UNCHANGED submitting

\* Approval reads the request again in its transaction.
CommitApproval(d) ==
  /\ d \in deciding /\ d.approve
  /\ deciding' = deciding \ {d}
  /\ IF Pending(d.id)
     THEN /\ Execute(d.id, rows[d.id].type, rows[d.id].target, d.user)
          /\ rows' = [rows EXCEPT ![d.id].status = "APPROVED", ![d.id].decidedBy = d.user]
     ELSE UNCHANGED <<loanVars, executedBy, rows>>
  /\ UNCHANGED submitting

\* Rejection updates the row by its id, whatever its status has become.
CommitRejection(d) ==
  /\ d \in deciding /\ ~d.approve
  /\ deciding' = deciding \ {d}
  /\ rows' = [rows EXCEPT ![d.id].status = "REJECTED", ![d.id].decidedBy = d.user]
  /\ UNCHANGED <<loanVars, executedBy, submitting>>

LoseDecision(d) ==
  /\ d \in deciding
  /\ deciding' = deciding \ {d}
  /\ UNCHANGED <<loanVars, rows, executedBy, submitting>>

\* undoLoanDisbursalNow: one user with LOAN_REVERSE, no request row.
UndoDisbursalNow(u) ==
  /\ u \in Reversers
  /\ UndoDisbursal
  /\ UNCHANGED <<rows, executedBy, submitting, deciding>>
-----------------------------------------------------------------------------
(***************************************************************************)
(* The rest of the program, as far as the handlers can see it.             *)
(***************************************************************************)

Disburse ==
  /\ loanStatus = "APPROVED"
  /\ loanStatus' = "ACTIVE"
  /\ UNCHANGED <<standing, cancelled, settled, rows, executedBy, submitting, deciding>>

\* applyRepaymentInTransaction does not look at the status it posts on (see LoanServicing).
PostRepayment(p) ==
  /\ p \notin standing \cup cancelled
  /\ standing' = standing \cup {p}
  /\ loanStatus' \in {"OVERPAID", "CLOSED"} \cup (IF loanStatus \in Serviced THEN {loanStatus, "ACTIVE"} ELSE {})
  /\ UNCHANGED <<cancelled, settled, rows, executedBy, submitting, deciding>>

ClassifyArrears ==
  /\ loanStatus \in Serviced
  /\ loanStatus' \in (Serviced \cup {"CLOSED"}) \ {loanStatus}
  /\ UNCHANGED <<standing, cancelled, settled, rows, executedBy, submitting, deciding>>
-----------------------------------------------------------------------------
RequestStep ==
  \/ \E r \in Requests, type \in ActionTypes, target \in Repayments \cup {NoTarget}, u \in Users :
       Submit(r, type, target, u)
  \/ \E c \in submitting : CommitSubmission(c) \/ LoseSubmission(c)

DecisionStep ==
  \/ \E r \in Requests, u \in Users, approve \in BOOLEAN : Decide(r, u, approve)
  \/ \E d \in deciding : CommitApproval(d)
  \/ \E d \in deciding : CommitRejection(d)
  \/ \E d \in deciding : LoseDecision(d)
  \/ \E u \in Users : UndoDisbursalNow(u)

LoanStep ==
  \/ Disburse
  \/ \E p \in Repayments : PostRepayment(p)
  \/ ClassifyArrears

Next == RequestStep \/ DecisionStep \/ LoanStep

Spec == Init /\ [][Next]_vars
-----------------------------------------------------------------------------
TypeOK ==
  /\ loanStatus \in LoanStatuses
  /\ standing \subseteq Repayments
  /\ cancelled \subseteq Repayments
  /\ settled \in BOOLEAN
  /\ rows \in [Requests -> Rows \cup {NoRequest}]
  /\ executedBy \in [Requests -> Users \cup {Nobody}]
  /\ submitting \subseteq Submissions
  /\ deciding \subseteq Decisions

Executed(r) == executedBy[r] # Nobody

\* loan-service-actions.ts: "a request can never be left "approved" without its financial effects
\* applied".  An approved request was executed, by the user its row names.
ApprovedHasEffects ==
  \A r \in Requests : Exists(r) /\ rows[r].status = "APPROVED" => Executed(r) /\ executedBy[r] = rows[r].decidedBy

\* A repayment is cancelled by exactly one request, even when two requests for it were pending
\* together and both are approved.
PaymentCancelledOnce ==
  \A p \in Repayments :
    Cardinality({r \in Requests : Executed(r) /\ rows[r].type = "TRANSACTION_REVERSAL" /\ rows[r].target = p})
      = IF p \in cancelled THEN 1 ELSE 0

\* A request takes effect while it is pending or while it is created, never after it was rejected,
\* however long its approver's command was on the way.
EffectsOnlyWhilePending ==
  [][\A r \in Requests : ~Executed(r) /\ Executed(r)' => Pending(r) \/ ~Exists(r)]_vars
-----------------------------------------------------------------------------
Checkers == [type \in ActionTypes |->
               IF type = "TRANSACTION_REVERSAL" THEN Reversers \cup DirectCancellers ELSE Reversers]
Alone == [type \in ActionTypes |->
            IF type = "TRANSACTION_REVERSAL" THEN DirectCancellers \cup (Managers \cap Reversers)
            ELSE Managers \cap Reversers]

ProposalOf(r) == IF Exists(r) THEN [type |-> rows[r].type, requestedBy |-> rows[r].requestedBy] ELSE NoRequest
Proposal == [r \in Requests |-> ProposalOf(r)]

Promise == INSTANCE FourEyes WITH proposal <- Proposal

\* Requests take effect at most once and by the hand of an entitled checker: the handlers, with their
\* checks outside the transaction, implement FourEyes.
FourEyesKept == Promise!Spec
=============================================================================
