----------------------- MODULE ServiceRequests_proofs -----------------------
(***************************************************************************)
(* Safety of servicing requests for any users, permissions, repayments and *)
(* requests, and their implementation of FourEyes.                         *)
(***************************************************************************)
EXTENDS ServiceRequests, FiniteSetTheorems, TLAPS

\* Only an existing request has been executed; an approved one has, by the user its row names.
ExecutedExists == \A r \in Requests : Executed(r) => Exists(r)

\* A decision on the way was made by a user who may decide the request, which stays true because a
\* request keeps its type and its requester.
DeciderEntitled == \A d \in deciding : Exists(d.id) /\ MayDecide(d.user, rows[d.id])

Cancels(r, p) == Executed(r) /\ rows[r].type = "TRANSACTION_REVERSAL" /\ rows[r].target = p

\* A repayment is cancelled if and only if a request executed its cancellation, and one request only.
CancelledByOne ==
  /\ standing \cap cancelled = {}
  /\ \A r \in Requests, p \in Repayments : Cancels(r, p) => p \in cancelled
  /\ \A p \in cancelled : \E r \in Requests : Cancels(r, p)
  /\ \A q, r \in Requests, p \in Repayments : Cancels(q, p) /\ Cancels(r, p) => q = r

IInv == TypeOK /\ ExecutedExists /\ DeciderEntitled /\ ApprovedHasEffects

LEMMA InitIInv == Init => IInv /\ CancelledByOne
BY RequestAssumption
   DEF Init, IInv, TypeOK, ExecutedExists, DeciderEntitled, ApprovedHasEffects, CancelledByOne, Cancels,
       Executed, Exists, LoanStatuses
-----------------------------------------------------------------------------
\* An executor changes the loan only, and leaves it well typed.
LEMMA EffectType ==
  ASSUME TypeOK, NEW type, NEW target, Effect(type, target)
  PROVE  /\ loanStatus' \in LoanStatuses
         /\ standing' \subseteq Repayments
         /\ cancelled' \subseteq Repayments
         /\ settled' \in BOOLEAN
<1>1. CASE UndoDisbursal
  BY <1>1 DEF UndoDisbursal, TypeOK, LoanStatuses
<1>2. CASE SettleInFull
  BY <1>2 DEF SettleInFull, TypeOK, LoanStatuses
<1>3. CASE CancelRepayment(target)
  BY <1>3 DEF CancelRepayment, TypeOK, LoanStatuses
<1> QED BY <1>1, <1>2, <1>3 DEF Effect

\* The commit of a submission: its row is new, and an executed one is a direct cancellation.
LEMMA CommitSubmissionStep ==
  ASSUME IInv, NEW c \in submitting, CommitSubmission(c)
  PROVE  IInv'
<1>0. c \in Submissions /\ TypeOK
  BY DEF IInv, TypeOK
<1> DEFINE direct == CanCancelDirectly(c.user, c.type)
           row == [type |-> c.type, target |-> c.target, requestedBy |-> c.user,
                   status |-> IF direct THEN "APPROVED" ELSE "PENDING",
                   decidedBy |-> IF direct THEN c.user ELSE Nobody]
<1>1. /\ row \in Rows
      /\ ~Exists(c.id) /\ c.id \in Requests /\ c.user \in Users
      /\ rows' = [rows EXCEPT ![c.id] = row]
      /\ submitting' \subseteq submitting /\ deciding' = deciding
  BY <1>0 DEF CommitSubmission, Submissions, Rows
<1>2. row # NoRequest
  BY <1>1, RequestAssumption
<1>3. \A r \in Requests : rows'[r] = IF r = c.id THEN row ELSE rows[r]
  BY <1>0, <1>1 DEF TypeOK
<1>4. row.status = IF direct THEN "APPROVED" ELSE "PENDING"
  OBVIOUS
<1>4a. direct => row.decidedBy = c.user
  OBVIOUS
<1> HIDE DEF row
<1>5. CASE direct
  <2>1. Execute(c.id, c.type, c.target, c.user)
    BY <1>5 DEF CommitSubmission
  <2>2. executedBy' = [executedBy EXCEPT ![c.id] = c.user]
    BY <2>1 DEF Execute
  <2>3. TypeOK'
    BY <1>0, <1>1, <2>1, <2>2, EffectType DEF Execute, TypeOK
  <2>4. ExecutedExists'
    BY <1>0, <1>1, <1>2, <1>3, <2>2 DEF IInv, ExecutedExists, Executed, Exists, TypeOK
  <2>5. DeciderEntitled'
    BY <1>0, <1>1, <1>3 DEF IInv, DeciderEntitled, Exists, MayDecide, CanCancelDirectly, TypeOK, Decisions
  <2>6. ApprovedHasEffects'
    BY <1>0, <1>1, <1>3, <1>4a, <1>5, <2>2, RequestAssumption
       DEF IInv, ApprovedHasEffects, Executed, Exists, TypeOK
  <2> QED BY <2>3, <2>4, <2>5, <2>6 DEF IInv
<1>6. CASE ~direct
  <2>1. UNCHANGED <<loanVars, executedBy>>
    BY <1>6 DEF CommitSubmission
  <2>2. TypeOK'
    BY <1>0, <1>1, <2>1 DEF TypeOK, loanVars
  <2>3. ExecutedExists'
    BY <1>0, <1>2, <1>3, <2>1 DEF IInv, ExecutedExists, Executed, Exists
  <2>4. DeciderEntitled'
    BY <1>0, <1>1, <1>3 DEF IInv, DeciderEntitled, Exists, MayDecide, CanCancelDirectly, TypeOK, Decisions
  <2>5. ApprovedHasEffects'
    BY <1>3, <1>4, <1>6, <2>1 DEF IInv, ApprovedHasEffects, Executed, Exists
  <2> QED BY <2>2, <2>3, <2>4, <2>5 DEF IInv
<1> QED BY <1>5, <1>6

\* What a write to the status of request r leaves: the row exists and keeps its type and requester.
LEMMA DecidedRow ==
  ASSUME TypeOK, NEW r \in Requests, Exists(r), NEW u \in Users, NEW s \in {"APPROVED", "REJECTED"},
         rows' = [rows EXCEPT ![r].status = s, ![r].decidedBy = u]
  PROVE  /\ rows' \in [Requests -> Rows \cup {NoRequest}]
         /\ \A q \in Requests \ {r} : rows'[q] = rows[q]
         /\ rows'[r].status = s /\ rows'[r].decidedBy = u
         /\ rows'[r].type = rows[r].type /\ rows'[r].requestedBy = rows[r].requestedBy
         /\ rows'[r].target = rows[r].target
         /\ rows'[r] # NoRequest
<1>1. rows[r] \in Rows
  BY DEF TypeOK, Exists
<1> DEFINE new == [rows[r] EXCEPT !.status = s, !.decidedBy = u]
<1>2. /\ new \in Rows
      /\ new.status = s /\ new.decidedBy = u
      /\ new.type = rows[r].type /\ new.requestedBy = rows[r].requestedBy /\ new.target = rows[r].target
  BY <1>1 DEF Rows
<1>3. rows' = [rows EXCEPT ![r] = new]
  BY Zenon DEF TypeOK
<1> HIDE DEF new
<1>4. rows'[r] = new /\ \A q \in Requests \ {r} : rows'[q] = rows[q]
  BY <1>3 DEF TypeOK
<1> QED BY <1>2, <1>3, <1>4, RequestAssumption DEF TypeOK

LEMMA CommitApprovalStep ==
  ASSUME IInv, NEW d \in deciding, CommitApproval(d)
  PROVE  IInv'
<1>0. /\ TypeOK /\ d.id \in Requests /\ d.user \in Users /\ Exists(d.id)
      /\ deciding' \subseteq deciding /\ submitting' = submitting
  BY DEF IInv, TypeOK, Decisions, DeciderEntitled, CommitApproval
<1>1. CASE Pending(d.id)
  <2>1. /\ Execute(d.id, rows[d.id].type, rows[d.id].target, d.user)
        /\ rows' = [rows EXCEPT ![d.id].status = "APPROVED", ![d.id].decidedBy = d.user]
    BY <1>1 DEF CommitApproval
  <2>2. executedBy' = [executedBy EXCEPT ![d.id] = d.user]
    BY <2>1 DEF Execute
  <2>3. /\ rows' \in [Requests -> Rows \cup {NoRequest}]
        /\ \A q \in Requests \ {d.id} : rows'[q] = rows[q]
        /\ rows'[d.id].decidedBy = d.user /\ rows'[d.id] # NoRequest
        /\ rows'[d.id].type = rows[d.id].type /\ rows'[d.id].requestedBy = rows[d.id].requestedBy
    BY <1>0, <2>1, DecidedRow
  <2>4. TypeOK'
    BY <1>0, <2>1, <2>2, <2>3, EffectType DEF Execute, TypeOK
  <2>5. ExecutedExists'
    BY <1>0, <2>2, <2>3 DEF IInv, ExecutedExists, Executed, Exists, TypeOK
  <2>6. DeciderEntitled'
    BY <1>0, <2>3 DEF IInv, DeciderEntitled, Exists, MayDecide, CanCancelDirectly, TypeOK, Decisions
  <2>7. ApprovedHasEffects'
    BY <1>0, <2>2, <2>3, RequestAssumption DEF IInv, ApprovedHasEffects, Executed, Exists, TypeOK
  <2> QED BY <2>4, <2>5, <2>6, <2>7 DEF IInv
<1>2. CASE ~Pending(d.id)
  <2>1. UNCHANGED <<loanVars, executedBy, rows>>
    BY <1>2 DEF CommitApproval
  <2> QED BY <1>0, <2>1 DEF IInv, TypeOK, loanVars, ExecutedExists, DeciderEntitled, ApprovedHasEffects,
                             Executed, Exists, MayDecide, CanCancelDirectly
<1> QED BY <1>1, <1>2

LEMMA CommitRejectionStep ==
  ASSUME IInv, NEW d \in deciding, CommitRejection(d)
  PROVE  IInv'
<1>0. /\ TypeOK /\ d.id \in Requests /\ d.user \in Users /\ Exists(d.id)
      /\ deciding' \subseteq deciding
      /\ rows' = [rows EXCEPT ![d.id].status = "REJECTED", ![d.id].decidedBy = d.user]
      /\ UNCHANGED <<loanVars, executedBy, submitting>>
  BY DEF IInv, TypeOK, Decisions, DeciderEntitled, CommitRejection
<1>1. /\ rows' \in [Requests -> Rows \cup {NoRequest}]
      /\ \A q \in Requests \ {d.id} : rows'[q] = rows[q]
      /\ rows'[d.id].status = "REJECTED" /\ rows'[d.id] # NoRequest
      /\ rows'[d.id].type = rows[d.id].type /\ rows'[d.id].requestedBy = rows[d.id].requestedBy
  BY <1>0, DecidedRow
<1>2. TypeOK'
  BY <1>0, <1>1 DEF TypeOK, loanVars
<1>3. ExecutedExists'
  BY <1>0, <1>1 DEF IInv, ExecutedExists, Executed, Exists
<1>4. DeciderEntitled'
  BY <1>0, <1>1 DEF IInv, DeciderEntitled, Exists, MayDecide, CanCancelDirectly, TypeOK, Decisions
<1>5. ApprovedHasEffects'
  BY <1>0, <1>1 DEF IInv, ApprovedHasEffects, Executed, Exists
<1> QED BY <1>2, <1>3, <1>4, <1>5 DEF IInv

\* A command that starts deciding is entitled to.
NewDecisionsEntitled == \A d \in deciding' \ deciding : Exists(d.id) /\ MayDecide(d.user, rows[d.id])

\* The steps that write neither a row nor executedBy.
LEMMA OtherStep ==
  ASSUME IInv, TypeOK', rows' = rows, executedBy' = executedBy, NewDecisionsEntitled
  PROVE  IInv'
BY DEF IInv, ExecutedExists, DeciderEntitled, ApprovedHasEffects, Executed, Exists, MayDecide,
       CanCancelDirectly, NewDecisionsEntitled

LEMMA NextIInv == IInv /\ [Next]_vars => IInv'
<1> SUFFICES ASSUME IInv, [Next]_vars
             PROVE  IInv'
  OBVIOUS
<1>0. TypeOK
  BY DEF IInv
<1>1. CASE RequestStep
  <2>1. ASSUME NEW r \in Requests, NEW type \in ActionTypes, NEW target \in Repayments \cup {NoTarget},
               NEW u \in Users, Submit(r, type, target, u)
        PROVE  IInv'
    <3>1. [id |-> r, type |-> type, target |-> target, user |-> u] \in Submissions
      BY <2>1 DEF Submissions
    <3>2. TypeOK'
      BY <1>0, <2>1, <3>1 DEF Submit, TypeOK, loanVars
    <3> QED BY <2>1, <3>2, OtherStep DEF NewDecisionsEntitled, Submit
  <2>2. ASSUME NEW c \in submitting, LoseSubmission(c)
        PROVE  IInv'
    <3>1. TypeOK'
      BY <1>0, <2>2 DEF LoseSubmission, TypeOK, loanVars
    <3> QED BY <2>2, <3>1, OtherStep DEF NewDecisionsEntitled, LoseSubmission
  <2> QED BY <1>1, <2>1, <2>2, CommitSubmissionStep DEF RequestStep
<1>2. CASE DecisionStep
  <2>1. ASSUME NEW r \in Requests, NEW u \in Users, NEW approve \in BOOLEAN, Decide(r, u, approve)
        PROVE  IInv'
    <3>1. [id |-> r, user |-> u, approve |-> approve] \in Decisions
      BY <2>1 DEF Decisions
    <3>2. TypeOK'
      BY <1>0, <2>1, <3>1 DEF Decide, TypeOK, loanVars
    <3> QED BY <2>1, <3>2, OtherStep DEF NewDecisionsEntitled, Decide, Pending
  <2>2. ASSUME NEW d \in deciding, LoseDecision(d)
        PROVE  IInv'
    <3>1. TypeOK'
      BY <1>0, <2>2 DEF LoseDecision, TypeOK, loanVars
    <3> QED BY <2>2, <3>1, OtherStep DEF NewDecisionsEntitled, LoseDecision
  <2>3. ASSUME NEW u \in Users, UndoDisbursalNow(u)
        PROVE  IInv'
    <3>1. TypeOK'
      BY <1>0, <2>3 DEF UndoDisbursalNow, UndoDisbursal, TypeOK, LoanStatuses
    <3> QED BY <2>3, <3>1, OtherStep DEF NewDecisionsEntitled, UndoDisbursalNow
  <2> QED BY <1>2, <2>1, <2>2, <2>3, CommitApprovalStep, CommitRejectionStep DEF DecisionStep
<1>3. CASE LoanStep
  <2>1. TypeOK'
    BY <1>0, <1>3 DEF LoanStep, Disburse, PostRepayment, ClassifyArrears, TypeOK, LoanStatuses, Serviced
  <2>2. UNCHANGED <<rows, executedBy, deciding>>
    BY <1>3 DEF LoanStep, Disburse, PostRepayment, ClassifyArrears
  <2> QED BY <2>1, <2>2, OtherStep DEF NewDecisionsEntitled
<1>4. CASE UNCHANGED vars
  BY <1>0, <1>4, OtherStep DEF NewDecisionsEntitled, vars, loanVars, TypeOK
<1> QED BY <1>1, <1>2, <1>3, <1>4 DEF Next

LEMMA Inductive == Spec => []IInv
BY InitIInv, NextIInv, PTL DEF Spec

\* The rows and the commands on the way keep to their types: no executor cancels or restores anything
\* that is not a repayment of the loan.
THEOREM Typed == Spec => []TypeOK
BY Inductive, PTL DEF IInv

\* The comment on decideLoanServiceAction: the effect and the status of a request are written in one
\* transaction, so an approved request always has its effect, by the user who decided it.
THEOREM ApprovedRequestsTookEffect == Spec => []ApprovedHasEffects
BY Inductive, PTL DEF IInv
-----------------------------------------------------------------------------
(***************************************************************************)
(* Every step is a step of FourEyes, or leaves what it sees alone.         *)
(***************************************************************************)

\* A decision writes the status of an existing row, which FourEyes does not see.
LEMMA DecisionKeepsProposal ==
  ASSUME TypeOK, NEW r \in Requests, Exists(r), NEW u \in Users, NEW s \in {"APPROVED", "REJECTED"},
         rows' = [rows EXCEPT ![r].status = s, ![r].decidedBy = u]
  PROVE  Proposal' = Proposal
<1>1. /\ \A q \in Requests \ {r} : rows'[q] = rows[q]
      /\ rows'[r].type = rows[r].type /\ rows'[r].requestedBy = rows[r].requestedBy
      /\ rows'[r] # NoRequest
  BY DecidedRow
<1>2. \A q \in Requests : ProposalOf(q)' = ProposalOf(q)
  BY <1>1 DEF ProposalOf, Exists
<1> QED BY <1>2 DEF Proposal

\* An approval that still finds its request pending is an Execute step.
LEMMA ApprovalIsExecute ==
  ASSUME IInv, NEW d \in deciding, CommitApproval(d)
  PROVE  Promise!Execute(d.id, d.user) \/ UNCHANGED Promise!vars
<1>0. /\ TypeOK /\ d.id \in Requests /\ d.user \in Users
      /\ Exists(d.id) /\ MayDecide(d.user, rows[d.id])
  BY DEF IInv, TypeOK, Decisions, DeciderEntitled
<1>1. CASE Pending(d.id)
  <2>1. /\ Execute(d.id, rows[d.id].type, rows[d.id].target, d.user)
        /\ rows' = [rows EXCEPT ![d.id].status = "APPROVED", ![d.id].decidedBy = d.user]
    BY <1>1 DEF CommitApproval
  <2>2. Proposal' = Proposal
    BY <1>0, <2>1, DecisionKeepsProposal
  <2>3. rows[d.id] \in Rows
    BY <1>0 DEF TypeOK, Exists
  <2>4. rows[d.id].type \in ActionTypes /\ rows[d.id].requestedBy \in Users
    BY <2>3 DEF Rows
  <2>5. /\ Proposal[d.id] = [type |-> rows[d.id].type, requestedBy |-> rows[d.id].requestedBy]
        /\ Proposal[d.id] # NoRequest
    BY <1>0, <2>4, RequestAssumption DEF Proposal, ProposalOf
  <2>6. d.user \in IF d.user = rows[d.id].requestedBy THEN Alone[rows[d.id].type] ELSE Checkers[rows[d.id].type]
    BY <1>0, <2>4 DEF MayDecide, CanCancelDirectly, Alone, Checkers
  <2> QED BY <1>0, <2>1, <2>2, <2>5, <2>6 DEF Execute, Promise!Execute
<1>2. CASE ~Pending(d.id)
  BY <1>2 DEF CommitApproval, Promise!vars, Proposal, ProposalOf, Exists
<1> QED BY <1>1, <1>2

\* A submission is a Propose step, a direct cancellation a ProposeAndExecute step.
LEMMA SubmissionIsPropose ==
  ASSUME IInv, NEW c \in submitting, CommitSubmission(c)
  PROVE  Promise!Propose(c.id, c.type, c.user) \/ Promise!ProposeAndExecute(c.id, c.type, c.user)
<1>0. /\ TypeOK /\ c.id \in Requests /\ c.user \in Users /\ c.type \in ActionTypes
  BY DEF IInv, TypeOK, Submissions
<1> DEFINE direct == CanCancelDirectly(c.user, c.type)
           row == [type |-> c.type, target |-> c.target, requestedBy |-> c.user,
                   status |-> IF direct THEN "APPROVED" ELSE "PENDING",
                   decidedBy |-> IF direct THEN c.user ELSE Nobody]
<1>1. /\ ~Exists(c.id) /\ rows' = [rows EXCEPT ![c.id] = row]
      /\ IF direct THEN Execute(c.id, c.type, c.target, c.user) ELSE UNCHANGED <<loanVars, executedBy>>
  BY DEF CommitSubmission
<1>2. row \in Rows
  BY <1>0 DEF Rows, Submissions, IInv, TypeOK
<1>3. row # NoRequest
  BY <1>2, RequestAssumption
<1>4. row.type = c.type /\ row.requestedBy = c.user
  OBVIOUS
<1> HIDE DEF row
<1>5. \A r \in Requests : rows'[r] = IF r = c.id THEN row ELSE rows[r]
  BY <1>0, <1>1 DEF TypeOK
<1>6. \A r \in Requests :
        ProposalOf(r)' = IF r = c.id THEN [type |-> c.type, requestedBy |-> c.user] ELSE ProposalOf(r)
  BY <1>3, <1>4, <1>5 DEF ProposalOf, Exists
<1>7. /\ Proposal' = [Proposal EXCEPT ![c.id] = [type |-> c.type, requestedBy |-> c.user]]
      /\ Proposal[c.id] = NoRequest
  BY <1>0, <1>1, <1>6 DEF Proposal, ProposalOf
<1>8. CASE direct
  <2>1. c.user \in Alone[c.type]
    BY <1>0, <1>8 DEF CanCancelDirectly, Alone
  <2> QED BY <1>1, <1>7, <1>8, <2>1 DEF Execute, Promise!ProposeAndExecute
<1>9. CASE ~direct
  BY <1>1, <1>7, <1>9 DEF Promise!Propose
<1> QED BY <1>8, <1>9

LEMMA RejectionIsStutter ==
  ASSUME IInv, NEW d \in deciding, CommitRejection(d)
  PROVE  UNCHANGED Promise!vars
<1>1. /\ TypeOK /\ d.id \in Requests /\ d.user \in Users /\ Exists(d.id)
  BY DEF IInv, TypeOK, Decisions, DeciderEntitled
<1>2. Proposal' = Proposal
  BY <1>1, DecisionKeepsProposal DEF CommitRejection
<1> QED BY <1>2 DEF CommitRejection, Promise!vars

LEMMA UnseenIsStutter ==
  ASSUME rows' = rows, executedBy' = executedBy
  PROVE  UNCHANGED Promise!vars
BY DEF Promise!vars, Proposal, ProposalOf, Exists

LEMMA StepSimulates == IInv /\ [Next]_vars => [Promise!Next]_(Promise!vars)
<1> SUFFICES ASSUME IInv, [Next]_vars
             PROVE  [Promise!Next]_(Promise!vars)
  OBVIOUS
<1>1. ASSUME NEW c \in submitting, CommitSubmission(c)
      PROVE  Promise!Next
  <2>1. c.id \in Requests /\ c.user \in Users /\ c.type \in ActionTypes
    BY DEF IInv, TypeOK, Submissions
  <2> QED BY <1>1, <2>1, SubmissionIsPropose DEF Promise!Next
<1>2. ASSUME NEW d \in deciding, CommitApproval(d)
      PROVE  [Promise!Next]_(Promise!vars)
  <2>1. d.id \in Requests /\ d.user \in Users
    BY DEF IInv, TypeOK, Decisions
  <2> QED BY <1>2, <2>1, ApprovalIsExecute DEF Promise!Next
<1>3. ASSUME NEW d \in deciding, CommitRejection(d)
      PROVE  [Promise!Next]_(Promise!vars)
  BY <1>3, RejectionIsStutter
<1>4. CASE UNCHANGED <<rows, executedBy>>
  BY <1>4, UnseenIsStutter
<1>5. CASE RequestStep
  BY <1>1, <1>4, <1>5 DEF RequestStep, Submit, LoseSubmission
<1>6. CASE DecisionStep
  BY <1>2, <1>3, <1>4, <1>6 DEF DecisionStep, Decide, LoseDecision, UndoDisbursalNow
<1>7. CASE LoanStep
  BY <1>4, <1>7 DEF LoanStep, Disburse, PostRepayment, ClassifyArrears
<1>8. CASE UNCHANGED vars
  BY <1>4, <1>8 DEF vars
<1> QED BY <1>5, <1>6, <1>7, <1>8 DEF Next

\* requestLoanServiceAction and decideLoanServiceAction, with their checks made outside the transaction
\* they act in, keep the four-eyes promise: at most one effect per request, by an entitled checker,
\* and by the requester alone only where the permission or the role says so.
THEOREM HandlersKeepFourEyes == Spec => FourEyesKept
<1>1. Init => Promise!Init
  BY DEF Init, Promise!Init, Proposal, ProposalOf, Exists
<1> QED BY <1>1, StepSimulates, Inductive, PTL DEF Spec, FourEyesKept, Promise!Spec
-----------------------------------------------------------------------------
(* What follows from FourEyes at every later moment of a request.          *)

\* Who may carry out a proposal: its maker only when entitled to act alone on it.
Entitled(p) == {u \in Users : u \in IF u = p.requestedBy THEN Alone[p.type] ELSE Checkers[p.type]}
EntitledExecutor == \A r \in Requests : Executed(r) => Exists(r) /\ executedBy[r] \in Entitled(Proposal[r])
ExecutorOfProposal ==
  \A r \in Requests : Executed(r) => Proposal[r] # NoRequest /\ executedBy[r] \in Entitled(Proposal[r])

\* Once carried out, a request keeps its executor, its type and its requester.
ExecutionFinal ==
  [][\A r \in Requests : Executed(r) => executedBy'[r] = executedBy[r] /\ Proposal'[r] = Proposal[r]]_vars

\* What entitlement means, and that nobody is not a user.
LEMMA WhoIsEntitled ==
  ASSUME NEW p, NEW u \in Users
  PROVE  /\ u \in Entitled(p)
              <=> u \in IF u = p.requestedBy THEN Alone[p.type] ELSE Checkers[p.type]
         /\ Nobody \notin Entitled(p)
BY RequestAssumption DEF Entitled

\* A step of FourEyes on one request.
LEMMA PromiseStep ==
  ASSUME TypeOK, [Promise!Next]_(Promise!vars), NEW r \in Requests
  PROVE  \/ Proposal'[r] = Proposal[r] /\ executedBy'[r] = executedBy[r]
         \/ /\ executedBy[r] = Nobody
            /\ executedBy'[r] = Nobody \/ (Proposal'[r] # NoRequest /\ executedBy'[r] \in Entitled(Proposal'[r]))
         \/ Proposal[r] = NoRequest /\ executedBy'[r] = executedBy[r]
<1>0. /\ executedBy \in [Requests -> Users \cup {Nobody}]
      /\ Proposal \in [Requests -> {Proposal[q] : q \in Requests}]
  BY DEF TypeOK, Proposal
<1>1. ASSUME NEW q \in Requests, NEW u \in Users, Promise!Execute(q, u)
      PROVE  \/ Proposal'[r] = Proposal[r] /\ executedBy'[r] = executedBy[r]
             \/ /\ executedBy[r] = Nobody
                /\ Proposal'[r] # NoRequest /\ executedBy'[r] \in Entitled(Proposal'[r])
  BY <1>0, <1>1, WhoIsEntitled DEF Promise!Execute
<1>2. ASSUME NEW q \in Requests, NEW type \in ActionTypes, NEW u \in Users, Promise!Propose(q, type, u)
      PROVE  \/ Proposal'[r] = Proposal[r] /\ executedBy'[r] = executedBy[r]
             \/ Proposal[r] = NoRequest /\ executedBy'[r] = executedBy[r]
  BY <1>0, <1>2 DEF Promise!Propose
<1>3. ASSUME NEW q \in Requests, NEW type \in ActionTypes, NEW u \in Users, Promise!ProposeAndExecute(q, type, u)
      PROVE  \/ Proposal'[r] = Proposal[r] /\ executedBy'[r] = executedBy[r]
             \/ /\ executedBy[r] = Nobody
                /\ Proposal'[r] # NoRequest /\ executedBy'[r] \in Entitled(Proposal'[r])
  <2> DEFINE p == [type |-> type, requestedBy |-> u]
  <2>1. p # NoRequest /\ u \in Entitled(p)
    BY <1>3, RequestAssumption DEF Promise!ProposeAndExecute, Entitled
  <2>2. executedBy[q] = Nobody /\ Proposal' = [Proposal EXCEPT ![q] = p] /\ executedBy' = [executedBy EXCEPT ![q] = u]
    BY <1>3 DEF Promise!ProposeAndExecute
  <2> HIDE DEF p
  <2> QED BY <1>0, <2>1, <2>2
<1>4. CASE UNCHANGED Promise!vars
  BY <1>4 DEF Promise!vars
<1> QED BY <1>1, <1>2, <1>3, <1>4 DEF Promise!Next

LEMMA AlwaysExecutorOfProposal == Spec => []ExecutorOfProposal
<1>1. Init => ExecutorOfProposal
  BY DEF Init, ExecutorOfProposal, Executed
<1>2. TypeOK /\ ExecutorOfProposal /\ [Promise!Next]_(Promise!vars) => ExecutorOfProposal'
  <2> SUFFICES ASSUME TypeOK, ExecutorOfProposal, [Promise!Next]_(Promise!vars), NEW r \in Requests, Executed(r)'
               PROVE  Proposal'[r] # NoRequest /\ executedBy'[r] \in Entitled(Proposal'[r])
    BY DEF ExecutorOfProposal, Entitled, Alone, Checkers
  <2>1. Executed(r) => Proposal[r] # NoRequest /\ executedBy[r] \in Entitled(Proposal[r])
    BY DEF ExecutorOfProposal
  <2> QED BY <2>1, PromiseStep DEF Executed
<1>3. IInv => TypeOK
  BY DEF IInv
<1> QED BY <1>1, <1>2, <1>3, StepSimulates, Inductive, PTL DEF Spec

\* However requests, decisions and lost commands interleave, what a request did to the loan was done by
\* a user entitled to it: a second pair of eyes, or its maker with the right to act alone.
THEOREM ExecutedByEntitled == Spec => []EntitledExecutor
<1>1. IInv /\ ExecutorOfProposal => EntitledExecutor
  BY DEF IInv, ExecutedExists, ExecutorOfProposal, EntitledExecutor
<1> QED BY <1>1, AlwaysExecutorOfProposal, Inductive, PTL

\* No later decision, however late its command, carries a request out again, passes it to another
\* user or turns it into another action.
THEOREM ExecutedOnce == Spec => ExecutionFinal
<1>1. IInv /\ ExecutorOfProposal /\ [Next]_vars
        => [\A r \in Requests : Executed(r) => executedBy'[r] = executedBy[r] /\ Proposal'[r] = Proposal[r]]_vars
  BY StepSimulates, PromiseStep DEF ExecutorOfProposal, Executed, IInv
<1> QED BY <1>1, AlwaysExecutorOfProposal, Inductive, PTL DEF Spec, ExecutionFinal
-----------------------------------------------------------------------------
\* Which steps write executedBy, and when.
LEMMA WhoExecutes ==
  ASSUME IInv, [Next]_vars, executedBy' # executedBy
  PROVE  \/ \E c \in submitting : /\ CommitSubmission(c)
                                  /\ Execute(c.id, c.type, c.target, c.user)
                                  /\ CanCancelDirectly(c.user, c.type)
         \/ \E d \in deciding : /\ CommitApproval(d) /\ Pending(d.id)
                                /\ Execute(d.id, rows[d.id].type, rows[d.id].target, d.user)
<1>1. CASE RequestStep
  BY <1>1 DEF RequestStep, Submit, CommitSubmission, LoseSubmission
<1>2. CASE DecisionStep
  BY <1>2 DEF DecisionStep, Decide, CommitApproval, CommitRejection, LoseDecision, UndoDisbursalNow
<1>3. CASE LoanStep
  BY <1>3 DEF LoanStep, Disburse, PostRepayment, ClassifyArrears
<1>4. CASE UNCHANGED vars
  BY <1>4 DEF vars
<1> QED BY <1>1, <1>2, <1>3, <1>4 DEF Next

\* decideLoanServiceAction reads the request again inside its transaction: a request rejected while its
\* approver's command was on the way is not executed.
THEOREM EffectNeedsPending == Spec => EffectsOnlyWhilePending
<1>1. IInv /\ [Next]_vars => [\A r \in Requests : ~Executed(r) /\ Executed(r)' => Pending(r) \/ ~Exists(r)]_vars
  <2> SUFFICES ASSUME IInv, [Next]_vars, NEW r \in Requests, ~Executed(r), Executed(r)'
               PROVE  Pending(r) \/ ~Exists(r)
    OBVIOUS
  <2>1. executedBy' # executedBy
    BY DEF Executed
  <2>2. ASSUME NEW c \in submitting, CommitSubmission(c), Execute(c.id, c.type, c.target, c.user)
        PROVE  ~Exists(r)
    BY <2>2 DEF CommitSubmission, Execute, Executed, IInv, TypeOK
  <2>3. ASSUME NEW d \in deciding, Pending(d.id), Execute(d.id, rows[d.id].type, rows[d.id].target, d.user)
        PROVE  Pending(r)
    BY <2>3 DEF Execute, Executed, IInv, TypeOK
  <2> QED BY <2>1, <2>2, <2>3, WhoExecutes
<1> QED BY <1>1, Inductive, PTL DEF Spec, EffectsOnlyWhilePending
-----------------------------------------------------------------------------
(***************************************************************************)
(* A repayment is cancelled once.                                          *)
(***************************************************************************)

\* The type and target of an existing row are never written again.
LEMMA RowsKeepSubject ==
  ASSUME IInv, [Next]_vars, NEW r \in Requests, Exists(r)
  PROVE  rows'[r].type = rows[r].type /\ rows'[r].target = rows[r].target
<1>0. TypeOK
  BY DEF IInv
<1>1. ASSUME NEW c \in submitting, CommitSubmission(c)
      PROVE  rows'[r] = rows[r]
  BY <1>0, <1>1 DEF CommitSubmission, TypeOK
<1>2. ASSUME NEW d \in deciding, NEW s \in {"APPROVED", "REJECTED"},
             rows' = [rows EXCEPT ![d.id].status = s, ![d.id].decidedBy = d.user]
      PROVE  rows'[r].type = rows[r].type /\ rows'[r].target = rows[r].target
  <2>1. d.id \in Requests /\ d.user \in Users /\ Exists(d.id)
    BY <1>0 DEF IInv, DeciderEntitled, TypeOK, Decisions
  <2> QED BY <1>0, <1>2, <2>1, DecidedRow
<1>3. ASSUME rows' = rows
      PROVE  rows'[r].type = rows[r].type /\ rows'[r].target = rows[r].target
  BY <1>3
<1>4. CASE RequestStep
  BY <1>1, <1>3, <1>4 DEF RequestStep, Submit, LoseSubmission
<1>5. CASE DecisionStep
  BY <1>2, <1>3, <1>5 DEF DecisionStep, Decide, CommitApproval, CommitRejection, LoseDecision, UndoDisbursalNow
<1>6. CASE LoanStep
  BY <1>3, <1>6 DEF LoanStep, Disburse, PostRepayment, ClassifyArrears
<1>7. CASE UNCHANGED vars
  BY <1>3, <1>7 DEF vars
<1> QED BY <1>4, <1>5, <1>6, <1>7 DEF Next

\* Which steps cancel a repayment: only an executor does.
LEMMA OnlyExecutionCancels ==
  ASSUME IInv, CancelledByOne, [Next]_vars, executedBy' = executedBy
  PROVE  cancelled' = cancelled /\ standing' \cap cancelled' = {}
<1>1. ASSUME NEW r \in Requests, NEW type, NEW target, NEW u \in Users, Execute(r, type, target, u)
      PROVE  executedBy' # executedBy
  BY <1>1, RequestAssumption DEF Execute, IInv, TypeOK
<1>2. CASE RequestStep
  <2>1. ASSUME NEW c \in submitting, CommitSubmission(c)
        PROVE  UNCHANGED loanVars
    <3>1. c.id \in Requests /\ c.user \in Users
      BY DEF IInv, TypeOK, Submissions
    <3> QED BY <1>1, <2>1, <3>1 DEF CommitSubmission
  <2> QED BY <1>2, <2>1 DEF RequestStep, Submit, LoseSubmission, loanVars, CancelledByOne
<1>3. CASE DecisionStep
  <2>1. ASSUME NEW d \in deciding, CommitApproval(d)
        PROVE  UNCHANGED loanVars
    <3>1. d.id \in Requests /\ d.user \in Users
      BY DEF IInv, TypeOK, Decisions
    <3> QED BY <1>1, <2>1, <3>1 DEF CommitApproval
  <2> QED BY <1>3, <2>1
          DEF DecisionStep, Decide, CommitRejection, LoseDecision, UndoDisbursalNow, UndoDisbursal, loanVars,
              CancelledByOne
<1>4. CASE LoanStep
  BY <1>4 DEF LoanStep, Disburse, PostRepayment, ClassifyArrears, CancelledByOne
<1>5. CASE UNCHANGED vars
  BY <1>5 DEF vars, loanVars, CancelledByOne
<1> QED BY <1>2, <1>3, <1>4, <1>5 DEF Next

\* An execution on behalf of request r whose row has this type and target afterwards.
LEMMA ExecutionCancelsOnce ==
  ASSUME IInv, CancelledByOne, [Next]_vars, NEW r \in Requests, NEW u \in Users,
         NEW type \in ActionTypes, NEW target, Execute(r, type, target, u),
         rows'[r].type = type, rows'[r].target = target
  PROVE  CancelledByOne'
<1>1. /\ ~Executed(r) /\ executedBy' = [executedBy EXCEPT ![r] = u] /\ Effect(type, target)
      /\ TypeOK /\ ExecutedExists
  BY DEF Execute, Executed, IInv
<1>2. Executed(r)' /\ \A q \in Requests \ {r} : Executed(q)' <=> Executed(q)
  BY <1>1, RequestAssumption DEF Executed, TypeOK
<1>3. \A q \in Requests \ {r}, p \in Repayments : Cancels(q, p)' <=> Cancels(q, p)
  BY <1>1, <1>2, RowsKeepSubject DEF Cancels, ExecutedExists
<1>4. \A p \in Repayments : Cancels(r, p)' <=> type = "TRANSACTION_REVERSAL" /\ target = p
  BY <1>2 DEF Cancels
<1>5. \A p \in Repayments : ~Cancels(r, p)
  BY <1>1 DEF Cancels
<1>6. CASE type = "TRANSACTION_REVERSAL"
  <2>1. CancelRepayment(target)
    BY <1>1, <1>6 DEF Effect
  <2>2. /\ target \in standing /\ target \notin cancelled /\ target \in Repayments
        /\ standing' = standing \ {target} /\ cancelled' = cancelled \cup {target}
    BY <1>1, <2>1 DEF CancelRepayment, CancelledByOne, TypeOK
  <2>3. \A q \in Requests : ~Cancels(q, target)
    BY <2>2 DEF CancelledByOne
  <2>4. standing' \cap cancelled' = {}
    BY <2>2 DEF CancelledByOne
  <2>5. \A q \in Requests, p \in Repayments : Cancels(q, p)' => p \in cancelled'
    BY <1>3, <1>4, <2>2 DEF CancelledByOne
  <2>6. \A p \in cancelled' : \E q \in Requests : Cancels(q, p)'
    <3> SUFFICES ASSUME NEW p \in cancelled'
                 PROVE  \E q \in Requests : Cancels(q, p)'
      OBVIOUS
    <3>1. CASE p = target
      BY <1>4, <1>6, <2>2, <3>1
    <3>2. CASE p \in cancelled
      <4>1. p \in Repayments
        BY <1>1, <3>2 DEF TypeOK
      <4>2. PICK q \in Requests : Cancels(q, p)
        BY <3>2 DEF CancelledByOne
      <4>3. q # r
        BY <1>5, <4>1, <4>2
      <4> QED BY <1>3, <4>1, <4>2, <4>3
    <3> QED BY <2>2, <3>1, <3>2
  <2>7. \A p, q \in Requests, t \in Repayments : Cancels(p, t)' /\ Cancels(q, t)' => p = q
    BY <1>3, <1>4, <2>3 DEF CancelledByOne
  <2> QED BY <2>4, <2>5, <2>6, <2>7 DEF CancelledByOne, Cancels, Executed
<1>7. CASE type # "TRANSACTION_REVERSAL"
  <2>1. standing' = standing /\ cancelled' = cancelled
    BY <1>1, <1>7 DEF Effect, UndoDisbursal, SettleInFull
  <2>2. \A q \in Requests, p \in Repayments : Cancels(q, p)' <=> Cancels(q, p)
    BY <1>3, <1>4, <1>5, <1>7
  <2>3. cancelled \subseteq Repayments
    BY <1>1 DEF TypeOK
  <2>4. \A q \in Requests, p \in Repayments : Cancels(q, p)' => p \in cancelled'
    BY <2>1, <2>2 DEF CancelledByOne
  <2>5. \A p \in cancelled' : \E q \in Requests : Cancels(q, p)'
    BY <2>1, <2>2, <2>3 DEF CancelledByOne
  <2>6. \A p, q \in Requests, t \in Repayments : Cancels(p, t)' /\ Cancels(q, t)' => p = q
    BY <2>2 DEF CancelledByOne
  <2> QED BY <2>1, <2>4, <2>5, <2>6 DEF CancelledByOne, Cancels, Executed
<1> QED BY <1>6, <1>7

LEMMA CancelledByOneStep == IInv /\ CancelledByOne /\ [Next]_vars => CancelledByOne'
<1> SUFFICES ASSUME IInv, CancelledByOne, [Next]_vars
             PROVE  CancelledByOne'
  OBVIOUS
<1>1. CASE executedBy' = executedBy
  <2>1. cancelled' = cancelled /\ standing' \cap cancelled' = {} /\ cancelled \subseteq Repayments
    BY <1>1, OnlyExecutionCancels DEF IInv, TypeOK
  <2>2. \A r \in Requests : Executed(r)' <=> Executed(r)
    BY <1>1 DEF Executed
  <2>3. \A r \in Requests, p \in Repayments : Cancels(r, p)' <=> Cancels(r, p)
    BY <2>2, RowsKeepSubject DEF Cancels, IInv, ExecutedExists
  <2>4. \A r \in Requests, p \in Repayments : Cancels(r, p)' => p \in cancelled'
    BY <2>1, <2>3 DEF CancelledByOne
  <2>5. \A p \in cancelled' : \E r \in Requests : Cancels(r, p)'
    BY <2>1, <2>3 DEF CancelledByOne
  <2>6. \A q, r \in Requests, p \in Repayments : Cancels(q, p)' /\ Cancels(r, p)' => q = r
    BY <2>3 DEF CancelledByOne
  <2> QED BY <2>1, <2>4, <2>5, <2>6 DEF CancelledByOne, Cancels, Executed
<1>2. CASE executedBy' # executedBy
  <2>1. ASSUME NEW c \in submitting, CommitSubmission(c), Execute(c.id, c.type, c.target, c.user)
        PROVE  CancelledByOne'
    <3>1. c.id \in Requests /\ c.user \in Users /\ c.type \in ActionTypes /\ TypeOK
      BY DEF IInv, TypeOK, Submissions
    <3>2. rows'[c.id].type = c.type /\ rows'[c.id].target = c.target
      BY <2>1, <3>1 DEF CommitSubmission, TypeOK
    <3> QED BY <2>1, <3>1, <3>2, ExecutionCancelsOnce
  <2>2. ASSUME NEW d \in deciding, CommitApproval(d), Pending(d.id),
               Execute(d.id, rows[d.id].type, rows[d.id].target, d.user)
        PROVE  CancelledByOne'
    <3>1. d.id \in Requests /\ d.user \in Users /\ Exists(d.id) /\ TypeOK
      BY DEF IInv, TypeOK, Decisions, DeciderEntitled
    <3>2. rows[d.id].type \in ActionTypes
      BY <3>1 DEF TypeOK, Exists, Rows
    <3>3. rows'[d.id].type = rows[d.id].type /\ rows'[d.id].target = rows[d.id].target
      BY <3>1, RowsKeepSubject
    <3> QED BY <2>2, <3>1, <3>2, <3>3, ExecutionCancelsOnce
  <2> QED BY <1>2, <2>1, <2>2, WhoExecutes
<1> QED BY <1>1, <1>2

\* executeTransactionReversal refuses a reversed transaction: however many requests ask for the same
\* cancellation, and in whatever order they are decided, one of them executes it.
THEOREM CancelledOnce == Spec => []PaymentCancelledOnce
<1>1. IInv /\ CancelledByOne => PaymentCancelledOnce
  <2> SUFFICES ASSUME IInv, CancelledByOne, NEW p \in Repayments
               PROVE  Cardinality({r \in Requests : Cancels(r, p)}) = IF p \in cancelled THEN 1 ELSE 0
    BY DEF PaymentCancelledOnce, Cancels
  <2>1. CASE p \in cancelled
    <3>1. PICK q \in Requests : Cancels(q, p)
      BY <2>1 DEF CancelledByOne
    <3>2. {r \in Requests : Cancels(r, p)} = {q}
      BY <3>1 DEF CancelledByOne
    <3> QED BY <2>1, <3>2, FS_Singleton
  <2>2. CASE p \notin cancelled
    <3>1. {r \in Requests : Cancels(r, p)} = {}
      BY <2>2 DEF CancelledByOne
    <3> QED BY <2>2, <3>1, FS_EmptySet
  <2> QED BY <2>1, <2>2
<1> QED BY <1>1, Inductive, InitIInv, CancelledByOneStep, PTL DEF Spec
=============================================================================
