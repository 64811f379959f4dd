------------------------------ MODULE FourEyes ------------------------------
(***************************************************************************)
(* What the servicing requests of lending/ promise, whatever happens to    *)
(* their rows: a request takes effect at most once, after somebody         *)
(* proposed it, by the hand of a user entitled to decide it, and by the    *)
(* proposer's own hand only if that user may act alone on it.              *)
(***************************************************************************)
CONSTANTS
  Requests, Users,
  ActionTypes,
  Checkers,   \* who may decide a request of a type
  Alone,      \* who may decide one they made themselves, or execute it while making it
  NoRequest, Nobody

VARIABLES
  proposal,   \* the type of a request and who made it
  executedBy  \* who carried a request out

vars == <<proposal, executedBy>>

Proposals == [type : ActionTypes, requestedBy : Users]

Init ==
  /\ proposal = [r \in Requests |-> NoRequest]
  /\ executedBy = [r \in Requests |-> Nobody]

Propose(r, type, u) ==
  /\ proposal[r] = NoRequest
  /\ proposal' = [proposal EXCEPT ![r] = [type |-> type, requestedBy |-> u]]
  /\ UNCHANGED executedBy

Execute(r, u) ==
  /\ proposal[r] # NoRequest
  /\ executedBy[r] = Nobody
  /\ u \in IF u = proposal[r].requestedBy THEN Alone[proposal[r].type] ELSE Checkers[proposal[r].type]
  /\ executedBy' = [executedBy EXCEPT ![r] = u]
  /\ UNCHANGED proposal

ProposeAndExecute(r, type, u) ==
  /\ proposal[r] = NoRequest
  /\ executedBy[r] = Nobody
  /\ u \in Alone[type]
  /\ proposal' = [proposal EXCEPT ![r] = [type |-> type, requestedBy |-> u]]
  /\ executedBy' = [executedBy EXCEPT ![r] = u]

Next ==
  \E r \in Requests, u \in Users :
    \/ \E type \in ActionTypes : Propose(r, type, u) \/ ProposeAndExecute(r, type, u)
    \/ Execute(r, u)

Spec == Init /\ [][Next]_vars
=============================================================================
