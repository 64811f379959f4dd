----------------------------- MODULE ThreeHands -----------------------------
(***************************************************************************)
(* What the origination of a loan in lending/ promises, whatever its rows  *)
(* look like: one user makes an application, another approves an amount,   *)
(* a third pays out that amount; the exceptions are the users entitled to  *)
(* act alone.  There is at most one payout at a time, no approval is       *)
(* withdrawn under it, and a file that ever paid out is never deleted.     *)
(***************************************************************************)
CONSTANTS
  Users, Amounts,
  Checkers, AloneCheckers,  \* who may approve; who may approve what they made
  Payers, AlonePayers,      \* who may pay out; who may pay out what they made or approved
  Nobody, NoAmount

VARIABLES
  maker,      \* who made or last submitted the application
  checker,    \* who approved it, or Nobody
  approved,   \* the amount approved, or NoAmount
  paid,       \* the standing payout, or NoAmount
  everPaid,
  deleted

vars == <<maker, checker, approved, paid, everPaid, deleted>>

Init ==
  /\ maker \in Users
  /\ checker = Nobody
  /\ approved = NoAmount
  /\ paid = NoAmount
  /\ everPaid = FALSE
  /\ deleted = FALSE

Submit(u) ==
  /\ ~deleted
  /\ checker = Nobody
  /\ maker' = u
  /\ UNCHANGED <<checker, approved, paid, everPaid, deleted>>

Approve(u, amount) ==
  /\ ~deleted
  /\ checker = Nobody
  /\ u \in Checkers
  /\ u = maker => u \in AloneCheckers
  /\ checker' = u
  /\ approved' = amount
  /\ UNCHANGED <<maker, paid, everPaid, deleted>>

Withdraw ==
  /\ paid = NoAmount
  /\ checker' = Nobody
  /\ approved' = NoAmount
  /\ UNCHANGED <<maker, paid, everPaid, deleted>>

Pay(u) ==
  /\ checker # Nobody
  /\ paid = NoAmount
  /\ u \in Payers
  /\ u \in {maker, checker} => u \in AlonePayers
  /\ paid' = approved
  /\ everPaid' = TRUE
  /\ UNCHANGED <<maker, checker, approved, deleted>>

TakeBack ==
  /\ paid' = NoAmount
  /\ UNCHANGED <<maker, checker, approved, everPaid, deleted>>

Delete ==
  /\ ~everPaid
  /\ checker' = Nobody
  /\ approved' = NoAmount
  /\ deleted' = TRUE
  /\ UNCHANGED <<maker, paid, everPaid>>

Next ==
  \/ \E u \in Users : Submit(u) \/ Pay(u) \/ \E amount \in Amounts : Approve(u, amount)
  \/ Withdraw \/ TakeBack \/ Delete

Spec == Init /\ [][Next]_vars
=============================================================================
