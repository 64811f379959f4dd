----------------------------- MODULE FundedOnce -----------------------------
(***************************************************************************)
(* What an investor is promised: a commitment is announced as received     *)
(* once, after it was paid, and stays received.                            *)
(***************************************************************************)
EXTENDS Naturals

CONSTANT Commitments

VARIABLES
  standing,  \* where a commitment stands
  received   \* how often its money was announced as received

vars == <<standing, received>>

Init ==
  /\ standing = [c \in Commitments |-> "open"]
  /\ received = [c \in Commitments |-> 0]

Pay(c) ==
  /\ standing[c] = "open"
  /\ standing' = [standing EXCEPT ![c] = "paid"]
  /\ UNCHANGED received

Receive(c) ==
  /\ standing[c] = "paid"
  /\ standing' = [standing EXCEPT ![c] = "received"]
  /\ received' = [received EXCEPT ![c] = @ + 1]

Next == \E c \in Commitments : Pay(c) \/ Receive(c)

Spec == Init /\ [][Next]_vars
=============================================================================
