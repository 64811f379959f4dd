-------------------------- MODULE MCLoanServicing --------------------------
(* Instances of LoanServicing for TLC: a loan of two installments.          *)
EXTENDS LoanServicing, TLC

Owing(principal, interest) == [Nothing EXCEPT !["principal"] = principal, !["interest"] = interest]

\* Principal first, then interest a day later: a settlement on the first day waives the interest.
MCSchedule == [i \in Installments |-> IF i = 1 THEN Owing(1, 0) ELSE Owing(0, 1)]
MCDueDay == [i \in Installments |-> i - 1]

\* The whole schedule a day later.
Postponed == {[i \in Installments |-> i]}

FlatFee == [calculationType |-> "FLAT", graceDays |-> 0, amountMinor |-> 1, percentageBps |-> 0]

Symmetry == Permutations(Keys)
=============================================================================
