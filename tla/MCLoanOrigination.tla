------------------------- MODULE MCLoanOrigination -------------------------
(* Instances of LoanOrigination for TLC.                                    *)
EXTENDS LoanOrigination, TLC

Symmetry == Permutations(Keys)
=============================================================================
