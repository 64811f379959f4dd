------------------------- MODULE MCAccountingPeriod -------------------------
(* Two clerks, three dates, two closures: TLC's instance of AccountingPeriod. *)
EXTENDS AccountingPeriod, TLC

\* Clerks differ in nothing but their name.
Symmetry == Permutations(Clerks)
=============================================================================
