------------------------- MODULE MCServiceRequests -------------------------
(* Instances of ServiceRequests for TLC.                                    *)
EXTENDS ServiceRequests, TLC

Symmetry == Permutations(Requests)
=============================================================================
