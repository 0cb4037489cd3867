------------------------------ MODULE MCTsList ------------------------------
(* ts_list with two producers, as every list of the program has at most.   *)
EXTENDS TsList, TLC

CONSTANTS p1, p2

MCProducers == {p1, p2}
MCSymmetry == Permutations(MCProducers)
=============================================================================
