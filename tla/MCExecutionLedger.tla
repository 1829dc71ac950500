------------------------ MODULE MCExecutionLedger ------------------------
(* Two orders of one trading day, of two shares and of one, that two       *)
(* processes write in two runs.                                            *)
EXTENDS ExecutionLedger, TLC

CONSTANTS p1, p2, k1, k2, o1, o2

MCProcs == {p1, p2}
MCTwoKeys == {k1, k2}
MCOdnos == {o1, o2}
MCTwoAndOne == [k \in MCTwoKeys |-> IF k = k1 THEN 2 ELSE 1]
MCOrderDate == [k \in MCTwoKeys |-> "today"]

MCSymmetry == Permutations(MCProcs) \cup Permutations(MCOdnos)
=============================================================================
