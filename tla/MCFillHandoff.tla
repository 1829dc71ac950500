-------------------------- MODULE MCFillHandoff ---------------------------
(* One order for two shares, or one for two and one for a single share.    *)
EXTENDS FillHandoff

CONSTANTS k1, k2, o1

MCProcs == {Bot, Operator}
MCOneKey == {k1}
MCTwoKeys == {k1, k2}
MCOdnos == {o1}
MCShares == [k \in Keys |-> 2]
MCTwoAndOne == [k \in Keys |-> IF k = k1 THEN 2 ELSE 1]
MCAll == {"fault", "sync", "end"}
MCNone == {}
MCOneDay == [k \in Keys |-> 1]
MCOwnDays == [k \in Keys |-> k]
=============================================================================
