----------------------- MODULE MCOrderSubmission -------------------------
(* Two orders for one symbol, with a broker number each, over a few runs:  *)
(* two buys, over two days, or a partial and a protective sell.            *)
EXTENDS OrderSubmission

CONSTANTS k1, k2, o1

MCProcs == {Bot, Operator}
MCKeys == {k1, k2}
MCOdnos == {o1}
MCOneShare == [k \in MCKeys |-> 1]
MCOwnNumbers == [k \in MCKeys |-> k]

MCTwoBuys == {[k \in MCKeys |-> "buy"]}
MCPairs == MCTwoBuys \cup {[k \in MCKeys |-> IF k = k1 THEN "partial" ELSE "full"]}
MCDays == [f \in MCPairs |-> IF f \in MCTwoBuys THEN 2 ELSE 1]
MCOneDay == [f \in MCTwoBuys |-> 1]
=============================================================================
