-------------------------- MODULE ShareDelivery --------------------------
(***************************************************************************)
(* What the execution ledger promises about the shares of an order,        *)
(* without sessions, processes, faults or the cutting of a cumulative      *)
(* quantity into executions: each share the broker reports is seen once,   *)
(* then applied to the portfolio, then handed to the post-processing, in   *)
(* that order and never back; shares are seen from the first one up, and   *)
(* none is seen any more once the order is final.                          *)
(***************************************************************************)
EXTENDS Integers

CONSTANTS
    Keys,
    Quantity     \* Quantity[k], a positive number: the shares of order k

VARIABLES
    stage,    \* stage[k][u]: how far share u of order k has come, one of
              \* "unseen", "seen", "applied", "returned"
    final     \* final[k]: the order will report no further share

vars == <<stage, final>>

Init ==
    /\ stage = [k \in Keys |-> [u \in 1..Quantity[k] |-> "unseen"]]
    /\ final = [k \in Keys |-> FALSE]

\* The shares up to `upto` are seen; the order may become final with that.
Report(k, upto, isFinal) ==
    /\ final[k] => \A u \in 1..upto : stage[k][u] # "unseen"
    /\ stage' = [stage EXCEPT ![k] =
                    [u \in 1..Quantity[k] |->
                        IF u <= upto /\ stage[k][u] = "unseen" THEN "seen" ELSE stage[k][u]]]
    /\ final' = [final EXCEPT ![k] = @ \/ isFinal]

\* The shares above `low` up to `high` go together from one stage to the next.
Advance(k, low, high, was, now) ==
    /\ \A u \in (low + 1)..high : stage[k][u] = was
    /\ stage' = [stage EXCEPT ![k] =
                    [u \in 1..Quantity[k] |->
                        IF low < u /\ u <= high THEN now ELSE stage[k][u]]]
    /\ UNCHANGED final

Next ==
    \E k \in Keys :
        \/ \E upto \in 0..Quantity[k], isFinal \in BOOLEAN : Report(k, upto, isFinal)
        \/ \E low, high \in 0..Quantity[k] :
              \/ Advance(k, low, high, "seen", "applied")
              \/ Advance(k, low, high, "applied", "returned")

Spec == Init /\ [][Next]_vars
=============================================================================
