-------------------------- MODULE MCKisRateLimit --------------------------
(* Two inquiries of the ledger, one of them of the balance, and a quote;   *)
(* the intervals keep the order they have in the code.                     *)
EXTENDS KisRateLimit, TLC

CONSTANTS t1, t2, t3

MCTasks == {t1, t2, t3}
MCGap == [ledger |-> 3, balance |-> 5]
MCTr == (t1 :> "balance") @@ (t2 :> "ledger") @@ (t3 :> "quote")
MCRounds == (t1 :> 1) @@ (t2 :> 2) @@ (t3 :> 1)
=============================================================================
