------------------------- MODULE MCPendingOrders -------------------------
(* One symbol with two orders: see the bounds in the README.               *)
EXTENDS PendingOrders

MCTwoOrders == 1..2
MCBuy == {"buy"}
MCAll == MishapKinds
MCFails == {"cancelFails", "inquiryFails"}
MCNone == {}
=============================================================================
