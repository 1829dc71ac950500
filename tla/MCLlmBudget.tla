--------------------------- MODULE MCLlmBudget ---------------------------
(* Two processes and three reservations against a limit of two units.      *)
EXTENDS LlmBudget

MCTokens == 1..3
MCProcs == {"bot", "report"}
MCSizes == {1, 2}
=============================================================================
