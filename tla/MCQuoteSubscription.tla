---------------------- MODULE MCQuoteSubscription ----------------------
(* Two channels that compete for one registration.                       *)
EXTENDS QuoteSubscription
=============================================================================
