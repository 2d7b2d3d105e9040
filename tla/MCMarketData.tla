---------------------------- MODULE MCMarketData ----------------------------
(* Constants of MarketData for TLC: an ordinary book and a one-sided one. *)
EXTENDS MarketData

OneOutcome == {"Up"}
TwoQuotes == {[bids |-> {1, 2}, asks |-> {3, 4}], [bids |-> {}, asks |-> {4}]}
=============================================================================
