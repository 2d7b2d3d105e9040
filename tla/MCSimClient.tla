---------------------------- MODULE MCSimClient -----------------------------
(* Constants of SimClient for TLC: a buy and a sell of one token. *)
EXTENDS SimClient

BuyAndSell == {[token |-> "Up", side |-> "Buy", limit |-> 2, shares |-> 1],
               [token |-> "Up", side |-> "Sell", limit |-> 2, shares |-> 3]}
\* One price below, one at, and one above both limits.
AroundLimit == {1, 2, 3}
=============================================================================
