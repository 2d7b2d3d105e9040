---------------------------- MODULE MCSettlement ----------------------------
(* Fault sets for the runs of Settlement. *)
EXTENDS Settlement

NoFaults == {}
\* Everything that may fail.
AllFaults == FaultKinds
\* The failures after which the books still have to agree with the chain.
ChainFaults == {"query", "redeem", "poll", "txFails"}
=============================================================================
