-------------------------- MODULE MCDecisionCenter --------------------------
(* Values of the constants of DecisionCenter for TLC. *)
EXTENDS DecisionCenter

\* A price that does not parse is 0.
AroundStrike == {0, 19999, 20000, 20001}
SameOrNext == {0, 1}
OffTheGrid == {34, 945}
SomeMoney == {0, 400}
=============================================================================
