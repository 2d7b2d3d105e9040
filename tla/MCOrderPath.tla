---------------------------- MODULE MCOrderPath ----------------------------
(* Fault sets for the runs of OrderPath. *)
EXTENDS OrderPath

NoFaults == {}
\* Everything that may fail in the process itself, and receivers that lag.
AllFaults == FaultKinds
=============================================================================
