------------------------- MODULE PositionLifecycle -------------------------
(***************************************************************************)
(* What the status column of the positions table promises: the transition  *)
(* table of PositionState (libs/pm-core/src/state.rs).  The program never  *)
(* calls PositionState::transition; every task writes the column directly. *)
(* This specification is what those writes have to add up to.              *)
(***************************************************************************)

CONSTANT Positions      \* row ids of the positions table

VARIABLE status         \* status column of each row, "none" while there is no row

Statuses == {"none", "submitted", "filled", "rejected", "cancelled",
             "settling", "won", "lost", "redeemed"}

\* The rows PositionStatus::is_terminal accepts.
TerminalStatuses == {"won", "lost", "rejected", "cancelled", "redeemed"}

\* The pairs PositionState::transition accepts.
Transitions == {<<"submitted", "filled">>, <<"submitted", "rejected">>,
                <<"submitted", "cancelled">>, <<"filled", "settling">>,
                <<"settling", "won">>, <<"settling", "lost">>,
                <<"won", "redeemed">>}

Init == status = [p \in Positions |-> "none"]

\* A new row starts as Submitted (PositionState::new).
New(p) == status[p] = "none" /\ status' = [status EXCEPT ![p] = "submitted"]

Move(p, to) == /\ <<status[p], to>> \in Transitions
               /\ status' = [status EXCEPT ![p] = to]

Next == \E p \in Positions : New(p) \/ \E to \in Statuses : Move(p, to)

Spec == Init /\ [][Next]_status
=============================================================================
