------------------------------ MODULE Exchange ------------------------------
(***************************************************************************)
(* What the tasks of the bot rely on in a MarketClient (ports.rs), whether *)
(* the live one or the simulated one: an order that is placed is live      *)
(* until it is matched or canceled, once and for good, and order_status    *)
(* tells nothing but that.  OrderPath's exchange is this one.              *)
(***************************************************************************)
CONSTANT Ids            \* orders

VARIABLES exchange,     \* state of each order
          told          \* what order_status last said of it

exchangeVars == <<exchange, told>>

FinalStates == {"matched", "canceled"}

ExchangeInit ==
  /\ exchange = [o \in Ids |-> "none"]
  /\ told = [o \in Ids |-> "none"]

Take(o) ==
  /\ exchange[o] = "none"
  /\ exchange' = [exchange EXCEPT ![o] = "live"]
  /\ UNCHANGED told

Cancel(o) ==
  /\ exchange[o] = "live"
  /\ exchange' = [exchange EXCEPT ![o] = "canceled"]
  /\ UNCHANGED told

\* A poll may be answered in the step that matches the order.
Match(o) ==
  /\ exchange[o] = "live"
  /\ exchange' = [exchange EXCEPT ![o] = "matched"]
  /\ told' \in {told, [told EXCEPT ![o] = "filled"]}

\* What is told of a live order may be late: it may be canceled by then.
Tell(o) ==
  /\ told[o] \in {"none", "submitted"}
  /\ \E answer \in {<<"live", "submitted">>, <<"canceled", "submitted">>,
                      <<"matched", "filled">>, <<"canceled", "cancelled">>} :
       exchange[o] = answer[1] /\ told' = [told EXCEPT ![o] = answer[2]]
  /\ UNCHANGED exchange

ExchangeNext == \E o \in Ids : Take(o) \/ Cancel(o) \/ Match(o) \/ Tell(o)

ExchangeSpec == ExchangeInit /\ [][ExchangeNext]_exchangeVars
=============================================================================
