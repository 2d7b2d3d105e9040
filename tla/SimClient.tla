----------------------------- MODULE SimClient ------------------------------
(***************************************************************************)
(* SimMarketClient, the exchange of a dry run, with the tasks that call    *)
(* it: the executor places orders, the order-status poller polls them one  *)
(* at a time, anybody may cancel.  OutcomeBookCache changes under it.  The *)
(* state lock is held within an action; order_status lets go of it to read *)
(* the cache, so a poll that passes the latency gate takes three.          *)
(***************************************************************************)
EXTENDS Integers, FiniteSets, FiniteSetsExt

CONSTANTS MaxIds,     \* bound: orders placed
          Intents,    \* orders one may place: [token, side, limit, shares]
          Prices,     \* prices a book may show
          NoPrice,    \* None: the cache has no price
          Bankroll,   \* SimConfig.virtual_bankroll
          Latency,    \* SimConfig.fill_latency_ms
          MaxTime,    \* bound: the clock
          MaxMoves,   \* bound: changes of the cache
          MaxRedeems  \* bound: redemptions

ASSUME SimClientAssumption ==
  /\ MaxIds \in Nat /\ MaxTime \in Nat /\ MaxMoves \in Nat /\ MaxRedeems \in Nat
  /\ Prices \subseteq Nat /\ NoPrice \notin Nat
  /\ \A i \in Intents : i.limit \in Nat /\ i.shares \in Nat /\ i.side \in {"Buy", "Sell"}
  /\ Bankroll \in Int /\ Latency \in Nat

VARIABLES alwaysFill, \* SimConfig.always_fill, read from the environment once
          orders,    \* the orders placed, by the number of their id
          resting,   \* ids of the resting orders
          balance,   \* virtual balance
          reserved,  \* held by the resting orders
          counter,   \* ids and transactions minted so far
          book,      \* OutcomeBookCache::price of a token and a side
          poll,      \* the poller's call of order_status: order, stage, price read
          told,      \* what order_status last said of each order
          now,       \* the clock
          moves,     \* history: changes of the cache
          filled,    \* history: orders filled
          cancelled, \* history: orders cancelled
          crossed,   \* history: orders whose price was met once their latency had passed
          panicked   \* the poller has died on a missing order

clientVars == <<alwaysFill, orders, resting, balance, reserved, counter>>
envVars == <<book, now, moves>>
vars == <<clientVars, envVars, poll, told, filled, cancelled, crossed, panicked>>

Ids == 1..(MaxIds + MaxRedeems)
Tokens == {i.token : i \in Intents}
Sides == {"Buy", "Sell"}
NoOrder == [at |-> MaxTime + 1]
Idle == [id |-> 0, stage |-> "idle", price |-> NoPrice]
Verdicts == {"none", "submitted", "filled", "cancelled"}
Placed == {o \in Ids : orders[o] # NoOrder}

TypeOK ==
  /\ alwaysFill \in BOOLEAN
  /\ orders \in [Ids -> [intent : Intents, at : 0..MaxTime] \cup {NoOrder}]
  /\ resting \subseteq Placed /\ filled \subseteq Placed /\ cancelled \subseteq Placed /\ crossed \subseteq Placed
  /\ balance \in Int /\ reserved \in Int /\ counter \in 0..(MaxIds + MaxRedeems)
  /\ book \in [Tokens \X Sides -> Prices \cup {NoPrice}]
  /\ poll \in [id : 0..(MaxIds + MaxRedeems), stage : {"idle", "looked", "priced"}, price : Prices \cup {NoPrice}]
  /\ told \in [Ids -> Verdicts]
  /\ now \in 0..MaxTime /\ moves \in 0..MaxMoves /\ panicked \in BOOLEAN

Init ==
  /\ alwaysFill \in BOOLEAN
  /\ orders = [o \in Ids |-> NoOrder] /\ resting = {}
  /\ balance = Bankroll /\ reserved = 0 /\ counter = 0
  /\ book = [b \in Tokens \X Sides |-> NoPrice]
  /\ poll = Idle /\ told = [o \in Ids |-> "none"]
  /\ now = 0 /\ moves = 0
  /\ filled = {} /\ cancelled = {} /\ crossed = {} /\ panicked = FALSE

-----------------------------------------------------------------------------
(* The rules of the simulated exchange *)

Reservation(o) == orders[o].intent.limit * orders[o].intent.shares

Reserve(amount) == reserved' = reserved + amount /\ balance' = balance - amount
Release(amount) == reserved' = reserved - amount /\ balance' = balance + amount

\* The latency gate, which always_fill goes round.
Gate(o, t) == alwaysFill \/ t - orders[o].at >= Latency

\* MUTANT of Crosses: both sides fill at or below their limit.
CrossesBelow(intent, price) == price # NoPrice /\ price <= intent.limit

Crosses(intent, price) ==
  /\ price # NoPrice
  /\ \/ intent.side = "Buy" /\ price <= intent.limit
     \/ intent.side = "Sell" /\ price >= intent.limit

\* OutcomeBookCache::price: the ask for a buy, the bid for a sell.
Price(b, intent) == b[<<intent.token, intent.side>>]

\* History: the orders that could be filled at time t off the cache b, as fill model v1
\* has it: a buy at an ask of at most its limit, a sell at a bid of at least its limit.
Fillable(b, t) ==
  {o \in Placed :
     LET i == orders[o].intent  p == b[<<i.token, i.side>>] IN
       \/ alwaysFill
       \/ /\ t >= orders[o].at + Latency /\ p # NoPrice
          /\ p = i.limit \/ (i.side = "Buy") = (p < i.limit)}

-----------------------------------------------------------------------------
(* What surrounds the client *)

\* market_data_task writes a price, or clears the cache for the next market.
CacheChanges ==
  /\ moves < MaxMoves /\ moves' = moves + 1
  /\ \/ \E b \in Tokens \X Sides, p \in Prices : book' = [book EXCEPT ![b] = p]
     \/ book' = [b \in Tokens \X Sides |-> NoPrice]
  /\ crossed' = crossed \cup Fillable(book', now)
  /\ UNCHANGED <<clientVars, now, poll, told, filled, cancelled, panicked>>

Tick ==
  /\ now < MaxTime /\ now' = now + 1
  /\ crossed' = crossed \cup Fillable(book, now')
  /\ UNCHANGED <<clientVars, book, moves, poll, told, filled, cancelled, panicked>>

-----------------------------------------------------------------------------
(* place_order, cancel_order, redeem *)

\* MUTANT of PlaceOrder: the order rests under the id the next one will get.
PlaceOrderUnderNextId ==
  /\ Cardinality(Placed) < MaxIds
  /\ counter' = counter + 1
  /\ \E i \in Intents :
       /\ orders' = [orders EXCEPT ![counter'] = [intent |-> i, at |-> now]]
       /\ Reserve(i.limit * i.shares)
  /\ resting' = resting \cup {counter' + 1}
  /\ UNCHANGED <<alwaysFill, envVars, poll, told, filled, cancelled, crossed, panicked>>

\* No balance is asked for.
PlaceOrder ==
  /\ Cardinality(Placed) < MaxIds
  /\ counter' = counter + 1
  /\ \E i \in Intents :
       /\ orders' = [orders EXCEPT ![counter'] = [intent |-> i, at |-> now]]
       /\ Reserve(i.limit * i.shares)
       /\ crossed' = IF alwaysFill \/ (Latency = 0 /\ Crosses(i, Price(book, i)))
                     THEN crossed \cup {counter'} ELSE crossed
  /\ resting' = resting \cup {counter'}
  /\ UNCHANGED <<alwaysFill, envVars, poll, told, filled, cancelled, panicked>>

CancelOrder(o) ==
  /\ o \in resting
  /\ resting' = resting \ {o} /\ cancelled' = cancelled \cup {o}
  /\ Release(Reservation(o))
  /\ UNCHANGED <<alwaysFill, orders, counter, envVars, poll, told, filled, crossed, panicked>>

\* redeem only mints a transaction id, which redemption_status will call Confirmed.
Redeem ==
  /\ counter - Cardinality(Placed) < MaxRedeems
  /\ counter' = counter + 1
  /\ UNCHANGED <<alwaysFill, orders, resting, balance, reserved, envVars, poll, told, filled, cancelled, crossed, panicked>>

-----------------------------------------------------------------------------
(* order_status, as the poller calls it for what has had no verdict yet *)

Polled(o) == o \in Placed /\ told[o] \in {"none", "submitted"}

Tell(o, verdict) == told' = [told EXCEPT ![o] = verdict]

\* The part of order_status that fills o, under the lock.  The whole reservation goes back:
\* apply_fee's fee and total cost are worked out and dropped.
Fill(o) ==
  /\ o \in resting
  /\ resting' = resting \ {o} /\ filled' = filled \cup {o}
  /\ Release(Reservation(o))
  /\ Tell(o, "filled")
  /\ UNCHANGED panicked

\* MUTANT of StatusUnknown: an order that no longer rests is taken to be filled.
StatusUnknownFilled(o) ==
  /\ poll = Idle /\ ~panicked /\ Polled(o) /\ o \notin resting
  /\ Tell(o, "filled")
  /\ UNCHANGED <<clientVars, envVars, poll, filled, cancelled, crossed, panicked>>

\* No such order: it has been cancelled.
StatusUnknown(o) ==
  /\ poll = Idle /\ ~panicked /\ Polled(o) /\ o \notin resting
  /\ Tell(o, "cancelled")
  /\ UNCHANGED <<clientVars, envVars, poll, filled, cancelled, crossed, panicked>>

StatusTooEarly(o) ==
  /\ poll = Idle /\ ~panicked /\ Polled(o) /\ o \in resting
  /\ ~Gate(o, now)
  /\ Tell(o, "submitted")
  /\ UNCHANGED <<clientVars, envVars, poll, filled, cancelled, crossed, panicked>>

\* always_fill fills within the first hold of the lock.
StatusAlwaysFill(o) ==
  /\ poll = Idle /\ ~panicked /\ Polled(o)
  /\ alwaysFill /\ Fill(o)
  /\ UNCHANGED <<alwaysFill, orders, counter, envVars, poll, cancelled, crossed>>

\* MUTANT of LookUp: the latency gate is left out.
LookUpAtOnce(o) ==
  /\ poll = Idle /\ ~panicked /\ Polled(o) /\ o \in resting
  /\ ~alwaysFill
  /\ poll' = [id |-> o, stage |-> "looked", price |-> NoPrice]
  /\ UNCHANGED <<clientVars, envVars, told, filled, cancelled, crossed, panicked>>

\* MUTANT of LookUp: the order is taken out while its price is looked up.
LookUpTakesOut(o) ==
  /\ poll = Idle /\ ~panicked /\ Polled(o) /\ o \in resting
  /\ Gate(o, now) /\ ~alwaysFill
  /\ poll' = [id |-> o, stage |-> "looked", price |-> NoPrice]
  /\ resting' = resting \ {o}
  /\ UNCHANGED <<alwaysFill, orders, counter, balance, reserved, envVars, told, filled, cancelled, crossed, panicked>>

\* The order is cloned and the lock let go of.
LookUp(o) ==
  /\ poll = Idle /\ ~panicked /\ Polled(o) /\ o \in resting
  /\ Gate(o, now) /\ ~alwaysFill
  /\ poll' = [id |-> o, stage |-> "looked", price |-> NoPrice]
  /\ UNCHANGED <<clientVars, envVars, told, filled, cancelled, crossed, panicked>>

ReadPrice ==
  /\ poll.stage = "looked"
  /\ poll' = [poll EXCEPT !.stage = "priced", !.price = Price(book, orders[poll.id].intent)]
  /\ UNCHANGED <<clientVars, envVars, told, filled, cancelled, crossed, panicked>>

\* The lock is taken again.
EndPoll == poll.stage = "priced" /\ poll' = Idle /\ UNCHANGED <<alwaysFill, orders, counter, envVars, cancelled, crossed>>

NotCrossed ==
  /\ EndPoll /\ ~Crosses(orders[poll.id].intent, poll.price)
  /\ Tell(poll.id, "submitted")
  /\ UNCHANGED <<resting, balance, reserved, filled, panicked>>

FillCrossed == EndPoll /\ Crosses(orders[poll.id].intent, poll.price) /\ Fill(poll.id)

\* MUTANT of FillMissing: the reservation is released before the order is found missing.
FillMissingReleases ==
  /\ EndPoll /\ Crosses(orders[poll.id].intent, poll.price)
  /\ poll.id \notin resting
  /\ panicked' = TRUE
  /\ Release(Reservation(poll.id))
  /\ UNCHANGED <<resting, told, filled>>

\* The order is gone: remove(..).unwrap() panics, and the poller with it.
FillMissing ==
  /\ EndPoll /\ Crosses(orders[poll.id].intent, poll.price)
  /\ poll.id \notin resting
  /\ panicked' = TRUE
  /\ UNCHANGED <<resting, balance, reserved, told, filled>>

-----------------------------------------------------------------------------

StatusOf(o) == StatusUnknown(o) \/ StatusTooEarly(o) \/ StatusAlwaysFill(o) \/ LookUp(o)
PollGoesOn == ReadPrice \/ NotCrossed \/ FillCrossed \/ FillMissing

\* The bounds are used up: no order rests.
Rest == now = MaxTime /\ resting = {} /\ UNCHANGED vars

Next ==
  \/ CacheChanges \/ Tick \/ PlaceOrder \/ Redeem
  \/ \E o \in Ids : CancelOrder(o) \/ StatusOf(o)
  \/ PollGoesOn \/ Rest

Spec == Init /\ [][Next]_vars

\* Every tick polls each order that has no verdict yet; nobody owes it a fill.
FairSpec == Spec /\ WF_vars(Tick) /\ WF_vars(PollGoesOn) /\ \A o \in Ids : SF_vars(StatusOf(o))

-----------------------------------------------------------------------------
(* Properties *)

\* What is reserved is what the resting orders may cost, whatever a poll finds when it
\* takes the lock again (sim_market_client.rs 56-64, 123-127, 186-215, 240-248).
ReservationsAddUp == reserved = MapThenSumSet(Reservation, resting)

\* An order is filled only if the cache has met its limit since its latency passed, though
\* perhaps no longer at the moment it is filled (sim_market_client.rs 172-215).
FilledOnlyIfCrossed == filled \subseteq crossed

\* The poller dies in the client only if somebody cancelled the order it was filling
\* (sim_market_client.rs 185-213).
PanicNeedsCancel ==
  [][panicked' /\ ~panicked => poll.id \in cancelled /\ told[poll.id] # "cancelled"]_vars

\* An order whose price goes on being met does not rest for ever, the poller's death aside
\* (sim_market_client.rs 150-238; order_status_poller.rs 62-99).
CrossedIsFilled ==
  \A o \in Ids : []<>(panicked \/ o \notin resting \/ o \notin Fillable(book, now))

\* To its callers the simulated client is an exchange: ports.rs' MarketClient.
StateOf(o) == CASE o \in filled -> "matched" [] o \in cancelled -> "canceled"
                [] o \in resting -> "live" [] OTHER -> "none"
Port == INSTANCE Exchange WITH exchange <- [o \in Ids |-> StateOf(o)]
IsAnExchange == Port!ExchangeSpec

=============================================================================
