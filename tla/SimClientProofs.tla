-------------------------- MODULE SimClientProofs --------------------------
(***************************************************************************)
(* Theorems about SimClient, for any orders, prices, latency and bounds:   *)
(* an order is filled only if its price was met, the poller dies only of a *)
(* cancellation, the reservations add up and the client implements         *)
(* Exchange.                                                               *)
(***************************************************************************)
EXTENDS SimClient, FiniteSetTheorems, WellFoundedInduction, TLAPS

-----------------------------------------------------------------------------
(* The inductive invariant. *)

\* Order ids come off the counter, which also mints transaction ids.
CounterInv ==
  /\ Placed \subseteq 1..counter
  /\ Cardinality(Placed) <= MaxIds
  /\ counter - Cardinality(Placed) <= MaxRedeems

\* An order has one fate, and what is told of it does not contradict it.
FateInv ==
  /\ Placed = resting \cup filled \cup cancelled
  /\ resting \cap filled = {} /\ resting \cap cancelled = {} /\ filled \cap cancelled = {}
  /\ \A o \in Ids : /\ told[o] = "filled" <=> o \in filled
                    /\ told[o] = "cancelled" => o \in cancelled

CrossedInv == filled \subseteq crossed /\ Fillable(book, now) \subseteq crossed

\* What a poll may rely on while it does not hold the lock: the order is no longer
\* sure to rest, but it can only have been cancelled, and a price that crosses was
\* one it could be filled at.
PollInv ==
  \/ poll = Idle
  \/ /\ ~alwaysFill /\ ~panicked
     /\ poll.id \in resting \cup cancelled
     /\ told[poll.id] \in {"none", "submitted"}
     /\ now >= orders[poll.id].at + Latency
     /\ \/ poll.stage = "looked"
        \/ poll.stage = "priced" /\ (Crosses(orders[poll.id].intent, poll.price) => poll.id \in crossed)

SimInv == TypeOK /\ CounterInv /\ FateInv /\ CrossedInv /\ PollInv

-----------------------------------------------------------------------------
(* What a placed order is, and what the actions' guards come to. *)

LEMMA IdsAreFinite ==
  /\ IsFiniteSet(Ids) /\ IsFiniteSet(Placed) /\ Cardinality(Placed) \in Nat
  /\ Ids \subseteq Nat
<1>1. MaxIds + MaxRedeems \in Nat
  BY SimClientAssumption
<1>2. IsFiniteSet(Ids) /\ Ids \subseteq Nat
  BY <1>1, FS_Interval DEF Ids
<1>3. Placed \subseteq Ids
  BY DEF Placed
<1>4. QED BY <1>2, <1>3, FS_Subset, FS_CardinalityType

\* An order has an intent, a time and an amount that is an integer.
LEMMA PlacedOrder ==
  ASSUME TypeOK, NEW o \in Placed
  PROVE  /\ o \in Ids
         /\ orders[o] \in [intent : Intents, at : 0..MaxTime]
         /\ orders[o].intent \in Intents /\ orders[o].at \in 0..MaxTime
         /\ Reservation(o) \in Int
         /\ Price(book, orders[o].intent) \in Prices \cup {NoPrice}
<1>1. o \in Ids /\ orders[o] \in [intent : Intents, at : 0..MaxTime]
  BY DEF TypeOK, Placed
<1>2. orders[o].intent \in Intents /\ orders[o].at \in 0..MaxTime
  BY <1>1
<1>3. /\ orders[o].intent.limit \in Nat /\ orders[o].intent.shares \in Nat
      /\ orders[o].intent.side \in Sides /\ orders[o].intent.token \in Tokens
  BY <1>2, SimClientAssumption DEF Tokens, Sides
<1>4. Reservation(o) \in Int
  BY <1>3 DEF Reservation
<1>5. Price(book, orders[o].intent) \in Prices \cup {NoPrice}
  BY <1>3 DEF TypeOK, Price
<1>6. QED BY <1>1, <1>2, <1>4, <1>5

\* The history's rule and the client's are the same, once the latency has passed.
LEMMA CrossesIsFillable ==
  ASSUME TypeOK, NEW o \in Placed, ~alwaysFill, now >= orders[o].at + Latency,
         Crosses(orders[o].intent, Price(book, orders[o].intent))
  PROVE  o \in Fillable(book, now)
<1> DEFINE i == orders[o].intent
<1> DEFINE p == Price(book, i)
<1>1. i \in Intents /\ p \in Prices \cup {NoPrice}
  BY PlacedOrder
<1>2. i.limit \in Nat /\ i.side \in {"Buy", "Sell"}
  BY <1>1, SimClientAssumption
<1>3. p # NoPrice /\ (p = i.limit \/ (i.side = "Buy") = (p < i.limit))
  <2>1. p \in Nat /\ p # NoPrice
    BY <1>1, SimClientAssumption DEF Crosses
  <2>2. CASE i.side = "Buy"
    <3>1. p <= i.limit BY <2>2 DEF Crosses
    <3>2. p = i.limit \/ p < i.limit
      <4> HIDE DEF p, i
      <4> QED BY <3>1, <2>1, <1>2
    <3>3. QED BY <2>1, <2>2, <3>2
  <2>3. CASE i.side = "Sell"
    <3>1. p >= i.limit BY <2>3 DEF Crosses
    <3>2. ~(p < i.limit)
      <4> HIDE DEF p, i
      <4> QED BY <3>1, <2>1, <1>2
    <3>3. (i.side = "Buy") = FALSE /\ (p < i.limit) = FALSE
      BY <2>3, <3>2
    <3>4. QED BY <2>1, <3>3
  <2>4. QED BY <1>2, <2>2, <2>3
<1>4. QED BY <1>3 DEF Fillable, Price

-----------------------------------------------------------------------------
(* Initially, and where no order is placed. *)

LEMMA InitInv == Init => SimInv
<1> SUFFICES ASSUME Init PROVE SimInv
  OBVIOUS
<1>1. Placed = {}
  BY DEF Init, Placed
<1>2. Ids \subseteq Nat /\ 0 \in 0..(MaxIds + MaxRedeems) /\ 0 \in 0..MaxTime /\ 0 \in 0..MaxMoves
  BY IdsAreFinite, SimClientAssumption
<1>3. TypeOK
  <2>1. /\ orders \in [Ids -> [intent : Intents, at : 0..MaxTime] \cup {NoOrder}]
        /\ book \in [Tokens \X Sides -> Prices \cup {NoPrice}]
        /\ told \in [Ids -> Verdicts]
    BY DEF Init, Verdicts
  <2>2. poll \in [id : 0..(MaxIds + MaxRedeems), stage : {"idle", "looked", "priced"}, price : Prices \cup {NoPrice}]
    BY <1>2 DEF Init, Idle
  <2>3. balance \in Int /\ reserved \in Int /\ counter \in 0..(MaxIds + MaxRedeems)
    BY <1>2, SimClientAssumption DEF Init
  <2>4. QED BY <1>1, <1>2, <2>1, <2>2, <2>3 DEF Init, TypeOK
<1>4. CounterInv
  BY <1>1, FS_EmptySet, SimClientAssumption DEF Init, CounterInv
<1>5. FateInv
  BY <1>1 DEF Init, FateInv
<1>6. Fillable(book, now) = {}
  BY <1>1 DEF Fillable
<1>7. CrossedInv
  BY <1>6 DEF Init, CrossedInv
<1>8. PollInv
  BY DEF Init, PollInv
<1>9. QED BY <1>3, <1>4, <1>5, <1>7, <1>8 DEF SimInv

\* A step that places no order keeps the placed ones and what they ask for.
LEMMA SamePlaced ==
  ASSUME orders' = orders
  PROVE  /\ Placed' = Placed
         /\ \A o : Reservation(o)' = Reservation(o)
         /\ CounterInv /\ counter' = counter => CounterInv'
         /\ alwaysFill' = alwaysFill /\ book' = book /\ now' = now
              => Fillable(book, now)' = Fillable(book, now)
<1>1. Placed' = Placed
  BY DEF Placed
<1>2. \A o : Reservation(o)' = Reservation(o)
  BY DEF Reservation
<1>3. CounterInv /\ counter' = counter => CounterInv'
  BY <1>1 DEF CounterInv
<1>4. alwaysFill' = alwaysFill /\ book' = book /\ now' = now
        => Fillable(book, now)' = Fillable(book, now)
  BY <1>1 DEF Fillable
<1>5. QED BY <1>1, <1>2, <1>3, <1>4

-----------------------------------------------------------------------------
(* place_order, cancel_order, redeem, and what goes on around the client. *)

LEMMA PlaceOrderStep == SimInv /\ PlaceOrder => SimInv'
<1> SUFFICES ASSUME SimInv, PlaceOrder PROVE SimInv'
  OBVIOUS
<1> DEFINE c == counter'
<1>1. PICK i \in Intents :
        /\ orders' = [orders EXCEPT ![c] = [intent |-> i, at |-> now]]
        /\ reserved' = reserved + i.limit * i.shares /\ balance' = balance - i.limit * i.shares
        /\ crossed' = IF alwaysFill \/ (Latency = 0 /\ Crosses(i, Price(book, i)))
                      THEN crossed \cup {c} ELSE crossed
  BY DEF PlaceOrder, Reserve
<1>2. /\ Cardinality(Placed) < MaxIds /\ c = counter + 1 /\ resting' = resting \cup {c}
      /\ UNCHANGED <<alwaysFill, book, now, moves, poll, told, filled, cancelled, panicked>>
  BY DEF PlaceOrder, envVars
<1>3. c \in Ids /\ c \notin Placed /\ c \in Nat
  <2>1. counter \in 0..(MaxIds + MaxRedeems) /\ counter - Cardinality(Placed) <= MaxRedeems
        /\ Placed \subseteq 1..counter
    BY DEF SimInv, TypeOK, CounterInv
  <2>2. c <= MaxIds + MaxRedeems
    BY <1>2, <2>1, IdsAreFinite, SimClientAssumption
  <2>3. c \in Ids /\ c \in Nat
    BY <1>2, <2>1, <2>2, IdsAreFinite, SimClientAssumption DEF Ids
  <2>4. c \notin 1..counter
    BY <1>2, <2>1
  <2>5. QED BY <2>1, <2>3, <2>4
<1>4. [intent |-> i, at |-> now] \in [intent : Intents, at : 0..MaxTime]
      /\ [intent |-> i, at |-> now] # NoOrder
  <2>1. now \in 0..MaxTime /\ MaxTime \in Nat
    BY SimClientAssumption DEF SimInv, TypeOK
  <2>2. now # MaxTime + 1
    BY <2>1
  <2>3. QED BY <2>1, <2>2 DEF NoOrder
<1>5. /\ orders' \in [Ids -> [intent : Intents, at : 0..MaxTime] \cup {NoOrder}]
      /\ orders'[c] = [intent |-> i, at |-> now]
      /\ \A o \in Ids \ {c} : orders'[o] = orders[o]
  BY <1>1, <1>3, <1>4 DEF SimInv, TypeOK
<1>6. Placed' = Placed \cup {c}
  BY <1>3, <1>4, <1>5 DEF Placed
<1>7. TypeOK'
  <2>1. /\ resting' \subseteq Placed' /\ filled' \subseteq Placed' /\ cancelled' \subseteq Placed'
        /\ crossed' \subseteq Placed'
    BY <1>1, <1>2, <1>6 DEF SimInv, TypeOK
  <2>2. i.limit * i.shares \in Int
    BY SimClientAssumption
  <2>3. balance' \in Int /\ reserved' \in Int
    BY <1>1, <2>2 DEF SimInv, TypeOK
  <2>4. counter' \in 0..(MaxIds + MaxRedeems)
    BY <1>3, SimClientAssumption DEF Ids
  <2>5. QED BY <1>2, <1>5, <2>1, <2>3, <2>4 DEF SimInv, TypeOK
<1>8. CounterInv'
  <2>1. Cardinality(Placed') = Cardinality(Placed) + 1
    BY <1>3, <1>6, IdsAreFinite, FS_AddElement
  <2>2. counter \in Nat
    BY SimClientAssumption DEF SimInv, TypeOK
  <2>3. Placed' \subseteq 1..c
    BY <1>2, <1>6, <2>2 DEF SimInv, CounterInv
  <2>4. QED
    BY <1>2, <2>1, <2>2, <2>3, IdsAreFinite, SimClientAssumption DEF SimInv, CounterInv
<1>9. FateInv'
  BY <1>2, <1>3, <1>6 DEF SimInv, TypeOK, FateInv
<1>10. CrossedInv'
  <2>1. filled' \subseteq crossed'
    BY <1>1, <1>2 DEF SimInv, CrossedInv
  <2>2. ASSUME NEW o \in Fillable(book, now)', o # c
        PROVE  o \in crossed'
    <3>1. o \in Placed /\ orders'[o] = orders[o]
      BY <1>5, <1>6, <2>2 DEF Fillable, Placed
    <3>2. o \in Fillable(book, now)
      BY <1>2, <2>2, <3>1 DEF Fillable
    <3>3. QED BY <1>1, <3>2 DEF SimInv, CrossedInv
  <2>3. ASSUME c \in Fillable(book, now)'
        PROVE  c \in crossed'
    <3>1. CASE alwaysFill
      BY <1>1, <3>1
    <3>2. CASE ~alwaysFill
      <4> DEFINE p == Price(book, i)
      <4>1. now >= now + Latency /\ p # NoPrice /\ (p = i.limit \/ (i.side = "Buy") = (p < i.limit))
        BY <1>2, <1>5, <2>3, <3>2 DEF Fillable, Price
      <4>2. Latency = 0
        BY <4>1, SimClientAssumption DEF SimInv, TypeOK
      <4>3. i.limit \in Nat /\ i.side \in {"Buy", "Sell"} /\ i.token \in Tokens /\ i.side \in Sides
        BY SimClientAssumption DEF Tokens, Sides
      <4>4. p \in Nat
        BY <4>1, <4>3, SimClientAssumption DEF Price, SimInv, TypeOK
      <4>5. \/ i.side = "Buy" /\ p <= i.limit
            \/ i.side = "Sell" /\ p >= i.limit
        <5> HIDE DEF p
        <5>1. CASE i.side = "Buy"
          <6>1. p = i.limit \/ p < i.limit
            BY <4>1, <5>1
          <6>2. QED BY <4>3, <4>4, <5>1, <6>1
        <5>2. CASE i.side = "Sell"
          <6>1. p = i.limit \/ ~(p < i.limit)
            BY <4>1, <5>2
          <6>2. QED BY <4>3, <4>4, <5>2, <6>1
        <5>3. QED BY <4>3, <5>1, <5>2
      <4>6. QED BY <1>1, <4>1, <4>2, <4>5 DEF Crosses
    <3>3. QED BY <3>1, <3>2
  <2>4. QED BY <2>1, <2>2, <2>3 DEF CrossedInv
<1>11. PollInv'
  <2>1. CASE poll = Idle
    BY <1>2, <2>1 DEF PollInv, Idle
  <2>2. CASE poll # Idle
    <3>1. poll.id \in Placed /\ orders'[poll.id] = orders[poll.id]
      BY <1>3, <1>5, <2>2 DEF SimInv, PollInv, FateInv, Placed
    <3>2. crossed \subseteq crossed' /\ resting \subseteq resting'
      BY <1>1, <1>2
    <3>3. QED BY <1>2, <2>2, <3>1, <3>2 DEF SimInv, PollInv, Crosses
  <2>3. QED BY <2>1, <2>2
<1>12. QED BY <1>7, <1>8, <1>9, <1>10, <1>11 DEF SimInv

LEMMA CancelOrderStep ==
  ASSUME SimInv, NEW o \in Ids, CancelOrder(o)
  PROVE  SimInv'
<1>1. /\ o \in resting /\ resting' = resting \ {o} /\ cancelled' = cancelled \cup {o}
      /\ reserved' = reserved - Reservation(o) /\ balance' = balance + Reservation(o)
      /\ UNCHANGED <<alwaysFill, orders, counter, book, now, moves, poll, told, filled, crossed, panicked>>
  BY DEF CancelOrder, Release, envVars
<1>2. Reservation(o) \in Int /\ o \in Placed
  BY <1>1, PlacedOrder DEF SimInv, TypeOK
<1>3. TypeOK'
  BY <1>1, <1>2, SamePlaced DEF SimInv, TypeOK
<1>4. CounterInv' /\ CrossedInv'
  BY <1>1, SamePlaced DEF SimInv, CrossedInv
<1>5. FateInv'
  BY <1>1, <1>2, SamePlaced DEF SimInv, FateInv
<1>6. PollInv'
  BY <1>1 DEF SimInv, PollInv, Idle, Crosses
<1>7. QED BY <1>3, <1>4, <1>5, <1>6 DEF SimInv

LEMMA RedeemStep == SimInv /\ Redeem => SimInv'
<1> SUFFICES ASSUME SimInv, Redeem PROVE SimInv'
  OBVIOUS
<1>1. /\ counter - Cardinality(Placed) < MaxRedeems /\ counter' = counter + 1
      /\ UNCHANGED <<alwaysFill, orders, resting, balance, reserved, book, now, moves, poll, told,
                     filled, cancelled, crossed, panicked>>
  BY DEF Redeem, envVars
<1>2. Placed' = Placed /\ counter \in Nat /\ Cardinality(Placed) \in Nat
  BY <1>1, SamePlaced, IdsAreFinite, SimClientAssumption DEF SimInv, TypeOK
<1>3. CounterInv'
  BY <1>1, <1>2, SimClientAssumption DEF SimInv, CounterInv
<1>4. counter' \in 0..(MaxIds + MaxRedeems)
  BY <1>1, <1>2, SimClientAssumption DEF SimInv, CounterInv
<1>5. TypeOK'
  BY <1>1, <1>2, <1>4 DEF SimInv, TypeOK
<1>6. FateInv' /\ CrossedInv'
  BY <1>1, <1>2, SamePlaced DEF SimInv, FateInv, CrossedInv
<1>7. PollInv'
  BY <1>1 DEF SimInv, PollInv, Idle, Crosses
<1>8. QED BY <1>3, <1>5, <1>6, <1>7 DEF SimInv

LEMMA EnvironmentStep == SimInv /\ (CacheChanges \/ Tick) => SimInv'
<1> SUFFICES ASSUME SimInv, CacheChanges \/ Tick PROVE SimInv'
  OBVIOUS
<1>1. /\ UNCHANGED <<clientVars, poll, told, filled, cancelled, panicked>>
      /\ crossed' = crossed \cup Fillable(book', now')
      /\ book' \in [Tokens \X Sides -> Prices \cup {NoPrice}]
      /\ now' \in 0..MaxTime /\ now' >= now /\ moves' \in 0..MaxMoves
  <2>1. now \in 0..MaxTime /\ moves \in 0..MaxMoves /\ MaxTime \in Nat /\ MaxMoves \in Nat
    BY SimClientAssumption DEF SimInv, TypeOK
  <2>2. CASE CacheChanges
    <3>1. moves' \in 0..MaxMoves /\ now' = now
      BY <2>1, <2>2 DEF CacheChanges
    <3>2. book' \in [Tokens \X Sides -> Prices \cup {NoPrice}]
      BY <2>2 DEF CacheChanges, SimInv, TypeOK
    <3>3. QED BY <2>1, <2>2, <3>1, <3>2 DEF CacheChanges
  <2>3. CASE Tick
    <3>1. now' \in 0..MaxTime /\ now' >= now /\ UNCHANGED <<book, moves>>
      BY <2>1, <2>3 DEF Tick
    <3>2. crossed' = crossed \cup Fillable(book', now')
      BY <2>3, <3>1 DEF Tick
    <3>3. QED BY <2>1, <2>3, <3>1, <3>2 DEF Tick, SimInv, TypeOK
  <2>4. QED BY <2>2, <2>3
<1>2. Placed' = Placed /\ UNCHANGED <<alwaysFill, orders, resting, balance, reserved, counter>>
  BY <1>1 DEF clientVars, Placed
<1>3. Fillable(book', now') \subseteq Placed
  BY DEF Fillable
<1>4. TypeOK'
  BY <1>1, <1>2, <1>3 DEF SimInv, TypeOK
<1>5. Fillable(book, now)' = Fillable(book', now')
  BY <1>2 DEF Fillable
<1>6. CounterInv' /\ FateInv' /\ CrossedInv'
  BY <1>1, <1>2, <1>5, SamePlaced DEF SimInv, FateInv, CrossedInv
<1>7. PollInv'
  <2>1. CASE poll = Idle
    BY <1>1, <2>1 DEF PollInv, Idle
  <2>2. CASE poll # Idle
    <3>1. poll.id \in Placed
      BY <2>2 DEF SimInv, PollInv, FateInv
    <3>2. orders[poll.id].at \in Nat /\ now \in Nat /\ now' \in Nat
      BY <1>1, <3>1, PlacedOrder, SimClientAssumption DEF SimInv, TypeOK
    <3>3. now' >= orders[poll.id].at + Latency
      BY <1>1, <2>2, <3>2, SimClientAssumption DEF SimInv, PollInv
    <3>4. QED BY <1>1, <1>2, <2>2, <3>3 DEF SimInv, PollInv, Crosses
  <2>3. QED BY <2>1, <2>2
<1>8. QED BY <1>4, <1>6, <1>7 DEF SimInv

-----------------------------------------------------------------------------
(* order_status. *)

\* What order_status is called for rests, or has been cancelled.
LEMMA PolledOrder ==
  ASSUME SimInv, NEW o \in Ids, Polled(o)
  PROVE  o \in Placed /\ o \in resting \cup cancelled /\ o \notin filled
BY DEF SimInv, FateInv, Polled

\* A fill, under the lock, of an order whose price was met.
LEMMA FillKeeps ==
  ASSUME SimInv, NEW o \in Ids, Fill(o), o \in crossed, poll' = Idle,
         UNCHANGED <<alwaysFill, orders, counter, envVars, cancelled, crossed>>
  PROVE  SimInv'
<1>1. /\ o \in resting /\ resting' = resting \ {o} /\ filled' = filled \cup {o}
      /\ reserved' = reserved - Reservation(o) /\ balance' = balance + Reservation(o)
      /\ told' = [told EXCEPT ![o] = "filled"]
      /\ UNCHANGED <<alwaysFill, orders, counter, book, now, moves, cancelled, crossed, panicked>>
  BY DEF Fill, Release, Tell, envVars
<1>2. Reservation(o) \in Int /\ o \in Placed
  BY <1>1, PlacedOrder DEF SimInv, TypeOK
<1>3. TypeOK'
  <2>1. told' \in [Ids -> Verdicts]
    BY <1>1 DEF SimInv, TypeOK, Verdicts
  <2>2. poll' \in [id : 0..(MaxIds + MaxRedeems), stage : {"idle", "looked", "priced"}, price : Prices \cup {NoPrice}]
    BY SimClientAssumption DEF Idle
  <2>3. QED BY <1>1, <1>2, <2>1, <2>2, SamePlaced DEF SimInv, TypeOK
<1>4. CounterInv' /\ CrossedInv'
  BY <1>1, SamePlaced DEF SimInv, CrossedInv
<1>5. FateInv'
  BY <1>1, <1>2, SamePlaced DEF SimInv, TypeOK, FateInv
<1>6. PollInv'
  BY DEF PollInv, Idle
<1>7. QED BY <1>3, <1>4, <1>5, <1>6 DEF SimInv

\* Telling something of an order that does not rest on it being filled.
LEMMA TellKeeps ==
  ASSUME SimInv, NEW o \in Ids, NEW v \in {"submitted", "cancelled"}, Tell(o, v), poll' = Idle,
         o \notin filled, v = "cancelled" => o \in cancelled,
         UNCHANGED <<clientVars, envVars, filled, cancelled, crossed, panicked>>
  PROVE  SimInv'
<1>1. UNCHANGED <<alwaysFill, orders, resting, balance, reserved, counter, book, now, moves>>
  BY DEF clientVars, envVars
<1>2. TypeOK'
  <2>1. told' \in [Ids -> Verdicts]
    BY DEF SimInv, TypeOK, Verdicts, Tell
  <2>2. poll' \in [id : 0..(MaxIds + MaxRedeems), stage : {"idle", "looked", "priced"}, price : Prices \cup {NoPrice}]
    BY SimClientAssumption DEF Idle
  <2>3. QED BY <1>1, <2>1, <2>2, SamePlaced DEF SimInv, TypeOK
<1>3. CounterInv' /\ CrossedInv'
  BY <1>1, SamePlaced DEF SimInv, CrossedInv
<1>4. FateInv'
  BY <1>1, SamePlaced DEF SimInv, TypeOK, FateInv, Tell
<1>5. PollInv'
  BY DEF PollInv, Idle
<1>6. QED BY <1>2, <1>3, <1>4, <1>5 DEF SimInv

LEMMA StatusOfStep ==
  ASSUME SimInv, NEW o \in Ids, StatusOf(o)
  PROVE  SimInv'
<1>1. o \in Placed /\ o \in resting \cup cancelled /\ o \notin filled
  BY PolledOrder DEF StatusOf, StatusUnknown, StatusTooEarly, StatusAlwaysFill, LookUp
<1>2. CASE StatusUnknown(o)
  BY <1>1, <1>2, TellKeeps DEF StatusUnknown
<1>3. CASE StatusTooEarly(o)
  BY <1>1, <1>3, TellKeeps DEF StatusTooEarly
<1>4. CASE StatusAlwaysFill(o)
  <2>1. o \in crossed
    BY <1>1, <1>4 DEF StatusAlwaysFill, SimInv, CrossedInv, Fillable
  <2>2. QED BY <1>4, <2>1, FillKeeps DEF StatusAlwaysFill
<1>5. CASE LookUp(o)
  <2>1. /\ poll' = [id |-> o, stage |-> "looked", price |-> NoPrice]
        /\ UNCHANGED <<alwaysFill, orders, resting, balance, reserved, counter, book, now, moves,
                       told, filled, cancelled, crossed, panicked>>
    BY <1>5 DEF LookUp, clientVars, envVars
  <2>2. ~alwaysFill /\ ~panicked /\ told[o] \in {"none", "submitted"} /\ now - orders[o].at >= Latency
    BY <1>5 DEF LookUp, Polled, Gate
  <2>3. now >= orders[o].at + Latency
    BY <1>1, <2>2, PlacedOrder, SimClientAssumption DEF SimInv, TypeOK
  <2>4. TypeOK'
    <3>1. o \in 0..(MaxIds + MaxRedeems)
      BY SimClientAssumption DEF Ids
    <3>2. poll' \in [id : 0..(MaxIds + MaxRedeems), stage : {"idle", "looked", "priced"}, price : Prices \cup {NoPrice}]
      BY <2>1, <3>1
    <3>3. QED BY <2>1, <3>2, SamePlaced DEF SimInv, TypeOK
  <2>5. CounterInv' /\ FateInv' /\ CrossedInv'
    BY <2>1, SamePlaced DEF SimInv, FateInv, CrossedInv
  <2>6. PollInv'
    BY <1>1, <2>1, <2>2, <2>3 DEF PollInv
  <2>7. QED BY <2>4, <2>5, <2>6 DEF SimInv
<1>6. QED BY <1>2, <1>3, <1>4, <1>5 DEF StatusOf

LEMMA PollGoesOnStep == SimInv /\ PollGoesOn => SimInv'
<1> SUFFICES ASSUME SimInv, PollGoesOn PROVE SimInv'
  OBVIOUS
<1>1. /\ ~alwaysFill /\ ~panicked /\ poll.id \in resting \cup cancelled
      /\ told[poll.id] \in {"none", "submitted"} /\ now >= orders[poll.id].at + Latency
      /\ poll.stage = "priced" => (Crosses(orders[poll.id].intent, poll.price) => poll.id \in crossed)
  BY DEF PollGoesOn, ReadPrice, NotCrossed, FillCrossed, FillMissing, EndPoll, SimInv, PollInv, Idle
<1>2. poll.id \in Placed /\ poll.id \in Ids /\ poll.id \notin filled
  BY <1>1, PlacedOrder DEF SimInv, FateInv
<1>3. CASE ReadPrice
  <2> DEFINE o == poll.id
  <2>1. /\ poll' = [poll EXCEPT !.stage = "priced", !.price = Price(book, orders[o].intent)]
        /\ UNCHANGED <<alwaysFill, orders, resting, balance, reserved, counter, book, now, moves,
                       told, filled, cancelled, crossed, panicked>>
    BY <1>3 DEF ReadPrice, clientVars, envVars
  <2>2. Price(book, orders[o].intent) \in Prices \cup {NoPrice}
    BY <1>2, PlacedOrder DEF SimInv
  <2>3. /\ poll' \in [id : 0..(MaxIds + MaxRedeems), stage : {"idle", "looked", "priced"}, price : Prices \cup {NoPrice}]
        /\ poll'.id = o /\ poll'.stage = "priced" /\ poll'.price = Price(book, orders[o].intent)
    BY <2>1, <2>2 DEF SimInv, TypeOK
  <2>4. TypeOK'
    BY <2>1, <2>3, SamePlaced DEF SimInv, TypeOK
  <2>5. CounterInv' /\ FateInv' /\ CrossedInv'
    BY <2>1, SamePlaced DEF SimInv, FateInv, CrossedInv
  <2>6. Crosses(orders[o].intent, Price(book, orders[o].intent)) => o \in crossed
    BY <1>1, <1>2, CrossesIsFillable DEF SimInv, CrossedInv
  <2>7. PollInv'
    <3>1. (Crosses(orders[poll.id].intent, poll.price) => poll.id \in crossed)'
      BY <2>1, <2>3, <2>6 DEF Crosses
    <3>2. QED BY <1>1, <2>1, <2>3, <3>1 DEF PollInv
  <2>8. QED BY <2>4, <2>5, <2>7 DEF SimInv
<1>4. CASE NotCrossed
  BY <1>2, <1>4, TellKeeps DEF NotCrossed, EndPoll, clientVars
<1>5. CASE FillCrossed
  <2>1. poll.id \in crossed
    BY <1>1, <1>5 DEF FillCrossed, EndPoll
  <2>2. QED BY <1>2, <1>5, <2>1, FillKeeps DEF FillCrossed, EndPoll
<1>6. CASE FillMissing
  <2>1. /\ poll' = Idle /\ panicked' = TRUE
        /\ UNCHANGED <<alwaysFill, orders, resting, balance, reserved, counter, book, now, moves,
                       told, filled, cancelled, crossed>>
    BY <1>6 DEF FillMissing, EndPoll, envVars
  <2>2. poll' \in [id : 0..(MaxIds + MaxRedeems), stage : {"idle", "looked", "priced"}, price : Prices \cup {NoPrice}]
    BY <2>1, SimClientAssumption DEF Idle
  <2>3. TypeOK'
    BY <2>1, <2>2, SamePlaced DEF SimInv, TypeOK
  <2>4. CounterInv' /\ FateInv' /\ CrossedInv'
    BY <2>1, SamePlaced DEF SimInv, FateInv, CrossedInv
  <2>5. PollInv'
    BY <2>1 DEF PollInv, Idle
  <2>6. QED BY <2>3, <2>4, <2>5 DEF SimInv
<1>7. QED BY <1>3, <1>4, <1>5, <1>6 DEF PollGoesOn

LEMMA StutterStep == SimInv /\ UNCHANGED vars => SimInv'
<1> SUFFICES ASSUME SimInv, UNCHANGED vars PROVE SimInv'
  OBVIOUS
<1>1. UNCHANGED <<alwaysFill, orders, resting, balance, reserved, counter, book, now, moves, poll,
                  told, filled, cancelled, crossed, panicked>>
  BY DEF vars, clientVars, envVars
<1>2. TypeOK' /\ CounterInv' /\ FateInv' /\ CrossedInv'
  BY <1>1, SamePlaced DEF SimInv, TypeOK, FateInv, CrossedInv
<1>3. PollInv'
  BY <1>1 DEF SimInv, PollInv, Idle, Crosses
<1>4. QED BY <1>2, <1>3 DEF SimInv

LEMMA NextInv == SimInv /\ [Next]_vars => SimInv'
BY PlaceOrderStep, CancelOrderStep, RedeemStep, EnvironmentStep, StatusOfStep, PollGoesOnStep, StutterStep
DEF Next, Rest

\* The inductive invariant of the client and its poller.
THEOREM Invariance == Spec => []SimInv
BY InitInv, NextInv, PTL DEF Spec

-----------------------------------------------------------------------------
(* What follows. *)

\* The client's state keeps to its types: ids never run out of range, and no set holds
\* an order that was not placed (sim_market_client.rs 26-43).
THEOREM TypeCorrect == Spec => []TypeOK
BY Invariance, PTL DEF SimInv

\* An order is filled only if its limit was met at some moment since its latency passed,
\* whatever the cache did while the lock was let go of (sim_market_client.rs 172-215).
THEOREM FillsAreCrossed == Spec => []FilledOnlyIfCrossed
<1>1. SimInv => FilledOnlyIfCrossed
  BY DEF SimInv, CrossedInv, FilledOnlyIfCrossed
<1>2. QED BY <1>1, Invariance, PTL

\* Only a cancellation between the two holds of the lock can kill the poller
\* (sim_market_client.rs 185-213).
THEOREM PanicsNeedCancels == Spec => PanicNeedsCancel
<1>1. SimInv /\ [Next]_vars => [panicked' /\ ~panicked => poll.id \in cancelled /\ told[poll.id] # "cancelled"]_vars
  <2> SUFFICES ASSUME SimInv, [Next]_vars, panicked' # panicked
               PROVE  poll.id \in cancelled /\ told[poll.id] # "cancelled"
    BY DEF vars
  <2>1. FillMissing
    BY DEF Next, Rest, vars, CacheChanges, Tick, PlaceOrder, CancelOrder, Redeem, StatusOf, StatusUnknown,
           StatusTooEarly, StatusAlwaysFill, LookUp, PollGoesOn, ReadPrice, NotCrossed, FillCrossed, Fill
  <2>2. QED BY <2>1 DEF FillMissing, EndPoll, SimInv, PollInv, Idle
<1>2. QED BY <1>1, Invariance, PTL DEF Spec, PanicNeedsCancel

-----------------------------------------------------------------------------
(* The refinement. *)

\* The state of an order, read off its one fate.
LEMMA StateOfCases ==
  ASSUME SimInv, NEW o
  PROVE  /\ o \in filled => StateOf(o) = "matched"
         /\ o \in cancelled => StateOf(o) = "canceled"
         /\ o \in resting => StateOf(o) = "live"
         /\ o \notin Placed => StateOf(o) = "none"
BY DEF SimInv, FateInv, StateOf

\* Orders that keep their fate keep their state.
LEMMA SameState ==
  ASSUME UNCHANGED <<resting, filled, cancelled>>
  PROVE  [o \in Ids |-> StateOf(o)]' = [o \in Ids |-> StateOf(o)]
BY DEF StateOf

LEMMA ExchangeStep == SimInv /\ SimInv' /\ [Next]_vars => [Port!ExchangeNext]_(Port!exchangeVars)
<1> DEFINE ex == [o \in Ids |-> StateOf(o)]
<1> SUFFICES ASSUME SimInv, SimInv', [Next]_vars
             PROVE  Port!ExchangeNext \/ (ex' = ex /\ told' = told)
  BY DEF Port!exchangeVars
<1>0. told \in [Ids -> Verdicts]
  BY DEF SimInv, TypeOK
<1>1. CASE PlaceOrder
  <2>0. PICK c \in Ids : c = counter'
    BY <1>1 DEF PlaceOrder, SimInv, TypeOK, Placed
  <2>1. /\ resting' = resting \cup {c} /\ UNCHANGED <<told, filled, cancelled>>
    BY <1>1, <2>0 DEF PlaceOrder
  <2>2. c \notin Placed
    <3>1. counter \in Nat /\ Placed \subseteq 1..counter /\ c = counter + 1
      BY <1>1, <2>0, SimClientAssumption DEF SimInv, CounterInv, TypeOK, PlaceOrder
    <3>2. QED BY <3>1
  <2>3. ex' = [ex EXCEPT ![c] = "live"] /\ ex[c] = "none"
    <3>1. \A o \in Ids \ {c} : StateOf(o)' = StateOf(o)
      BY <2>1 DEF StateOf
    <3>2. StateOf(c)' = "live" /\ StateOf(c) = "none"
      BY <2>1, <2>2 DEF SimInv, FateInv, StateOf
    <3>3. QED BY <2>2, <3>1, <3>2
  <2>4. Port!Take(c)
    BY <2>1, <2>3 DEF Port!Take
  <2>5. QED BY <2>2, <2>4 DEF Port!ExchangeNext
<1>2. ASSUME NEW o \in Ids, CancelOrder(o)
      PROVE  Port!ExchangeNext
  <2>1. /\ o \in resting /\ resting' = resting \ {o} /\ cancelled' = cancelled \cup {o}
        /\ UNCHANGED <<told, filled>>
    BY <1>2 DEF CancelOrder
  <2>2. ex' = [ex EXCEPT ![o] = "canceled"] /\ ex[o] = "live"
    <3>1. \A q \in Ids \ {o} : StateOf(q)' = StateOf(q)
      BY <2>1 DEF StateOf
    <3>2. StateOf(o)' = "canceled" /\ StateOf(o) = "live"
      BY <2>1 DEF SimInv, FateInv, StateOf
    <3>3. QED BY <1>2, <3>1, <3>2
  <2>3. Port!Cancel(o)
    BY <2>1, <2>2 DEF Port!Cancel
  <2>4. QED BY <1>2, <2>3 DEF Port!ExchangeNext
<1>3. ASSUME NEW o \in Ids, Fill(o), cancelled' = cancelled
      PROVE  Port!ExchangeNext
  <2>1. /\ o \in resting /\ resting' = resting \ {o} /\ filled' = filled \cup {o}
        /\ told' = [told EXCEPT ![o] = "filled"]
    BY <1>3 DEF Fill, Tell
  <2>2. ex' = [ex EXCEPT ![o] = "matched"] /\ ex[o] = "live"
    <3>1. \A q \in Ids \ {o} : StateOf(q)' = StateOf(q)
      BY <1>3, <2>1 DEF StateOf
    <3>2. StateOf(o)' = "matched" /\ StateOf(o) = "live"
      BY <2>1 DEF SimInv, FateInv, StateOf
    <3>3. QED BY <1>3, <3>1, <3>2
  <2>3. Port!Match(o)
    BY <2>1, <2>2 DEF Port!Match
  <2>4. QED BY <1>3, <2>3 DEF Port!ExchangeNext
<1>4. ASSUME NEW o \in Ids, NEW v \in {"submitted", "cancelled"}, Tell(o, v), ex' = ex,
             told[o] \in {"none", "submitted"}, o \in resting \cup cancelled,
             v = "cancelled" => o \in cancelled
      PROVE  Port!ExchangeNext
  <2>1. told' = [told EXCEPT ![o] = v]
    BY <1>4 DEF Tell
  <2>2. ex[o] \in {"live", "canceled"}
    BY <1>4, StateOfCases
  <2>3. v = "cancelled" => ex[o] = "canceled"
    BY <1>4, StateOfCases
  <2>4. Port!Tell(o)
    <3> DEFINE answers == {<<"live", "submitted">>, <<"canceled", "submitted">>,
                           <<"matched", "filled">>, <<"canceled", "cancelled">>}
    <3>1. <<ex[o], v>> \in answers
      BY <2>2, <2>3
    <3>2. \E answer \in answers : ex[o] = answer[1] /\ told' = [told EXCEPT ![o] = answer[2]]
      <4>1. ex[o] = <<ex[o], v>>[1] /\ told' = [told EXCEPT ![o] = <<ex[o], v>>[2]]
        BY <2>1
      <4> HIDE DEF answers
      <4>2. QED BY <3>1, <4>1
    <3>3. QED BY <1>4, <3>2 DEF Port!Tell
  <2>5. QED BY <1>4, <2>4 DEF Port!ExchangeNext
<1>5. ASSUME NEW o \in Ids, StatusOf(o)
      PROVE  Port!ExchangeNext \/ (ex' = ex /\ told' = told)
  <2>1. Polled(o)
    BY <1>5 DEF StatusOf, StatusUnknown, StatusTooEarly, StatusAlwaysFill, LookUp
  <2>2. o \in resting \cup cancelled /\ told[o] \in {"none", "submitted"}
    BY <1>5, <2>1, PolledOrder DEF Polled
  <2>3. CASE StatusUnknown(o)
    <3>1. ex' = ex
      BY <2>3, SameState DEF StatusUnknown, clientVars
    <3>2. QED BY <1>4, <1>5, <2>2, <2>3, <3>1 DEF StatusUnknown
  <2>4. CASE StatusTooEarly(o)
    <3>1. ex' = ex
      BY <2>4, SameState DEF StatusTooEarly, clientVars
    <3>2. QED BY <1>4, <1>5, <2>2, <2>4, <3>1 DEF StatusTooEarly
  <2>5. CASE StatusAlwaysFill(o)
    BY <1>3, <1>5, <2>5 DEF StatusAlwaysFill
  <2>6. CASE LookUp(o)
    BY <2>6, SameState DEF LookUp, clientVars
  <2>7. QED BY <1>5, <2>3, <2>4, <2>5, <2>6 DEF StatusOf
<1>6. ASSUME PollGoesOn
      PROVE  Port!ExchangeNext \/ (ex' = ex /\ told' = told)
  <2>1. /\ poll.id \in resting \cup cancelled /\ poll.id \in Ids
        /\ told[poll.id] \in {"none", "submitted"}
    BY <1>6, PlacedOrder
    DEF PollGoesOn, ReadPrice, NotCrossed, FillCrossed, FillMissing, EndPoll, SimInv, PollInv, FateInv, Idle
  <2>2. CASE ReadPrice \/ FillMissing
    BY <2>2, SameState DEF ReadPrice, FillMissing, EndPoll, clientVars
  <2>3. CASE NotCrossed
    <3>1. ex' = ex
      BY <2>3, SameState DEF NotCrossed, EndPoll
    <3>2. QED BY <1>4, <2>1, <2>3, <3>1 DEF NotCrossed
  <2>4. CASE FillCrossed
    BY <1>3, <2>1, <2>4 DEF FillCrossed, EndPoll
  <2>5. QED BY <1>6, <2>2, <2>3, <2>4 DEF PollGoesOn
<1>7. ASSUME CacheChanges \/ Tick \/ Redeem \/ Rest \/ UNCHANGED vars
      PROVE  ex' = ex /\ told' = told
  BY <1>7, SameState DEF CacheChanges, Tick, Redeem, Rest, vars, clientVars
<1>8. QED BY <1>1, <1>2, <1>5, <1>6, <1>7 DEF Next

\* The simulated client is a MarketClient as the tasks know it: an order is live until it is
\* matched or canceled, once and for good, and order_status tells nothing but that, though
\* the lock is let go of within it (sim_market_client.rs 105-262; ports.rs).
THEOREM ImplementsExchange == Spec => IsAnExchange
<1>1. Init => Port!ExchangeInit
  BY DEF Init, Port!ExchangeInit, StateOf
<1>2. SimInv /\ SimInv' /\ [Next]_vars => [Port!ExchangeNext]_(Port!exchangeVars)
  BY ExchangeStep
<1>3. QED BY <1>1, <1>2, Invariance, PTL DEF Spec, IsAnExchange, Port!ExchangeSpec

\* A fill costs the virtual balance nothing: whatever is placed, filled or cancelled,
\* balance and reservations together stay the bankroll the dry run began with, since the
\* fee and the cost that a fill works out are dropped.  The plan of the dry run and the
\* comment on taker_fee_bps want a fee taken (sim_market_client.rs 56-64, 97-104, 123-127,
\* 212-219; config.rs 50; docs/dry-run-and-simulation-plan.md 118-121).
THEOREM FillsCostNothing == Spec => [](balance + reserved = Bankroll)
<1>1. Init => balance + reserved = Bankroll
  BY SimClientAssumption DEF Init
<1>2. SimInv /\ balance + reserved = Bankroll /\ [Next]_vars => (balance + reserved = Bankroll)'
  <2> SUFFICES ASSUME SimInv, balance + reserved = Bankroll, [Next]_vars
               PROVE  balance' + reserved' = Bankroll
    OBVIOUS
  <2>0. balance \in Int /\ reserved \in Int
    BY DEF SimInv, TypeOK
  <2>1. ASSUME NEW amount \in Int, Reserve(amount) \/ Release(amount)
        PROVE  balance' + reserved' = Bankroll
    BY <2>0, <2>1 DEF Reserve, Release
  <2>2. CASE PlaceOrder
    <3>1. PICK i \in Intents : Reserve(i.limit * i.shares)
      BY <2>2 DEF PlaceOrder
    <3>2. i.limit * i.shares \in Int
      BY SimClientAssumption
    <3>3. QED BY <2>1, <3>1, <3>2
  <2>3. ASSUME NEW o \in resting, Release(Reservation(o))
        PROVE  balance' + reserved' = Bankroll
    BY <2>1, <2>3, PlacedOrder DEF SimInv, TypeOK
  <2>4. ASSUME NEW o \in Ids, CancelOrder(o) \/ Fill(o)
        PROVE  balance' + reserved' = Bankroll
    BY <2>3, <2>4 DEF CancelOrder, Fill
  <2>5. CASE UNCHANGED <<balance, reserved>>
    BY <2>5
  <2>6. PollGoesOn => UNCHANGED <<balance, reserved>> \/ (\E o \in Ids : Fill(o))
    <3>1. FillCrossed => Fill(poll.id) /\ poll.id \in resting /\ resting \subseteq Ids
      BY DEF FillCrossed, Fill, SimInv, TypeOK, Placed
    <3>2. QED BY <3>1 DEF PollGoesOn, ReadPrice, NotCrossed, FillMissing, clientVars
  <2>7. QED
    BY <2>2, <2>4, <2>5, <2>6
    DEF Next, Rest, vars, clientVars, CacheChanges, Tick, Redeem, StatusOf, StatusUnknown,
        StatusTooEarly, StatusAlwaysFill, LookUp
<1>3. QED BY <1>1, <1>2, Invariance, PTL DEF Spec
-----------------------------------------------------------------------------
(* Sums over finite sets. *)

LEMMA LeastNatural ==
  ASSUME NEW S, S \subseteq Nat, S # {}
  PROVE  \E x \in S : \A y \in S : x <= y
<1> DEFINE Below == {ss \in Nat \X Nat : ss[1] < ss[2]}
<1>1. IsWellFoundedOn(Below, Nat)
  BY NatLessThanWellFounded DEF OpToRel
<1>2. PICK x \in S : \A y \in S : ~ (<<y, x>> \in Below)
  <2> HIDE DEF Below
  <2>1. QED BY <1>1, WFMin
<1>3. ASSUME NEW y \in S PROVE x <= y
  <2>1. x \in Nat /\ y \in Nat OBVIOUS
  <2>2. <<y, x>> \in Nat \X Nat BY <2>1
  <2>3. ~ (y < x) BY <1>2, <2>2
  <2>4. QED BY <2>1, <2>3
<1>4. QED BY <1>3

\* A family of finite sets has a smallest member: every member without one of its elements
\* is outside the family.
LEMMA SmallestMember ==
  ASSUME NEW F, F # {}, \A s \in F : IsFiniteSet(s)
  PROVE  \E s \in F : \A x \in s : s \ {x} \notin F
<1> DEFINE sizes == {Cardinality(s) : s \in F}
<1>1. sizes \subseteq Nat /\ sizes # {}
  BY FS_CardinalityType
<1>2. PICK n \in sizes : \A k \in sizes : n <= k
  <2> HIDE DEF sizes
  <2>1. QED BY <1>1, LeastNatural
<1>3. PICK s \in F : n = Cardinality(s)
  BY <1>2
<1>4. ASSUME NEW x \in s, s \ {x} \in F PROVE FALSE
  <2>1. Cardinality(s \ {x}) = Cardinality(s) - 1 /\ Cardinality(s) \in Nat
    BY FS_RemoveElement, FS_CardinalityType
  <2>2. Cardinality(s) <= Cardinality(s \ {x})
    BY <1>2, <1>3, <1>4
  <2>3. QED BY <2>1, <2>2
<1>5. QED BY <1>3, <1>4

\* What MapThenSumSet computes: g has the sum of every subset of S, each of them begun
\* with the element CHOOSE picks.
Chosen(s) == CHOOSE x \in s : TRUE
Sums(g, w, S) == g = [s \in SUBSET S |-> IF s = {} THEN 0 ELSE w[Chosen(s)] + g[s \ {Chosen(s)}]]
Total(w, S) == (CHOOSE g : Sums(g, w, S))[S]

LEMMA ChosenIsIn == ASSUME NEW s, s # {} PROVE Chosen(s) \in s
BY DEF Chosen

\* Sums are determined by the weights of the elements.
LEMMA SumsAgree ==
  ASSUME NEW S, NEW T, NEW g, NEW h, NEW v, NEW w, IsFiniteSet(S), S \subseteq T,
         Sums(g, v, S), Sums(h, w, T), \A x \in S : v[x] = w[x]
  PROVE  \A s \in SUBSET S : g[s] = h[s]
<1> DEFINE F == {s \in SUBSET S : g[s] # h[s]}
<1> SUFFICES ASSUME F # {} PROVE FALSE
  OBVIOUS
<1>1. \A s \in F : IsFiniteSet(s)
  BY FS_Subset
<1>2. PICK s \in F : \A x \in s : s \ {x} \notin F
  <2> HIDE DEF F
  <2>1. QED BY <1>1, SmallestMember
<1>3. s \in SUBSET S /\ s \in SUBSET T /\ g[s] # h[s]
  BY <1>2
<1>4. /\ g[s] = IF s = {} THEN 0 ELSE v[Chosen(s)] + g[s \ {Chosen(s)}]
      /\ h[s] = IF s = {} THEN 0 ELSE w[Chosen(s)] + h[s \ {Chosen(s)}]
  BY <1>3 DEF Sums
<1>5. s # {} /\ Chosen(s) \in s
  BY <1>3, <1>4, ChosenIsIn
<1>6. g[s \ {Chosen(s)}] = h[s \ {Chosen(s)}] /\ v[Chosen(s)] = w[Chosen(s)]
  BY <1>2, <1>3, <1>5
<1>7. QED BY <1>3, <1>4, <1>5, <1>6

LEMMA TotalOfSums ==
  ASSUME NEW S, NEW w, NEW g, IsFiniteSet(S), Sums(g, w, S)
  PROVE  \A s \in SUBSET S : (\E h : Sums(h, w, s)) => Total(w, s) = g[s]
<1> SUFFICES ASSUME NEW s \in SUBSET S, \E h : Sums(h, w, s) PROVE Total(w, s) = g[s]
  OBVIOUS
<1>1. PICK h : h = CHOOSE k : Sums(k, w, s)
  OBVIOUS
<1>2. Sums(h, w, s) /\ Total(w, s) = h[s]
  BY <1>1 DEF Total
<1>3. IsFiniteSet(s)
  BY FS_Subset
<1>4. QED BY <1>2, <1>3, SumsAgree

LEMMA SumsExist ==
  ASSUME NEW S, NEW w, IsFiniteSet(S)
  PROVE  \E g : Sums(g, w, S)
<1> DEFINE F == {s \in SUBSET S : ~ \E g : Sums(g, w, s)}
<1> SUFFICES ASSUME F # {} PROVE FALSE
  OBVIOUS
<1>1. \A s \in SUBSET S : IsFiniteSet(s)
  BY FS_Subset
<1>2. PICK m \in F : \A x \in m : m \ {x} \notin F
  <2>1. \A s \in F : IsFiniteSet(s)
    BY <1>1
  <2> HIDE DEF F
  <2>2. QED BY <2>1, SmallestMember
<1>3. m \in SUBSET S /\ (\A g : ~Sums(g, w, m))
  BY <1>2
<1>4. ASSUME NEW s \in SUBSET m, s # m
      PROVE  (\E g : Sums(g, w, s)) /\ s \in SUBSET S /\ IsFiniteSet(s)
  <2>1. PICK x \in m : s \in SUBSET (m \ {x})
    BY <1>4
  <2>2. PICK g : Sums(g, w, m \ {x})
    BY <1>2, <1>3
  <2>3. Sums([t \in SUBSET s |-> g[t]], w, s)
    <3> DEFINE h == [t \in SUBSET s |-> g[t]]
    <3>1. ASSUME NEW t \in SUBSET s
          PROVE  h[t] = IF t = {} THEN 0 ELSE w[Chosen(t)] + h[t \ {Chosen(t)}]
      <4>1. t \in SUBSET (m \ {x}) /\ t \ {Chosen(t)} \in SUBSET s
        BY <2>1
      <4>2. g[t] = IF t = {} THEN 0 ELSE w[Chosen(t)] + g[t \ {Chosen(t)}]
        BY <2>2, <4>1 DEF Sums
      <4>3. QED BY <4>1, <4>2
    <3>2. h = [t \in SUBSET s |-> IF t = {} THEN 0 ELSE w[Chosen(t)] + h[t \ {Chosen(t)}]]
      BY <3>1
    <3>3. QED BY <3>2 DEF Sums
  <2>4. QED BY <1>1, <1>3, <2>3
<1>5. ASSUME NEW s \in SUBSET m, s # m
      PROVE  Total(w, s) = IF s = {} THEN 0 ELSE w[Chosen(s)] + Total(w, s \ {Chosen(s)})
  <2>1. PICK g : Sums(g, w, s)
    BY <1>4, <1>5
  <2>2. g[s] = IF s = {} THEN 0 ELSE w[Chosen(s)] + g[s \ {Chosen(s)}]
    BY <2>1 DEF Sums
  <2>3. IsFiniteSet(s) /\ Total(w, s) = g[s]
    BY <1>4, <1>5, <2>1, TotalOfSums
  <2>4. CASE s = {}
    BY <2>2, <2>3, <2>4
  <2>5. CASE s # {}
    <3>1. s \ {Chosen(s)} \in SUBSET m /\ s \ {Chosen(s)} # m /\ s \ {Chosen(s)} \in SUBSET s
      BY <2>5, ChosenIsIn
    <3>2. \E h : Sums(h, w, s \ {Chosen(s)})
      BY <1>4, <3>1
    <3>3. Total(w, s \ {Chosen(s)}) = g[s \ {Chosen(s)}]
      BY <2>1, <2>3, <3>1, <3>2, TotalOfSums
    <3>4. QED BY <2>2, <2>3, <2>5, <3>3
  <2>6. QED BY <2>4, <2>5
<1> DEFINE Value(s) == IF s = {} THEN 0 ELSE w[Chosen(s)] + Total(w, s \ {Chosen(s)})
<1> DEFINE g == [s \in SUBSET m |-> Value(s)]
<1>6. ASSUME NEW s \in SUBSET m
      PROVE  g[s] = IF s = {} THEN 0 ELSE w[Chosen(s)] + g[s \ {Chosen(s)}]
  <2>1. CASE s = {}
    BY <2>1
  <2>2. CASE s # {}
    <3>1. s \ {Chosen(s)} \in SUBSET m /\ s \ {Chosen(s)} # m
      BY <2>2, ChosenIsIn
    <3>2. Total(w, s \ {Chosen(s)}) = Value(s \ {Chosen(s)})
      BY <1>5, <3>1
    <3>3. g[s \ {Chosen(s)}] = Total(w, s \ {Chosen(s)})
      BY <3>1, <3>2
    <3>4. QED BY <2>2, <3>3
  <2>3. QED BY <2>1, <2>2
<1>7. g = [s \in SUBSET m |-> IF s = {} THEN 0 ELSE w[Chosen(s)] + g[s \ {Chosen(s)}]]
  BY <1>6
<1>8. Sums(g, w, m)
  BY <1>7 DEF Sums
<1>9. QED BY <1>3, <1>8

LEMMA TotalIs ==
  ASSUME NEW S, NEW w, IsFiniteSet(S)
  PROVE  Total(w, S) = IF S = {} THEN 0 ELSE w[Chosen(S)] + Total(w, S \ {Chosen(S)})
<1>1. PICK g : Sums(g, w, S)
  BY SumsExist
<1>2. Total(w, S) = g[S]
  BY <1>1, TotalOfSums
<1>3. g[S] = IF S = {} THEN 0 ELSE w[Chosen(S)] + g[S \ {Chosen(S)}]
  BY <1>1 DEF Sums
<1>4. Total(w, S \ {Chosen(S)}) = g[S \ {Chosen(S)}]
  <2>1. IsFiniteSet(S \ {Chosen(S)}) /\ S \ {Chosen(S)} \in SUBSET S
    BY FS_RemoveElement
  <2>2. \E h : Sums(h, w, S \ {Chosen(S)})
    BY <2>1, SumsExist
  <2>3. QED BY <1>1, <2>1, <2>2, TotalOfSums
<1>5. QED BY <1>2, <1>3, <1>4

LEMMA TotalSame ==
  ASSUME NEW S, NEW v, NEW w, IsFiniteSet(S), \A x \in S : v[x] = w[x]
  PROVE  Total(v, S) = Total(w, S)
<1>1. PICK g, h : Sums(g, v, S) /\ Sums(h, w, S)
  BY SumsExist
<1>2. Total(v, S) = g[S] /\ Total(w, S) = h[S]
  BY <1>1, TotalOfSums
<1>3. QED BY <1>1, <1>2, SumsAgree

LEMMA TotalIsInt ==
  ASSUME NEW S, NEW w, IsFiniteSet(S), \A x \in S : w[x] \in Int
  PROVE  Total(w, S) \in Int
<1> DEFINE F == {s \in SUBSET S : Total(w, s) \notin Int}
<1> SUFFICES ASSUME F # {} PROVE FALSE
  OBVIOUS
<1>1. \A s \in F : IsFiniteSet(s)
  BY FS_Subset
<1>2. PICK s \in F : \A x \in s : s \ {x} \notin F
  <2> HIDE DEF F
  <2>1. QED BY <1>1, SmallestMember
<1>3. Total(w, s) = IF s = {} THEN 0 ELSE w[Chosen(s)] + Total(w, s \ {Chosen(s)})
  BY <1>1, <1>2, TotalIs
<1>4. CASE s = {}
  BY <1>2, <1>3, <1>4
<1>5. CASE s # {}
  <2>1. Chosen(s) \in s
    BY <1>5, ChosenIsIn
  <2>2. w[Chosen(s)] \in Int /\ Total(w, s \ {Chosen(s)}) \in Int
    BY <1>2, <2>1
  <2>3. Total(w, s) \in Int
    BY <1>3, <1>5, <2>2
  <2>4. QED BY <1>2, <2>3
<1>6. QED BY <1>4, <1>5

\* One element more adds its weight, in whatever order the sum is taken.
LEMMA TotalAdds ==
  ASSUME NEW U, NEW w, IsFiniteSet(U), \A x \in U : w[x] \in Int
  PROVE  \A s \in SUBSET U, x \in U : x \notin s => Total(w, s \cup {x}) = w[x] + Total(w, s)
<1> DEFINE Adds(s, x) == Total(w, s \cup {x}) = w[x] + Total(w, s)
<1> DEFINE F == {s \in SUBSET U : \E x \in U : x \notin s /\ ~Adds(s, x)}
<1> SUFFICES ASSUME F # {} PROVE FALSE
  OBVIOUS
<1>1. \A s \in SUBSET U : IsFiniteSet(s) /\ Total(w, s) \in Int
  BY FS_Subset, TotalIsInt
<1>2. PICK s \in F : \A x \in s : s \ {x} \notin F
  <2>1. \A t \in F : IsFiniteSet(t)
    BY <1>1
  <2> HIDE DEF F
  <2>2. QED BY <2>1, SmallestMember
<1>3. PICK x \in U : x \notin s /\ ~Adds(s, x)
  BY <1>2
<1> DEFINE c == Chosen(s \cup {x})
<1>4. s \in SUBSET U /\ s \cup {x} \in SUBSET U /\ c \in s \cup {x}
  BY <1>2, ChosenIsIn
<1>5. Total(w, s \cup {x}) = w[c] + Total(w, (s \cup {x}) \ {c})
  BY <1>1, <1>4, TotalIs
<1>6. CASE c = x
  <2>1. (s \cup {x}) \ {c} = s
    BY <1>3, <1>6
  <2>2. QED BY <1>3, <1>5, <1>6, <2>1
<1>7. CASE c # x
  <2>1. c \in s /\ (s \cup {x}) \ {c} = (s \ {c}) \cup {x} /\ (s \ {c}) \cup {c} = s
    BY <1>4, <1>7
  <2>2. s \ {c} \in SUBSET U /\ s \ {c} \notin F /\ x \notin s \ {c} /\ c \notin s \ {c} /\ c \in U
    BY <1>2, <1>3, <1>4, <2>1
  <2> HIDE DEF c
  <2>3. Adds(s \ {c}, x) /\ Adds(s \ {c}, c)
    BY <2>2
  <2>4. /\ Total(w, (s \ {c}) \cup {x}) = w[x] + Total(w, s \ {c})
        /\ Total(w, s) = w[c] + Total(w, s \ {c})
    BY <2>1, <2>3
  <2>5. w[c] \in Int /\ w[x] \in Int /\ Total(w, s \ {c}) \in Int
    BY <1>1, <2>2
  <2>6. PICK i \in Int, j \in Int, k \in Int : i = w[c] /\ j = w[x] /\ k = Total(w, s \ {c})
    BY <2>5
  <2>7. Total(w, s \cup {x}) = i + (j + k) /\ Total(w, s) = i + k
    BY <1>5, <2>1, <2>4, <2>6
  <2>8. Total(w, s \cup {x}) = j + Total(w, s)
    BY <2>7
  <2>9. QED BY <1>3, <2>6, <2>8
<1>8. QED BY <1>6, <1>7

-----------------------------------------------------------------------------
(* What is reserved. *)

Weights == [o \in Ids |-> Reservation(o)]
ReservedInv == reserved = Total(Weights, resting)

LEMMA RestingWeights ==
  ASSUME TypeOK
  PROVE  /\ resting \subseteq Ids /\ IsFiniteSet(resting)
         /\ \A o \in resting : Weights[o] = Reservation(o) /\ Weights[o] \in Int
<1>1. resting \subseteq Placed /\ resting \subseteq Ids /\ IsFiniteSet(resting)
  BY IdsAreFinite, FS_Subset DEF TypeOK, Placed
<1>2. \A o \in resting : Weights[o] = Reservation(o) /\ Weights[o] \in Int
  BY <1>1, PlacedOrder DEF Weights
<1>3. QED BY <1>1, <1>2

\* The sum the property takes is Total.
LEMMA SumIsTotal ==
  ASSUME TypeOK
  PROVE  MapThenSumSet(Reservation, resting) = Total(Weights, resting)
<1> DEFINE Fits(g) == g = [s \in SUBSET resting |->
                             IF s = {} THEN 0 ELSE Reservation(Chosen(s)) + g[s \ {Chosen(s)}]]
<1>1. \A g : Sums(g, Weights, resting) <=> Fits(g)
  <2>1. \A s \in SUBSET resting : s # {} => Weights[Chosen(s)] = Reservation(Chosen(s))
    BY ChosenIsIn, RestingWeights
  <2>2. ASSUME NEW g
        PROVE  [s \in SUBSET resting |-> IF s = {} THEN 0 ELSE Weights[Chosen(s)] + g[s \ {Chosen(s)}]]
                 = [s \in SUBSET resting |-> IF s = {} THEN 0 ELSE Reservation(Chosen(s)) + g[s \ {Chosen(s)}]]
    BY <2>1
  <2>3. QED BY <2>2 DEF Sums
<1>2. MapThenSumSet(Reservation, resting) = (CHOOSE g : Fits(g))[resting]
  BY DEF MapThenSumSet, MapThenFoldSet, Chosen
<1>3. \E g : Fits(g)
  BY <1>1, RestingWeights, SumsExist
<1> HIDE DEF Fits
<1>4. PICK g : g = CHOOSE h : Fits(h)
  OBVIOUS
<1>5. Fits(g)
  BY <1>3, <1>4
<1>6. Sums(g, Weights, resting)
  BY <1>1, <1>5
<1>7. Total(Weights, resting) = g[resting]
  BY <1>6, RestingWeights, TotalOfSums
<1>8. QED BY <1>2, <1>4, <1>7

LEMMA ReservedStep == SimInv /\ ReservedInv /\ [Next]_vars => ReservedInv'
<1> SUFFICES ASSUME SimInv, ReservedInv, [Next]_vars PROVE ReservedInv'
  OBVIOUS
<1>0. /\ TypeOK /\ reserved = Total(Weights, resting)
      /\ resting \subseteq Ids /\ IsFiniteSet(resting) /\ \A o \in resting : Weights[o] \in Int
      /\ Total(Weights, resting) \in Int
  <2>1. resting \subseteq Ids /\ IsFiniteSet(resting) /\ \A o \in resting : Weights[o] \in Int
    BY RestingWeights DEF SimInv
  <2>2. QED BY <2>1, TotalIsInt DEF SimInv, ReservedInv
<1>1. orders' = orders => Weights' = Weights
  BY DEF Weights, Reservation
<1>2. CASE PlaceOrder
  <2> DEFINE c == counter'
  <2>1. PICK i \in Intents :
          /\ orders' = [orders EXCEPT ![c] = [intent |-> i, at |-> now]]
          /\ reserved' = reserved + i.limit * i.shares
    BY <1>2 DEF PlaceOrder, Reserve
  <2>2. resting' = resting \cup {c} /\ c = counter + 1
    BY <1>2 DEF PlaceOrder
  <2>3. c \in Ids /\ c \notin resting
    <3>1. counter \in 0..(MaxIds + MaxRedeems) /\ counter - Cardinality(Placed) <= MaxRedeems
          /\ Placed \subseteq 1..counter /\ resting \subseteq Placed
      BY DEF SimInv, TypeOK, CounterInv
    <3>2. c <= MaxIds + MaxRedeems
      BY <1>2, <2>2, <3>1, IdsAreFinite, SimClientAssumption DEF PlaceOrder
    <3>3. QED BY <2>2, <3>1, <3>2, SimClientAssumption DEF Ids
  <2> HIDE DEF c
  <2> DEFINE amount == i.limit * i.shares
  <2>4. amount \in Int
    BY SimClientAssumption
  <2>5. Weights'[c] = amount /\ \A o \in resting : Weights'[o] = Weights[o]
    <3>1. orders'[c].intent = i /\ \A o \in resting : orders'[o] = orders[o]
      BY <1>0, <2>1, <2>3 DEF TypeOK
    <3>2. QED BY <1>0, <2>3, <3>1 DEF Weights, Reservation
  <2> HIDE DEF amount
  <2>6. Total(Weights', resting) = Total(Weights, resting)
    BY <1>0, <2>5, TotalSame
  <2>7. Total(Weights', resting \cup {c}) = Weights'[c] + Total(Weights', resting)
    <3>1. IsFiniteSet(resting \cup {c}) /\ \A o \in resting \cup {c} : Weights'[o] \in Int
      BY <1>0, <2>4, <2>5, FS_AddElement
    <3>2. resting \in SUBSET (resting \cup {c}) /\ c \in resting \cup {c}
      OBVIOUS
    <3>3. QED BY <2>3, <3>1, <3>2, TotalAdds
  <2>8. reserved' = Total(Weights', resting')
    BY <1>0, <2>1, <2>2, <2>4, <2>5, <2>6, <2>7 DEF amount
  <2>9. QED BY <2>8 DEF ReservedInv
<1>3. ASSUME NEW o \in resting, resting' = resting \ {o}, Release(Reservation(o)), orders' = orders
      PROVE  ReservedInv'
  <2>1. Reservation(o) = Weights[o] /\ Weights[o] \in Int
    BY <1>0, RestingWeights
  <2>2. Total(Weights, resting) = Weights[o] + Total(Weights, resting \ {o})
    <3>1. resting \ {o} \in SUBSET resting /\ o \notin resting \ {o} /\ (resting \ {o}) \cup {o} = resting
      OBVIOUS
    <3>2. QED BY <1>0, <3>1, TotalAdds
  <2>3. Total(Weights, resting \ {o}) \in Int
    <3>1. IsFiniteSet(resting \ {o})
      BY <1>0, FS_RemoveElement
    <3>2. QED BY <1>0, <3>1, TotalIsInt
  <2>4. reserved' = Total(Weights, resting \ {o})
    BY <1>0, <1>3, <2>1, <2>2, <2>3 DEF Release
  <2>5. QED BY <1>1, <1>3, <2>4 DEF ReservedInv
<1>4. ASSUME NEW o \in Ids, CancelOrder(o) PROVE ReservedInv'
  BY <1>3, <1>4 DEF CancelOrder
<1>5. ASSUME NEW o \in Ids, Fill(o), orders' = orders PROVE ReservedInv'
  BY <1>3, <1>5 DEF Fill
<1>6. ASSUME UNCHANGED <<orders, resting, reserved>> PROVE ReservedInv'
  BY <1>0, <1>1, <1>6 DEF ReservedInv
<1>7. ASSUME NEW o \in Ids, StatusOf(o) PROVE ReservedInv'
  BY <1>5, <1>6, <1>7 DEF StatusOf, StatusUnknown, StatusTooEarly, StatusAlwaysFill, LookUp, clientVars
<1>8. ASSUME PollGoesOn PROVE ReservedInv'
  <2>1. FillCrossed => Fill(poll.id) /\ poll.id \in Ids /\ orders' = orders
    BY <1>0 DEF FillCrossed, EndPoll, Fill
  <2>2. QED BY <1>5, <1>6, <1>8, <2>1 DEF PollGoesOn, ReadPrice, NotCrossed, FillMissing, EndPoll, clientVars
<1>9. QED
  BY <1>2, <1>4, <1>6, <1>7, <1>8
  DEF Next, Rest, vars, clientVars, CacheChanges, Tick, Redeem

\* What is reserved is the sum of what the resting orders may cost, however placing,
\* cancelling and the two halves of a poll fall between each other
\* (sim_market_client.rs 56-64, 123-127, 186-215, 240-248).
THEOREM ReservationsAreRestingOrders == Spec => []ReservationsAddUp
<1>1. Init => ReservedInv
  <2>1. Total(Weights, {}) = 0
    BY TotalIs, FS_EmptySet
  <2>2. QED BY <2>1 DEF Init, ReservedInv
<1>2. SimInv /\ ReservedInv => ReservationsAddUp
  BY SumIsTotal DEF SimInv, ReservedInv, ReservationsAddUp
<1>3. QED BY <1>1, <1>2, ReservedStep, Invariance, PTL DEF Spec
=============================================================================
