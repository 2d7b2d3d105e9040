------------------------ MODULE DecisionCenterProofs ------------------------
(***************************************************************************)
(* Theorems about DecisionCenter, for any prices, asks, bankrolls, market  *)
(* tick and bounds: types and the intent channel's capacity, V1's side     *)
(* against settlement's, the limit of an order against its ask, what the   *)
(* strategies remember of the ticks, what they do not enter on, and that   *)
(* they treat Up and Down alike.                                           *)
(***************************************************************************)
EXTENDS DecisionCenter, MarketWatchProofs, FiniteSetTheorems, SequenceTheorems,
        WellFoundedInduction

-----------------------------------------------------------------------------
(* Division and rounding. *)

LEMMA Division ==
  ASSUME NEW x \in Nat, NEW y \in Nat \ {0}
  PROVE  x \div y \in Nat /\ x % y \in 0..(y - 1) /\ x = y * (x \div y) + (x % y)
OBVIOUS

\* Rounding moves an amount by half a unit at most, and not past a bound on the grid.
LEMMA RoundedNear ==
  ASSUME NEW x \in Nat, NEW y \in Nat \ {0}
  PROVE  /\ Rounded(x, y) \in Nat
         /\ 2 * x <= 2 * (Rounded(x, y) * y) + y
         /\ \A k \in Nat : x <= k * y => Rounded(x, y) * y <= k * y
<1> DEFINE q == x \div y
<1> DEFINE r == x % y
<1>1. q \in Nat /\ r \in 0..(y - 1) /\ x = y * q + r
  BY Division
<1>2. \/ Rounded(x, y) = q /\ 2 * r <= y
      \/ Rounded(x, y) = q + 1 /\ r > 0
  <2>1. CASE 2 * r > y \/ (2 * r = y /\ q % 2 = 1)
    <3>1. Rounded(x, y) = q + 1
      BY <2>1 DEF Rounded
    <3> HIDE DEF q, r
    <3>2. r > 0
      BY <1>1, <2>1
    <3>3. QED BY <3>1, <3>2
  <2>2. CASE ~(2 * r > y \/ (2 * r = y /\ q % 2 = 1))
    <3>1. Rounded(x, y) = q
      BY <2>2 DEF Rounded
    <3> HIDE DEF q, r
    <3>2. 2 * r <= y
      BY <1>1, <2>2
    <3>3. QED BY <3>1, <3>2
  <2>3. QED BY <2>1, <2>2
<1> HIDE DEF q, r
<1>3. CASE Rounded(x, y) = q /\ 2 * r <= y
  <2>1. 2 * x <= 2 * (q * y) + y
    <3>1. x = q * y + r BY <1>1
    <3>2. q * y \in Nat BY <1>1
    <3>3. QED BY <1>1, <1>3, <3>1, <3>2
  <2>2. ASSUME NEW k \in Nat, x <= k * y PROVE q * y <= k * y
    <3>1. q * y <= x BY <1>1
    <3>2. q * y \in Nat /\ k * y \in Nat BY <1>1
    <3>3. QED BY <2>2, <3>1, <3>2
  <2>3. QED BY <1>1, <1>3, <2>1, <2>2
<1>4. CASE Rounded(x, y) = q + 1 /\ r > 0
  <2>1. (q + 1) * y = q * y + y /\ q * y \in Nat
    BY <1>1
  <2>2. 2 * x <= 2 * ((q + 1) * y) + y
    <3>1. x = q * y + r BY <1>1
    <3>2. QED BY <1>1, <2>1, <3>1
  <2>3. ASSUME NEW k \in Nat, x <= k * y PROVE (q + 1) * y <= k * y
    <3>1. q * y + r <= k * y BY <1>1, <2>3
    <3>2. q + 1 <= k BY <1>1, <1>4, <3>1
    <3>3. q + 1 \in Nat BY <1>1
    <3>4. QED BY <3>2, <3>3
  <2>4. QED BY <1>1, <1>4, <2>2, <2>3
<1>5. QED BY <1>2, <1>3, <1>4

\* A limit is a price.
LEMMA LimitIsNat ==
  ASSUME NEW ask \in 1..One
  PROVE  Limit(ask) \in Nat
<1> DEFINE buffered == Smaller(ask + TickSize, One - TickSize)
<1>1. buffered \in Nat /\ TickSize \in Nat
  BY DecisionAssumption DEF Smaller, One
<1> HIDE DEF buffered
<1>2. CASE TickSize = 0
  BY <1>1, <1>2 DEF Limit, buffered
<1>3. CASE TickSize # 0
  <2>1. Rounded(buffered, TickSize) \in Nat
    BY <1>1, <1>3, RoundedNear
  <2>2. Rounded(buffered, TickSize) * TickSize \in Nat
    BY <1>1, <2>1
  <2>3. QED BY <1>3, <2>2 DEF Limit, buffered
<1>4. QED BY <1>2, <1>3

\* Where the market's tick divides one and is at most 5 cents, an ask below 95 cents gets
\* a limit at the ask or above, on the grid, a tick below one at most.
LEMMA LimitCovers ==
  ASSUME TickSize \in 1..50, NEW k \in Nat, One - TickSize = k * TickSize,
         NEW ask \in 1..One, ask < 950
  PROVE  ask <= Limit(ask) /\ Limit(ask) <= One - TickSize /\ Limit(ask) % TickSize = 0
<1> DEFINE buffered == Smaller(ask + TickSize, One - TickSize)
<1> DEFINE n == Rounded(buffered, TickSize)
<1>1. /\ buffered \in Nat /\ TickSize \in Nat \ {0}
      /\ buffered = ask + TickSize \/ buffered = One - TickSize
      /\ buffered <= One - TickSize
  BY DEF Smaller, One
<1> HIDE DEF buffered
<1>2. /\ n \in Nat /\ 2 * buffered <= 2 * (n * TickSize) + TickSize /\ n * TickSize <= k * TickSize
  BY <1>1, RoundedNear
<1>3. Limit(ask) = n * TickSize
  BY <1>1 DEF Limit, buffered
<1> HIDE DEF n
<1>4. n * TickSize \in Nat
  BY <1>1, <1>2
<1>5. n * TickSize <= One - TickSize
  BY <1>2
<1>6. ask <= n * TickSize
  <2>1. CASE buffered = ask + TickSize
    BY <1>1, <1>2, <1>4, <2>1
  <2>2. CASE buffered = One - TickSize
    <3>1. k * TickSize <= n * TickSize
      <4>1. n < k => n * TickSize + TickSize <= k * TickSize
        <5>1. SUFFICES ASSUME n < k PROVE n * TickSize + TickSize <= k * TickSize
          OBVIOUS
        <5>2. n + 1 <= k BY <1>2, <5>1
        <5>3. (n + 1) * TickSize <= k * TickSize BY <1>1, <1>2, <5>2
        <5>4. QED BY <1>1, <1>2, <5>3
      <4>2. ~(n < k)
        BY <1>1, <1>2, <1>4, <2>2, <4>1 DEF One
      <4>3. QED BY <1>1, <1>2, <4>2
    <3>2. QED BY <1>4, <3>1 DEF One
  <2>3. QED BY <1>1, <2>1, <2>2
<1>7. (n * TickSize) % TickSize = 0
  BY <1>1, <1>2
<1>8. QED BY <1>3, <1>5, <1>6, <1>7

-----------------------------------------------------------------------------
(* Types. *)

Entries == [outcome : Outcomes, price : Prices, ask : Asks \cup {0}, bankroll : Bankrolls \cup {0}]

\* An entry is not Idle, which has no outcome; and no ask is 0.
LEMMA EntryIsNotIdle ==
  /\ \A e \in Entries : e # Idle
  /\ 0 \notin Asks
<1>1. \A e \in Entries : e.outcome \in Outcomes
  BY DEF Entries
<1>2. Idle.outcome \notin Outcomes
  BY DEF Idle, Outcomes
<1>3. QED BY <1>1, <1>2, DecisionAssumption

\* Whatever the strategy decides, other than to hold, is an outcome.
LEMMA DecisionsAreOutcomes ==
  ASSUME NEW name \in Names, NEW mem, NEW tick, NEW k, NEW secs,
         NEW d \in Decisions(name, mem, tick, k, secs), d # "Hold"
  PROVE  d \in Outcomes
<1>1. \A x : Side(x) \in Outcomes
  BY DEF Side, Outcomes
<1>2. CASE name = "composite"
  BY <1>1, <1>2 DEF Decisions, CompositeDecision
<1>3. CASE name = "quant"
  BY <1>1, <1>3 DEF Decisions, QuantDecisions
<1>4. CASE name = "v1"
  BY <1>1, <1>4 DEF Decisions, V1Decision
<1>5. QED BY <1>2, <1>3, <1>4 DEF Names

\* An intent is well formed, whatever size the bankroll gives it.
LEMMA IntentIsTyped ==
  ASSUME NEW o \in Outcomes, NEW bankroll \in Nat, NEW ask \in Asks
  PROVE  [outcome |-> o, shares |-> Larger(Size(bankroll, ask), MinSize), limit |-> Limit(ask)] \in IntentSet
<1>1. ask \in 1..One /\ ask \in Nat \ {0} /\ MinSize \in Nat /\ Percent \in Nat
  BY DecisionAssumption, StrategiesAssumption DEF One
<1>2. bankroll * Percent \in Nat
  BY <1>1
<1>3. (bankroll * Percent) \div ask \in Nat
  BY <1>1, <1>2, Division
<1>4. Size(bankroll, ask) \in Nat
  BY <1>1, <1>3 DEF Size
<1>5. Larger(Size(bankroll, ask), MinSize) \in Nat
  BY <1>1, <1>4 DEF Larger
<1>6. QED BY <1>1, <1>5, LimitIsNat DEF IntentSet

LEMMA TickTaken ==
  ASSUME TypeOK, NEW t \in clock..(clock + Interval), Take(t)
  PROVE  clock' \in Nat /\ taken' \in 0..MaxTicks /\ t \in Nat
BY DecisionAssumption DEF TypeOK, Take

LEMMA TypeStep == TypeOK /\ [Next]_vars => TypeOK'
<1> SUFFICES ASSUME TypeOK, [Next]_vars PROVE TypeOK'
  OBVIOUS
<1>0. /\ MarketTypeOK /\ strategy \in Names /\ strike \in {None, Strike} /\ slot \in {"Empty", "Claimed"}
      /\ clock \in Nat /\ taken \in 0..MaxTicks /\ (entering = Idle \/ entering \in Entries)
      /\ intents \in Seq(IntentSet) /\ Len(intents) <= IntentCap /\ seen \in Seq(Ticks)
  BY DEF TypeOK, Entries
<1>1. CASE PublishMarket \/ PrefetchFails
  <2>1. MarketTypeOK'
    BY <1>0, <1>1, PublishTypes, SkipTypes DEF PublishMarket, PrefetchFails
  <2>2. /\ strike' \in {None, Strike}
        /\ UNCHANGED <<slot, strategy, clock, taken, memory, entering, seen, intents>>
    BY <1>0, <1>1 DEF PublishMarket, PrefetchFails, tickVars, taskVars
  <2>3. QED BY <2>1, <2>2 DEF TypeOK
<1>2. CASE ResetSlot \/ ExecutorTakes
  <2>1. /\ slot' \in {"Empty", "Claimed"} /\ intents' \in Seq(IntentSet) /\ Len(intents') <= IntentCap
        /\ UNCHANGED <<market, round, phase, strike, strategy, clock, taken, memory, entering, seen>>
    <3>1. CASE ResetSlot
      BY <1>0, <3>1 DEF ResetSlot, rotationVars, tickVars, taskVars
    <3>2. CASE ExecutorTakes
      <4>1. /\ intents # << >> /\ intents' = Tail(intents) /\ slot' \in {slot, "Claimed"}
            /\ UNCHANGED <<market, round, phase, strike, strategy, clock, taken, memory, entering, seen>>
        BY <3>2 DEF ExecutorTakes, rotationVars, tickVars, taskVars
      <4>2. Tail(intents) \in Seq(IntentSet) /\ Len(Tail(intents)) <= IntentCap
        BY <1>0, <4>1, DecisionAssumption
      <4>3. QED BY <1>0, <4>1, <4>2
    <3>3. QED BY <1>2, <3>1, <3>2
  <2>2. MarketTypeOK'
    BY <1>0, <2>1 DEF MarketTypeOK
  <2>3. QED BY <2>1, <2>2 DEF TypeOK
<1>3. ASSUME envVars' = envVars, clock' \in Nat, taken' \in 0..MaxTicks,
             entering' = Idle \/ entering' \in Entries,
             intents' \in Seq(IntentSet), Len(intents') <= IntentCap, seen' \in Seq(Ticks)
      PROVE  TypeOK'
  <2>1. UNCHANGED <<market, round, phase, strike, slot, strategy>>
    BY <1>3 DEF envVars, rotationVars
  <2>2. MarketTypeOK'
    BY <1>0, <2>1 DEF MarketTypeOK
  <2>3. QED BY <1>0, <1>3, <2>1, <2>2 DEF TypeOK, Entries
<1>4. CASE PassOver
  <2>1. clock' \in Nat /\ taken' \in 0..MaxTicks
    BY <1>4, TickTaken DEF PassOver
  <2>2. QED BY <1>0, <1>3, <1>4, <2>1 DEF PassOver, taskVars
<1>5. CASE Evaluate
  <2>0. PICK price \in Prices, t \in clock..(clock + Interval) :
          /\ Take(t)
          /\ \/ seen' = seen
             \/ seen' = Append(seen, [price |-> price, at |-> t])
          /\ \E decision \in Decisions(strategy, memory', [price |-> price, at |-> t], strike,
                                       Secs([price |-> price, at |-> t])) :
               entering' = IF decision = "Hold" THEN Idle
                           ELSE [Idle EXCEPT !.outcome = decision, !.price = price]
    BY <1>5 DEF Evaluate
  <2>1. PICK decision \in Decisions(strategy, memory', [price |-> price, at |-> t], strike,
                                    Secs([price |-> price, at |-> t])) :
          entering' = IF decision = "Hold" THEN Idle ELSE [Idle EXCEPT !.outcome = decision, !.price = price]
    BY <2>0
  <2>2. clock' \in Nat /\ taken' \in 0..MaxTicks /\ t \in Nat
    BY <2>0, TickTaken
  <2>3. seen' \in Seq(Ticks)
    <3>1. [price |-> price, at |-> t] \in Ticks
      BY <2>2 DEF Ticks
    <3>2. QED BY <1>0, <2>0, <3>1
  <2>4. entering' = Idle \/ entering' \in Entries
    <3>1. CASE decision # "Hold"
      <4>1. decision \in Outcomes
        BY <1>0, <3>1, DecisionsAreOutcomes
      <4>2. QED BY <2>1, <3>1, <4>1 DEF Idle, Entries
    <3>2. QED BY <2>1, <3>1
  <2>5. envVars' = envVars /\ intents' = intents
    BY <1>5 DEF Evaluate
  <2>6. QED BY <1>0, <1>3, <2>2, <2>3, <2>4, <2>5
<1>6. CASE HoldAtAsk
  BY <1>0, <1>3, <1>6 DEF HoldAtAsk, tickVars
<1>7. CASE Quote
  <2>1. PICK ask \in Asks, bankroll \in Bankrolls :
          entering' = [entering EXCEPT !.ask = ask, !.bankroll = bankroll]
    BY <1>7 DEF Quote
  <2>2. entering' \in Entries
    BY <1>0, <1>7, <2>1 DEF Quote, Entries
  <2>3. QED BY <1>0, <1>3, <1>7, <2>2 DEF Quote, tickVars
<1>8. CASE SendIntent
  <2> DEFINE shares == Size(entering.bankroll, entering.ask)
  <2> DEFINE intent == [outcome |-> entering.outcome, shares |-> Larger(shares, MinSize),
                        limit |-> Limit(entering.ask)]
  <2>1. /\ entering \in Entries /\ entering.ask \in Asks
        /\ entering.bankroll \in Nat /\ entering.outcome \in Outcomes
    <3>1. entering # Idle /\ entering.ask # 0
      BY <1>8 DEF SendIntent, Idle
    <3>2. entering \in Entries
      BY <1>0, <3>1
    <3>3. /\ entering.ask \in Asks \cup {0} /\ entering.bankroll \in Bankrolls \cup {0}
          /\ entering.outcome \in Outcomes
      BY <3>2 DEF Entries
    <3>4. entering.bankroll \in Nat
      <4>1. entering.bankroll \in Bankrolls \/ entering.bankroll = 0
        BY <3>3
      <4>2. \A b \in Bankrolls : b \in Nat
        BY DecisionAssumption
      <4>3. CASE entering.bankroll \in Bankrolls
        BY <4>2, <4>3
      <4>4. CASE entering.bankroll = 0
        BY <4>4
      <4>5. QED BY <4>1, <4>3, <4>4
    <3>5. QED BY <3>1, <3>2, <3>3, <3>4
  <2>2. intent \in IntentSet
    BY <2>1, IntentIsTyped
  <2>3. /\ entering' = Idle /\ UNCHANGED <<envVars, clock, taken, seen>>
        /\ intents' = intents \/ (Len(intents) # IntentCap /\ intents' = Append(intents, intent))
    BY <1>8 DEF SendIntent, TrySend, tickVars
  <2> HIDE DEF intent
  <2>4. intents' \in Seq(IntentSet) /\ Len(intents') <= IntentCap
    BY <1>0, <2>2, <2>3, DecisionAssumption
  <2>5. QED BY <1>0, <1>3, <2>3, <2>4
<1>9. CASE UNCHANGED vars
  BY <1>0, <1>3, <1>9 DEF vars, tickVars, taskVars
<1>10. QED BY <1>1, <1>2, <1>4, <1>5, <1>6, <1>7, <1>8, <1>9 DEF Next, DecisionTask

\* The intent channel never holds more than its capacity, and every intent is well formed,
\* whatever the strategy decides and the bankroll is (decision_center.rs 27-162).
THEOREM TypeCorrect == Spec => []TypeOK
<1>1. Init => TypeOK
  <2>1. Init => MarketTypeOK
    BY InitTypes DEF Init
  <2>2. QED BY <2>1, DecisionAssumption DEF Init, TypeOK
<1>2. QED BY <1>1, TypeStep, PTL DEF Spec

-----------------------------------------------------------------------------
(* V1 and the winner settlement falls back to. *)

\* An entry of V1 keeps its outcome and price while ask and bankroll are read.
LEMMA MirrorStep == TypeOK /\ V1MirrorsSettlement /\ [Next]_vars => V1MirrorsSettlement'
<1> SUFFICES ASSUME TypeOK, V1MirrorsSettlement, [Next]_vars, strategy' = "v1", entering' # Idle
             PROVE  entering'.outcome = Winner(entering'.price)
  BY DEF V1MirrorsSettlement, Winner
<1>1. strategy = "v1" /\ strategy \in Names
  BY DEF Next, DecisionTask, PublishMarket, PrefetchFails, ResetSlot, ExecutorTakes, PassOver, Evaluate, HoldAtAsk,
         Quote, SendIntent, vars, envVars, TypeOK
<1>2. CASE Evaluate
  <2>0. PICK price \in Prices, t \in clock..(clock + Interval) :
          \E decision \in Decisions(strategy, memory', [price |-> price, at |-> t], strike, Secs([price |-> price, at |-> t])) :
            entering' = IF decision = "Hold" THEN Idle ELSE [Idle EXCEPT !.outcome = decision, !.price = price]
    BY <1>2 DEF Evaluate
  <2>1. PICK decision \in Decisions(strategy, memory', [price |-> price, at |-> t], strike,
                                    Secs([price |-> price, at |-> t])) :
          entering' = IF decision = "Hold" THEN Idle ELSE [Idle EXCEPT !.outcome = decision, !.price = price]
    BY <2>0
  <2>2. strike = Strike /\ Strike \in Int /\ price \in Int
    BY <1>2, DecisionAssumption DEF Evaluate, Asked, TypeOK
  <2>3. decision = V1Decision(price, Strike, Secs([price |-> price, at |-> t]))
    BY <1>1, <2>2 DEF Decisions, Usable
  <2>4. decision # "Hold" /\ entering'.outcome = decision /\ entering'.price = price
    BY <2>1 DEF Idle
  <2>5. decision = Side(price - Strike)
    BY <2>3, <2>4 DEF V1Decision
  <2>6. (price - Strike > 0) = (price > Strike)
    BY <2>2
  <2>7. QED BY <2>4, <2>5, <2>6 DEF Side, Winner
<1>3. CASE Quote
  <2>1. PICK ask \in Asks, bankroll \in Bankrolls :
          entering' = [entering EXCEPT !.ask = ask, !.bankroll = bankroll]
    BY <1>3 DEF Quote
  <2>2. entering # Idle /\ entering \in Entries
    BY <1>3 DEF Quote, TypeOK, Entries
  <2>3. entering'.outcome = entering.outcome /\ entering'.price = entering.price
    BY <2>1, <2>2 DEF Entries
  <2>4. QED BY <1>1, <2>2, <2>3 DEF V1MirrorsSettlement
<1>4. CASE entering' = entering
  BY <1>1, <1>4 DEF V1MirrorsSettlement
<1>5. QED
  BY <1>2, <1>3, <1>4
  DEF Next, DecisionTask, PublishMarket, PrefetchFails, ResetSlot, ExecutorTakes, PassOver, HoldAtAsk, SendIntent,
      vars, taskVars

\* V1 enters on the side settlement's fallback would call the winner on the same tick, for
\* every margin, 0 included, and whatever happens between the decision and the order
\* (v1_basic.rs 59-85; settlement.rs 36).
THEOREM V1Mirrors == Spec => []V1MirrorsSettlement
<1>1. Init => V1MirrorsSettlement
  BY DEF Init, V1MirrorsSettlement
<1>2. QED BY <1>1, MirrorStep, TypeCorrect, PTL DEF Spec

-----------------------------------------------------------------------------
(* The limit of an order. *)

\* The ask an order was sized for is below 95 cents for as long as it is under way.
AskInv == entering.ask # 0 => entering.ask < 950

LEMMA AskStep == TypeOK /\ AskInv /\ [Next]_vars => AskInv'
<1> SUFFICES ASSUME TypeOK, AskInv, [Next]_vars PROVE AskInv'
  OBVIOUS
<1>1. CASE Evaluate
  BY <1>1 DEF Evaluate, AskInv, Idle
<1>2. CASE HoldAtAsk \/ SendIntent
  BY <1>2 DEF HoldAtAsk, SendIntent, AskInv, Idle
<1>3. CASE Quote
  <2>1. PICK ask \in Asks, bankroll \in Bankrolls :
          ask < 950 /\ entering' = [entering EXCEPT !.ask = ask, !.bankroll = bankroll]
    BY <1>3 DEF Quote
  <2>2. entering \in Entries
    BY <1>3 DEF Quote, TypeOK, Entries
  <2>3. entering'.ask = ask
    BY <2>1, <2>2 DEF Entries
  <2>4. QED BY <2>1, <2>3 DEF AskInv
<1>4. CASE entering' = entering
  BY <1>4 DEF AskInv
<1>5. QED
  BY <1>1, <1>2, <1>3, <1>4
  DEF Next, DecisionTask, PublishMarket, PrefetchFails, ResetSlot, ExecutorTakes, PassOver, vars, taskVars

\* The price grids of the exchange: 0.01, 0.001 and the like.
TickDividesOne == TickSize \in 1..50 /\ One % TickSize = 0

\* Wherever the market's tick divides one and is at most 5 cents, an order that is sent can
\* be filled at the ask it was sized for, which may be finer than the grid, and its limit is
\* a price the exchange takes (decision_center.rs 147-156).
THEOREM LimitsCoverAsks ==
  ASSUME TickDividesOne
  PROVE  Spec => LimitCoversAsk
<1>1. TypeOK /\ AskInv /\ [Next]_vars
        => [Len(intents') > Len(intents) =>
              LET limit == intents'[Len(intents')].limit
              IN entering.ask <= limit /\ limit <= One - TickSize /\ limit % TickSize = 0]_vars
  <2> SUFFICES ASSUME TypeOK, AskInv, [Next]_vars, Len(intents') > Len(intents)
               PROVE  LET limit == intents'[Len(intents')].limit
                      IN entering.ask <= limit /\ limit <= One - TickSize /\ limit % TickSize = 0
    OBVIOUS
  <2>0. intents \in Seq(IntentSet) /\ Len(intents) \in Nat
    BY DEF TypeOK
  <2>1. intents' # intents /\ (intents # << >> => intents' # Tail(intents))
    <3>1. intents' # intents
      BY <2>0
    <3>2. ASSUME intents # << >>, intents' = Tail(intents) PROVE FALSE
      <4>1. Len(Tail(intents)) <= Len(intents) /\ Len(Tail(intents)) \in Nat
        BY <2>0, <3>2
      <4>2. QED BY <2>0, <3>2, <4>1
    <3>3. QED BY <3>1, <3>2
  <2>2. SendIntent
    BY <2>1
    DEF Next, DecisionTask, PublishMarket, PrefetchFails, ResetSlot, ExecutorTakes, PassOver, Evaluate, HoldAtAsk,
        Quote, vars
  <2> DEFINE intent == [outcome |-> entering.outcome,
                        shares |-> Larger(Size(entering.bankroll, entering.ask), MinSize),
                        limit |-> Limit(entering.ask)]
  <2>3. intents' = Append(intents, intent)
    BY <2>1, <2>2 DEF SendIntent, TrySend
  <2>4. intents'[Len(intents')] = intent
    <3> HIDE DEF intent
    <3> QED BY <2>0, <2>3
  <2>5. entering.ask \in Asks /\ entering.ask < 950
    BY <2>2 DEF SendIntent, Idle, TypeOK, AskInv
  <2>6. PICK k \in Nat : One - TickSize = k * TickSize
    <3> DEFINE q == One \div TickSize
    <3>1. q \in Nat /\ One = TickSize * q
      BY Division DEF TickDividesOne, One
    <3> HIDE DEF q
    <3>2. q \in Nat \ {0}
      BY <3>1 DEF TickDividesOne, One
    <3>3. One - TickSize = (q - 1) * TickSize /\ q - 1 \in Nat
      BY <3>1, <3>2 DEF TickDividesOne
    <3>4. QED BY <3>3
  <2>7. entering.ask \in 1..One
    BY <2>5, DecisionAssumption
  <2>8. LET limit == Limit(entering.ask)
        IN entering.ask <= limit /\ limit <= One - TickSize /\ limit % TickSize = 0
    BY <2>5, <2>6, <2>7, LimitCovers DEF TickDividesOne
  <2>9. intents'[Len(intents')].limit = Limit(entering.ask)
    BY <2>4
  <2>10. QED BY <2>8, <2>9
<1>2. Init => AskInv
  BY DEF Init, AskInv, Idle
<1>3. QED BY <1>1, <1>2, AskStep, TypeCorrect, PTL DEF Spec, LimitCoversAsk
-----------------------------------------------------------------------------
(* What the strategies remember. *)

\* memory has its two fields, whichever of them the strategy uses.
Shaped == DOMAIN memory = {"composite", "vol"}

\* The composite strategy's state when every price so far was the strike: candles without
\* a body, averages at the strike, an RSI without a change.
StillCandles == [bucket : Int, open : {Strike}, close : {Strike}]
StillEmas == {e \in [num : Int, den : Nat \ {0}, count : Nat] : e.count = 0 \/ e.num = Strike * e.den}
StillRsis == [gain : {0}, loss : {0}, den : Nat, last : {<< >>, <<Strike>>}, count : Nat]
Stills == [agg : [current : Seq(StillCandles), closed : Seq(StillCandles)],
           fast : StillEmas, slow : StillEmas, rsi : StillRsis, trend : Seq({Strike})]

StillInv ==
  strategy = "composite" =>
    \/ \E i \in DOMAIN seen : seen[i].price # Strike
    \/ memory.composite \in Stills /\ entering = Idle

\* The ticks the volatility estimator sampled.
Samples(ticks) == {i \in DOMAIN ticks : i % Stride = 0}

\* The estimator counts the ticks and the samples, keeps the price of one of them, and says
\* that the price moved only if two of them differ.
Estimates(vol, ticks) ==
  /\ vol \in [ticks : Nat, last : Seq(Int), moved : BOOLEAN, count : Nat]
  /\ vol.ticks = Len(ticks)
  /\ vol.last = << >> => Samples(ticks) = {} /\ vol.count = 0
  /\ vol.last # << >> => /\ Cardinality(Samples(ticks)) = vol.count + 1
                         /\ \E k \in Samples(ticks) : vol.last = <<ticks[k].price>>
  /\ vol.moved => \E i, j \in Samples(ticks) : ticks[i].price # ticks[j].price

VolInv == strategy = "quant" => Estimates(memory.vol, seen)
LEMMA Negation == ASSUME NEW x \in Int PROVE -x = 0 - x
OBVIOUS

LEMMA PushedTyped ==
  ASSUME NEW S, NEW ring \in Seq(S), NEW x \in S, NEW cap \in Nat \ {0}
  PROVE  Pushed(ring, x, cap) \in Seq(S)
<1>1. CASE Len(ring) >= cap
  <2>1. ring # << >>
    BY <1>1
  <2>2. Tail(ring) \in Seq(S)
    BY <2>1
  <2>3. Append(Tail(ring), x) \in Seq(S)
    BY <2>2
  <2>4. QED BY <1>1, <2>3 DEF Pushed
<1>2. CASE ~(Len(ring) >= cap)
  BY <1>2 DEF Pushed
<1>3. QED BY <1>1, <1>2

\* An average fed with the strike only stays there.
LEMMA EmaStaysStill ==
  ASSUME NEW ema \in StillEmas, NEW period \in Nat \ {0}
  PROVE  EmaUpdate(ema, Strike, period) \in StillEmas
<1>0. /\ ema \in [num : Int, den : Nat \ {0}, count : Nat] /\ Strike \in Int
      /\ ema.count = 0 \/ ema.num = Strike * ema.den
  BY DecisionAssumption DEF StillEmas
<1>1. CASE ema.count = 0
  <2>1. EmaUpdate(ema, Strike, period) = [num |-> Strike, den |-> 1, count |-> 1]
    BY <1>1 DEF EmaUpdate
  <2>2. Strike = Strike * 1
    BY <1>0
  <2>3. QED BY <1>0, <2>1, <2>2 DEF StillEmas
<1>2. CASE ema.count # 0
  <2> DEFINE num == 2 * Strike * ema.den + (period - 1) * ema.num
  <2> DEFINE den == (period + 1) * ema.den
  <2>1. EmaUpdate(ema, Strike, period) = [num |-> num, den |-> den, count |-> ema.count + 1]
    BY <1>2 DEF EmaUpdate
  <2>2. PICK d \in Nat \ {0} : d = ema.den
    BY <1>0
  <2>3. num = 2 * Strike * d + (period - 1) * (Strike * d) /\ den = (period + 1) * d
    BY <1>0, <1>2, <2>2
  <2> HIDE DEF num, den
  <2>4. num = Strike * den
    BY <1>0, <2>3
  <2>5. num \in Int /\ den \in Nat \ {0}
    BY <1>0, <2>3
  <2>6. QED BY <1>0, <2>1, <2>4, <2>5 DEF StillEmas
<1>3. QED BY <1>1, <1>2

\* So does an RSI.
LEMMA RsiStaysStill ==
  ASSUME NEW rsi \in StillRsis
  PROVE  RsiUpdate(rsi, Strike) \in StillRsis
<1>0. /\ rsi.gain = 0 /\ rsi.loss = 0 /\ rsi.den \in Nat /\ rsi.count \in Nat
      /\ rsi.last = << >> \/ rsi.last = <<Strike>>
      /\ RsiPeriod \in Nat /\ Strike \in Int
  BY IndicatorsAssumption, DecisionAssumption DEF StillRsis
<1>1. CASE rsi.last = << >>
  BY <1>1 DEF RsiUpdate, StillRsis
<1>2. CASE rsi.last = <<Strike>>
  <2>0. rsi.last[1] = Strike /\ rsi.last # << >>
    <3>1. <<Strike>>[1] = Strike /\ <<Strike>> # << >>
      OBVIOUS
    <3>2. QED BY <1>2, <3>1
  <2>1. Strike - rsi.last[1] = 0 /\ -(Strike - rsi.last[1]) = 0 /\ rsi.last # << >>
    <3>1. PICK change \in Int : change = Strike - rsi.last[1]
      BY <1>0, <2>0
    <3>2. change = 0
      BY <1>0, <2>0, <3>1
    <3>3. -change = 0 - change
      BY <3>1, Negation
    <3>4. -change = 0
      BY <3>2, <3>3
    <3>5. QED BY <2>0, <3>1, <3>2, <3>4
  <2>2. Larger(0, 0) = 0
    BY DEF Larger
  <2>3. 0 * rsi.den + (RsiPeriod - 1) * 0 = 0 /\ RsiPeriod * rsi.den \in Nat
    BY <1>0
  <2>4. RsiUpdate(rsi, Strike) =
          [gain |-> 0, loss |-> 0, den |-> IF rsi.count = 0 THEN 1 ELSE RsiPeriod * rsi.den,
           last |-> <<Strike>>, count |-> rsi.count + 1]
    BY <1>0, <2>1, <2>2, <2>3 DEF RsiUpdate
  <2>5. QED BY <1>0, <2>3, <2>4 DEF StillRsis
<1>3. QED BY <1>0, <1>1, <1>2

\* And the candles.
LEMMA CandlesStayStill ==
  ASSUME NEW agg \in [current : Seq(StillCandles), closed : Seq(StillCandles)], NEW at \in Nat
  PROVE  OnTick(agg, Strike, at) \in [current : Seq(StillCandles), closed : Seq(StillCandles)]
<1>1. Fresh(Strike, at) \in StillCandles
  <2>1. BucketSecs \in Nat \ {0}
    BY IndicatorsAssumption
  <2>2. Bucket(at) \in Int
    BY <2>1, Division DEF Bucket
  <2>3. QED BY <2>2 DEF Fresh, StillCandles
<1>2. agg.current # << >> => agg.current[1] \in StillCandles
  OBVIOUS
<1>3. <<Fresh(Strike, at)>> \in Seq(StillCandles)
  BY <1>1
<1>4. CASE ClosesCandle(agg, at)
  <2>1. agg.current[1] \in StillCandles
    BY <1>2, <1>4 DEF ClosesCandle
  <2>2. Pushed(agg.closed, agg.current[1], HistoryCap) \in Seq(StillCandles)
    BY <2>1, PushedTyped, IndicatorsAssumption
  <2>3. QED BY <1>3, <1>4, <2>2 DEF OnTick
<1>5. CASE ~ClosesCandle(agg, at)
  <2> DEFINE current == IF agg.current = << >> THEN <<Fresh(Strike, at)>>
                        ELSE <<[agg.current[1] EXCEPT !.close = Strike]>>
  <2>1. OnTick(agg, Strike, at) = [agg EXCEPT !.current = current]
    BY <1>5 DEF OnTick
  <2>2. current \in Seq(StillCandles)
    <3>1. CASE agg.current = << >>
      BY <1>3, <3>1
    <3>2. CASE agg.current # << >>
      <4>1. [agg.current[1] EXCEPT !.close = Strike] \in StillCandles
        BY <1>2, <3>2 DEF StillCandles
      <4>2. QED BY <3>2, <4>1
    <3>3. QED BY <3>1, <3>2
  <2> HIDE DEF current
  <2>3. QED BY <2>1, <2>2
<1>6. QED BY <1>4, <1>5

LEMMA CompositeStaysStill ==
  ASSUME NEW st \in Stills, NEW at \in Nat
  PROVE  CompositeUpdate(st, [price |-> Strike, at |-> at]) \in Stills
<1> DEFINE close == st.agg.current[1].close
<1> DEFINE closes == ClosesCandle(st.agg, at)
<1>0. /\ st.agg \in [current : Seq(StillCandles), closed : Seq(StillCandles)]
      /\ st.fast \in StillEmas /\ st.slow \in StillEmas /\ st.rsi \in StillRsis /\ st.trend \in Seq({Strike})
  BY DEF Stills
<1>1. closes => close = Strike
  <2>1. st.agg.current \in Seq(StillCandles)
    BY <1>0
  <2>2. st.agg.current # << >> => st.agg.current[1] \in StillCandles
    BY <2>1
  <2>3. QED BY <2>2 DEF ClosesCandle, StillCandles
<1>2. CompositeUpdate(st, [price |-> Strike, at |-> at]) =
        [agg |-> OnTick(st.agg, Strike, at),
         fast |-> IF closes THEN EmaUpdate(st.fast, close, FastPeriod) ELSE st.fast,
         slow |-> IF closes THEN EmaUpdate(st.slow, close, SlowPeriod) ELSE st.slow,
         rsi |-> IF closes THEN RsiUpdate(st.rsi, close) ELSE st.rsi,
         trend |-> Pushed(st.trend, Strike, TrendWindow)]
  BY DEF CompositeUpdate
<1> HIDE DEF close, closes
<1>3. FastPeriod \in Nat \ {0} /\ SlowPeriod \in Nat \ {0} /\ TrendWindow \in Nat \ {0}
  BY IndicatorsAssumption
<1>4. /\ (IF closes THEN EmaUpdate(st.fast, close, FastPeriod) ELSE st.fast) \in StillEmas
      /\ (IF closes THEN EmaUpdate(st.slow, close, SlowPeriod) ELSE st.slow) \in StillEmas
  BY <1>0, <1>1, <1>3, EmaStaysStill
<1>5. (IF closes THEN RsiUpdate(st.rsi, close) ELSE st.rsi) \in StillRsis
  BY <1>0, <1>1, RsiStaysStill
<1>6. OnTick(st.agg, Strike, at) \in [current : Seq(StillCandles), closed : Seq(StillCandles)]
  BY <1>0, CandlesStayStill
<1>7. Pushed(st.trend, Strike, TrendWindow) \in Seq({Strike})
  BY <1>0, <1>3, PushedTyped
<1>8. QED BY <1>2, <1>4, <1>5, <1>6, <1>7 DEF Stills

LEMMA MagnitudeOfNat == ASSUME NEW x \in Nat PROVE Magnitude(x) = x
BY DEF Magnitude

LEMMA NoMovesWhenStill ==
  ASSUME NEW prices \in Seq({Strike}), NEW s \in {1, -1}
  PROVE  Moves(prices, s) = 0
<1>1. ASSUME NEW i \in 2..Len(prices) PROVE Sign(prices[i] - prices[i - 1]) = 0
  <2>1. prices[i] = Strike /\ prices[i - 1] = Strike
    <3>1. i \in 1..Len(prices) /\ i - 1 \in 1..Len(prices)
      OBVIOUS
    <3>2. \A k \in 1..Len(prices) : prices[k] \in {Strike}
      OBVIOUS
    <3>3. QED BY <3>1, <3>2
  <2>2. prices[i] - prices[i - 1] = 0
    BY <2>1, DecisionAssumption
  <2>3. QED BY <2>2 DEF Sign
<1>2. {i \in 2..Len(prices) : Sign(prices[i] - prices[i - 1]) = s} = {}
  BY <1>1
<1>3. QED BY <1>2, FS_EmptySet DEF Moves

LEMMA StillTrend ==
  ASSUME NEW prices \in Seq({Strike})
  PROVE  TrendSignal(prices) = 0
<1>1. Moves(prices, 1) = 0 /\ Moves(prices, -1) = 0
  BY NoMovesWhenStill
<1>2. Moves(prices, 1) + Moves(prices, -1) = 0
  BY <1>1
<1>3. QED BY <1>2 DEF TrendSignal

LEMMA StillCrossover ==
  ASSUME NEW fast \in StillEmas, NEW slow \in StillEmas
  PROVE  CrossoverSign(fast, slow) = 0
<1>0. FastPeriod \in Nat \ {0} /\ SlowPeriod \in Nat \ {0} /\ Strike \in Int
  BY IndicatorsAssumption, DecisionAssumption
<1>1. CASE fast.count < FastPeriod \/ slow.count < SlowPeriod
  BY <1>1 DEF CrossoverSign
<1>2. CASE ~(fast.count < FastPeriod \/ slow.count < SlowPeriod)
  <2>1. /\ fast.count \in Nat /\ slow.count \in Nat /\ fast.den \in Int /\ slow.den \in Int
        /\ fast.count = 0 \/ fast.num = Strike * fast.den
        /\ slow.count = 0 \/ slow.num = Strike * slow.den
    BY DEF StillEmas
  <2>2. PICK f \in Int, g \in Int : f = fast.den /\ g = slow.den
    BY <2>1
  <2>3. fast.num = Strike * f /\ slow.num = Strike * g
    BY <1>0, <1>2, <2>1, <2>2
  <2>4. (Strike * f) * g - (Strike * g) * f = 0
    BY <1>0, <2>2
  <2>5. fast.num * slow.den - slow.num * fast.den = 0
    BY <2>2, <2>3, <2>4
  <2>6. QED BY <1>2, <2>5 DEF CrossoverSign, Sign
<1>3. QED BY <1>1, <1>2

LEMMA StillWindow == WindowDelta(Strike, Strike) = 0
<1>1. Strike \in Nat \ {0}
  BY DecisionAssumption
<1>2. PICK delta \in Int : delta = Strike - Strike
  BY <1>1
<1>3. delta \in Nat /\ delta = 0
  BY <1>1, <1>2
<1>4. Magnitude(delta) * 100000 = 0
  BY <1>3, MagnitudeOfNat
<1>5. \A i \in DOMAIN Tiers : Tiers[i].over \in Nat
  BY DEF Tiers
<1>6. \A i \in DOMAIN Tiers : ~(0 > Tiers[i].over * Strike)
  BY <1>1, <1>5
<1>7. {i \in DOMAIN Tiers : Magnitude(Strike - Strike) * 100000 > Tiers[i].over * Strike} = {}
  BY <1>2, <1>4, <1>6
<1>8. QED BY <1>7 DEF WindowDelta

\* Without a body there is no momentum; the acceleration is 1 at most.
LEMMA StillMomentum ==
  ASSUME NEW closed \in Seq(StillCandles)
  PROVE  MicroMomentum(closed) = 0 /\ Acceleration(closed) \in {0, 1}
<1>0. Len(closed) \in Nat
  OBVIOUS
<1>1. \A k \in 1..Len(closed) : Body(closed[k]) = 0
  <2> SUFFICES ASSUME NEW k \in 1..Len(closed) PROVE Body(closed[k]) = 0
    OBVIOUS
  <2>1. closed[k] \in StillCandles
    OBVIOUS
  <2>2. closed[k].open = Strike /\ closed[k].close = Strike
    BY <2>1 DEF StillCandles
  <2>3. QED BY <2>2, DecisionAssumption DEF Body
<1>2. MicroMomentum(closed) = 0
  <2>1. CASE Len(closed) < 2
    BY <2>1 DEF MicroMomentum
  <2>2. CASE ~(Len(closed) < 2)
    <3>1. Body(closed[Len(closed)]) = 0 /\ Body(closed[Len(closed) - 1]) = 0
      BY <1>0, <1>1, <2>2
    <3>2. QED BY <2>2, <3>1 DEF MicroMomentum, Sign
  <2>3. QED BY <2>1, <2>2
<1>3. Acceleration(closed) \in {0, 1}
  <2>1. CASE Len(closed) < 3
    BY <2>1 DEF Acceleration
  <2>2. CASE ~(Len(closed) < 3)
    <3>1. Body(closed[Len(closed)]) = 0 /\ Body(closed[Len(closed) - 2]) = 0
      BY <1>0, <1>1, <2>2
    <3>2. PICK rising \in Int : rising = -1
      OBVIOUS
    <3>3. Acceleration(closed) = -rising
      BY <2>2, <3>1, <3>2 DEF Acceleration
    <3>4. Acceleration(closed) = 0 - rising
      BY <3>2, <3>3, Negation
    <3>5. QED BY <3>2, <3>4
  <2>3. QED BY <2>1, <2>2
<1>4. QED BY <1>2, <1>3

\* What the two indicators that take a side make of a still market is not enough.
LEMMA StillHolds ==
  ASSUME NEW st \in Stills, NEW secs
  PROVE  CompositeDecision(st, Strike, Strike, secs) = "Hold"
<1>0. /\ st.agg.closed \in Seq(StillCandles)
      /\ st.fast \in StillEmas /\ st.slow \in StillEmas /\ st.rsi \in StillRsis /\ st.trend \in Seq({Strike})
  BY DEF Stills
<1>1. RsiVote(st.rsi) \in {-4, 0}
  <2>1. st.rsi.loss = 0
    BY <1>0 DEF StillRsis
  <2>2. QED BY <2>1 DEF RsiVote, Oversold
<1>2. PICK acceleration \in {0, 1}, vote \in {-4, 0} :
        acceleration = Acceleration(st.agg.closed) /\ vote = RsiVote(st.rsi)
  BY <1>0, <1>1, StillMomentum
<1>3. Score(st, Strike, Strike) = 0 + 4 * 0 + 3 * acceleration + 2 * 0 + vote + 4 * 0
  BY <1>0, <1>2, StillWindow, StillMomentum, StillCrossover, StillTrend DEF Score
<1>4. PICK score \in {0, 3, -4, -1} : score = Score(st, Strike, Strike)
  BY <1>2, <1>3
<1>5. ~Confident(score)
  BY <1>4 DEF Confident, Magnitude
<1>6. QED BY <1>4, <1>5 DEF CompositeDecision

-----------------------------------------------------------------------------
(* What one tick changes, and what nothing else does. *)

\* A step either takes a tick in, or passes one by without a decision, or leaves what the
\* task remembers alone.
LEMMA MemoryStep ==
  ASSUME TypeOK, Shaped, [Next]_vars
  PROVE  /\ strategy' = strategy /\ Shaped'
         /\ \/ \E price \in Prices, t \in Nat, decision \in {"Hold", "Up", "Down"} :
                 /\ Usable(strategy, [price |-> price, at |-> t], Strike) /\ strategy # "v1"
                 /\ entering = Idle /\ strike = Strike
                 /\ seen' = Append(seen, [price |-> price, at |-> t])
                 /\ memory' = Remembered(strategy, memory, [price |-> price, at |-> t], Strike,
                                         Secs([price |-> price, at |-> t]))
                 /\ decision \in Decisions(strategy, memory', [price |-> price, at |-> t], Strike,
                                           Secs([price |-> price, at |-> t]))
                 /\ decision = "Hold" => entering' = Idle
            \/ strategy = "v1"
            \/ /\ seen' = seen /\ memory' = memory
               /\ entering = Idle => entering' = Idle
<1>1. CASE Evaluate
  <2>0. PICK price \in Prices, t \in clock..(clock + Interval) :
          /\ Take(t)
          /\ memory' = Remembered(strategy, memory, [price |-> price, at |-> t], strike,
                                  Secs([price |-> price, at |-> t]))
          /\ seen' = IF strategy # "v1" /\ Usable(strategy, [price |-> price, at |-> t], strike)
                     THEN Append(seen, [price |-> price, at |-> t]) ELSE seen
          /\ \E decision \in Decisions(strategy, memory', [price |-> price, at |-> t], strike,
                                       Secs([price |-> price, at |-> t])) :
               entering' = IF decision = "Hold" THEN Idle
                           ELSE [Idle EXCEPT !.outcome = decision, !.price = price]
    BY <1>1 DEF Evaluate
  <2> DEFINE tick == [price |-> price, at |-> t]
  <2>1. PICK decision \in Decisions(strategy, memory', tick, strike, Secs(tick)) :
          entering' = IF decision = "Hold" THEN Idle
                      ELSE [Idle EXCEPT !.outcome = decision, !.price = price]
    BY <2>0
  <2>2. strategy' = strategy /\ strategy \in Names /\ strike = Strike /\ t \in Nat /\ entering = Idle
    <3>1. strike = Strike
      BY <1>1 DEF Evaluate, Asked, TypeOK
    <3>2. strategy' = strategy
      BY <1>1 DEF Evaluate, envVars
    <3>3. QED BY <2>0, <3>1, <3>2, TickTaken DEF TypeOK, Take
  <2>3. Shaped'
    <3>1. DOMAIN memory' = DOMAIN memory
      BY <2>0, <2>2 DEF Remembered, Names
    <3>2. QED BY <3>1 DEF Shaped
  <2>4. decision \in {"Hold", "Up", "Down"}
    BY <2>1, <2>2, DecisionsAreOutcomes DEF Outcomes
  <2>5. CASE strategy # "v1" /\ ~Usable(strategy, tick, strike)
    <3>1. decision = "Hold" /\ memory' = memory /\ seen' = seen
      BY <2>0, <2>1, <2>5 DEF Decisions, Remembered
    <3>2. QED BY <2>1, <2>2, <2>3, <3>1
  <2>6. CASE strategy # "v1" /\ Usable(strategy, tick, strike)
    BY <2>0, <2>1, <2>2, <2>3, <2>4, <2>6
  <2>7. QED BY <2>2, <2>3, <2>5, <2>6
<1>2. CASE ~Evaluate
  <2>1. UNCHANGED <<strategy, memory, seen>> /\ (entering = Idle => entering' = Idle)
    BY <1>2
    DEF Next, DecisionTask, PublishMarket, PrefetchFails, ResetSlot, ExecutorTakes, PassOver, HoldAtAsk, Quote,
        SendIntent, vars, envVars, taskVars
  <2>2. QED BY <2>1 DEF Shaped
<1>3. QED BY <1>1, <1>2

LEMMA StillStep == TypeOK /\ Shaped /\ StillInv /\ [Next]_vars => StillInv'
<1> SUFFICES ASSUME TypeOK, Shaped, StillInv, [Next]_vars, strategy' = "composite",
                    ~ \E i \in DOMAIN seen' : seen'[i].price # Strike
             PROVE  memory'.composite \in Stills /\ entering' = Idle
  BY DEF StillInv
<1>0. strategy' = strategy /\ Shaped' /\ strategy = "composite" /\ seen \in Seq(Ticks)
  BY MemoryStep DEF TypeOK
<1>1. ASSUME NEW price \in Prices, NEW t \in Nat, NEW decision \in {"Hold", "Up", "Down"},
             Usable(strategy, [price |-> price, at |-> t], Strike),
             seen' = Append(seen, [price |-> price, at |-> t]),
             memory' = Remembered(strategy, memory, [price |-> price, at |-> t], Strike,
                                  Secs([price |-> price, at |-> t])),
             decision \in Decisions(strategy, memory', [price |-> price, at |-> t], Strike,
                                    Secs([price |-> price, at |-> t])),
             decision = "Hold" => entering' = Idle
      PROVE  memory'.composite \in Stills /\ entering' = Idle
  <2> DEFINE tick == [price |-> price, at |-> t]
  <2>1. tick \in Ticks /\ tick.price = price
    BY DEF Ticks
  <2>2. seen'[Len(seen) + 1] = tick /\ Len(seen) + 1 \in DOMAIN seen'
    <3>1. seen' = Append(seen, tick)
      BY <1>1
    <3> HIDE DEF tick
    <3>2. QED BY <1>0, <2>1, <3>1
  <2>3. price = Strike
    BY <2>1, <2>2
  <2>4. ~ \E i \in DOMAIN seen : seen[i].price # Strike
    <3>1. ASSUME NEW i \in DOMAIN seen PROVE i \in DOMAIN seen' /\ seen'[i] = seen[i]
      <4>1. seen' = Append(seen, tick)
        BY <1>1
      <4> HIDE DEF tick
      <4>2. QED BY <1>0, <2>1, <4>1
    <3>2. QED BY <3>1
  <2>5. memory.composite \in Stills
    BY <1>0, <2>4 DEF StillInv
  <2>6. memory' = [memory EXCEPT !.composite = CompositeUpdate(memory.composite, tick)]
    BY <1>0, <1>1 DEF Remembered
  <2>7. memory'.composite = CompositeUpdate(memory.composite, tick)
    BY <2>6 DEF Shaped
  <2>8. memory'.composite \in Stills
    BY <2>3, <2>5, <2>7, CompositeStaysStill
  <2>9. decision = CompositeDecision(memory'.composite, Strike, Strike, Secs(tick))
    BY <1>0, <1>1, <2>3 DEF Decisions
  <2>10. decision = "Hold"
    BY <2>8, <2>9, StillHolds
  <2>11. QED BY <1>1, <2>8, <2>10
<1>2. ASSUME seen' = seen, memory' = memory, entering = Idle => entering' = Idle
      PROVE  memory'.composite \in Stills /\ entering' = Idle
  BY <1>0, <1>2 DEF StillInv
<1>3. strategy # "v1"
  BY <1>0
<1>4. QED BY <1>0, <1>1, <1>2, <1>3, MemoryStep

LEMMA StillInit == Init => Shaped /\ StillInv
<1> SUFFICES ASSUME Init PROVE Shaped /\ StillInv
  OBVIOUS
<1>1. memory = NoMemory /\ entering = Idle
  BY DEF Init
<1>2. Shaped
  BY <1>1 DEF Shaped, NoMemory
<1>3. NoEma \in StillEmas /\ NoRsi \in StillRsis
  BY DEF NoEma, NoRsi, StillEmas, StillRsis
<1>4. NoCandles \in [current : Seq(StillCandles), closed : Seq(StillCandles)] /\ << >> \in Seq({Strike})
  BY DEF NoCandles
<1>5. NoComposite \in Stills
  BY <1>3, <1>4 DEF NoComposite, Stills
<1>6. QED BY <1>1, <1>2, <1>5 DEF StillInv, NoMemory

\* However long a market stays exactly at its strike, and whatever the periods, the window
\* and the history of the indicators are, the composite strategy does not enter it
\* (momentum.rs 60, rsi.rs 64-67, composite.rs 179-282).
THEOREM FlatNeverEntered == Spec => []NeverEntersFlat
<1>1. StillInv => NeverEntersFlat
  BY DEF StillInv, NeverEntersFlat
<1>2. Init => Shaped /\ StillInv
  BY StillInit
<1>3. TypeOK /\ Shaped /\ [Next]_vars => Shaped'
  BY MemoryStep
<1>4. QED BY <1>1, <1>2, <1>3, StillStep, TypeCorrect, PTL DEF Spec

-----------------------------------------------------------------------------
(* The volatility estimator. *)

\* One tick more adds its index to the samples, or leaves them.
LEMMA SamplesGrow ==
  ASSUME NEW ticks \in Seq(Ticks), NEW tick \in Ticks
  PROVE  /\ IsFiniteSet(Samples(ticks)) /\ Len(ticks) + 1 \notin Samples(ticks)
         /\ Samples(Append(ticks, tick)) =
              IF (Len(ticks) + 1) % Stride = 0 THEN Samples(ticks) \cup {Len(ticks) + 1} ELSE Samples(ticks)
         /\ Append(ticks, tick)[Len(ticks) + 1] = tick
         /\ \A i \in Samples(ticks) : Append(ticks, tick)[i] = ticks[i]
<1>1. Len(ticks) \in Nat /\ DOMAIN ticks = 1..Len(ticks)
  OBVIOUS
<1>2. /\ DOMAIN Append(ticks, tick) = 1..(Len(ticks) + 1)
      /\ Append(ticks, tick)[Len(ticks) + 1] = tick
      /\ \A i \in 1..Len(ticks) : Append(ticks, tick)[i] = ticks[i]
  OBVIOUS
<1>3. IsFiniteSet(Samples(ticks))
  <2>1. Samples(ticks) \in SUBSET (1..Len(ticks))
    BY <1>1 DEF Samples
  <2>2. IsFiniteSet(1..Len(ticks))
    BY <1>1, FS_Interval
  <2>3. QED BY <2>1, <2>2, FS_Subset
<1>4. 1..(Len(ticks) + 1) = (1..Len(ticks)) \cup {Len(ticks) + 1} /\ Len(ticks) + 1 \notin 1..Len(ticks)
  BY <1>1
<1>5. QED BY <1>1, <1>2, <1>3, <1>4 DEF Samples

LEMMA EstimatesStep ==
  ASSUME NEW vol, NEW ticks \in Seq(Ticks), NEW tick \in Ticks, Estimates(vol, ticks)
  PROVE  Estimates(VolUpdate(vol, tick.price), Append(ticks, tick))
<1> DEFINE n == Len(ticks) + 1
<1> DEFINE after == Append(ticks, tick)
<1> DEFINE updated == VolUpdate(vol, tick.price)
<1>0. /\ n \in Nat /\ Len(after) = n /\ vol.ticks + 1 = n /\ tick.price \in Int
      /\ vol \in [ticks : Nat, last : Seq(Int), moved : BOOLEAN, count : Nat]
  <2>1. tick.price \in Prices
    BY DEF Ticks
  <2>2. tick.price \in Int
    BY <2>1, DecisionAssumption
  <2>3. n \in Nat /\ Len(after) = n
    OBVIOUS
  <2>4. vol.ticks = Len(ticks) /\ vol \in [ticks : Nat, last : Seq(Int), moved : BOOLEAN, count : Nat]
    BY DEF Estimates
  <2>5. QED BY <2>2, <2>3, <2>4
<1>1. /\ IsFiniteSet(Samples(ticks)) /\ n \notin Samples(ticks)
      /\ Samples(after) = IF n % Stride = 0 THEN Samples(ticks) \cup {n} ELSE Samples(ticks)
      /\ after[n] = tick /\ \A i \in Samples(ticks) : after[i] = ticks[i]
  BY SamplesGrow
<1> HIDE DEF after
<1>2. CASE n % Stride # 0
  <2>1. updated = [vol EXCEPT !.ticks = n]
    BY <1>0, <1>2 DEF VolUpdate
  <2>2. /\ updated \in [ticks : Nat, last : Seq(Int), moved : BOOLEAN, count : Nat]
        /\ updated.ticks = n /\ updated.last = vol.last /\ updated.moved = vol.moved /\ updated.count = vol.count
    BY <1>0, <2>1
  <2>3. Samples(after) = Samples(ticks)
    BY <1>1, <1>2
  <2> HIDE DEF updated
  <2>4. Estimates(updated, after)
    BY <1>0, <1>1, <2>2, <2>3 DEF Estimates
  <2>5. QED BY <2>4 DEF updated, after
<1>3. CASE n % Stride = 0
  <2>1. updated = [ticks |-> n, last |-> <<tick.price>>,
                   moved |-> vol.moved \/ (vol.last # << >> /\ vol.last[1] # tick.price),
                   count |-> vol.count + (IF vol.last # << >> THEN 1 ELSE 0)]
    BY <1>0, <1>3 DEF VolUpdate
  <2>2. Samples(after) = Samples(ticks) \cup {n} /\ n \in Samples(after)
    BY <1>1, <1>3
  <2>3. /\ updated.ticks = n /\ updated.last = <<tick.price>> /\ updated.last # << >>
        /\ updated.moved = (vol.moved \/ (vol.last # << >> /\ vol.last[1] # tick.price))
        /\ updated.count = vol.count + (IF vol.last # << >> THEN 1 ELSE 0)
    <3>1. <<tick.price>> # << >>
      OBVIOUS
    <3>2. QED BY <2>1, <3>1
  <2>4. updated \in [ticks : Nat, last : Seq(Int), moved : BOOLEAN, count : Nat]
    <3>1. vol.moved \in BOOLEAN /\ vol.count \in Nat
      BY <1>0
    <3>2. (vol.moved \/ (vol.last # << >> /\ vol.last[1] # tick.price)) \in BOOLEAN
      OBVIOUS
    <3>3. <<tick.price>> \in Seq(Int)
      BY <1>0
    <3>4. vol.count + (IF vol.last # << >> THEN 1 ELSE 0) \in Nat
      BY <3>1
    <3>5. QED BY <1>0, <2>1, <3>2, <3>3, <3>4
  <2> HIDE DEF updated
  <2>5. Cardinality(Samples(after)) = Cardinality(Samples(ticks)) + 1
    BY <1>1, <2>2, FS_AddElement
  <2>6. Cardinality(Samples(after)) = updated.count + 1
    <3>1. CASE vol.last = << >>
      <4>1. Cardinality(Samples(ticks)) = 0 /\ vol.count = 0
        BY <3>1, FS_EmptySet DEF Estimates
      <4>2. QED BY <2>3, <2>5, <3>1, <4>1
    <3>2. CASE vol.last # << >>
      <4>1. Cardinality(Samples(ticks)) = vol.count + 1
        BY <3>2 DEF Estimates
      <4>2. QED BY <2>3, <2>5, <3>2, <4>1
    <3>3. QED BY <3>1, <3>2
  <2>7. \E k \in Samples(after) : updated.last = <<after[k].price>>
    BY <1>1, <2>2, <2>3
  <2>8. ASSUME updated.moved
        PROVE  \E i, j \in Samples(after) : after[i].price # after[j].price
    <3>1. CASE vol.moved
      <4>1. PICK i \in Samples(ticks), j \in Samples(ticks) : ticks[i].price # ticks[j].price
        BY <3>1 DEF Estimates
      <4>2. i \in Samples(after) /\ j \in Samples(after) /\ after[i].price # after[j].price
        BY <1>1, <2>2, <4>1
      <4>3. QED BY <4>2
    <3>2. CASE vol.last # << >> /\ vol.last[1] # tick.price
      <4>1. PICK k \in Samples(ticks) : vol.last = <<ticks[k].price>>
        BY <3>2 DEF Estimates
      <4>2. vol.last[1] = ticks[k].price
        BY <4>1
      <4>3. k \in Samples(after) /\ after[k].price # after[n].price
        BY <1>1, <2>2, <3>2, <4>2
      <4>4. QED BY <2>2, <4>3
    <3>3. QED BY <2>3, <2>8, <3>1, <3>2
  <2>9. Estimates(updated, after)
    BY <1>0, <2>3, <2>4, <2>6, <2>7, <2>8 DEF Estimates
  <2>10. QED BY <2>9 DEF updated, after
<1>4. QED BY <1>2, <1>3

LEMMA VolStep == TypeOK /\ Shaped /\ VolInv /\ [Next]_vars => VolInv'
<1> SUFFICES ASSUME TypeOK, Shaped, VolInv, [Next]_vars, strategy' = "quant"
             PROVE  Estimates(memory'.vol, seen')
  BY DEF VolInv
<1>0. strategy = "quant" /\ seen \in Seq(Ticks) /\ Estimates(memory.vol, seen)
  BY MemoryStep DEF TypeOK, VolInv
<1>1. ASSUME NEW price \in Prices, NEW t \in Nat,
             Usable(strategy, [price |-> price, at |-> t], Strike),
             seen' = Append(seen, [price |-> price, at |-> t]),
             memory' = Remembered(strategy, memory, [price |-> price, at |-> t], Strike,
                                  Secs([price |-> price, at |-> t]))
      PROVE  Estimates(memory'.vol, seen')
  <2>1. [price |-> price, at |-> t] \in Ticks
    BY DEF Ticks
  <2>2. memory'.vol = VolUpdate(memory.vol, price)
    BY <1>0, <1>1 DEF Remembered, Shaped
  <2>3. QED BY <1>0, <1>1, <2>1, <2>2, EstimatesStep
<1>2. QED BY <1>0, <1>1, MemoryStep

\* An entry is decided by a warm estimator only if it has seen the price move.
LEMMA QuantStep ==
  TypeOK /\ Shaped /\ VolInv /\ VolInv' /\ QuantNeedsVolatility /\ [Next]_vars => QuantNeedsVolatility'
<1> SUFFICES ASSUME TypeOK, Shaped, VolInv, VolInv', QuantNeedsVolatility, [Next]_vars,
                    strategy' = "quant", entering' # Idle, Cardinality(Samples(seen')) > Warmup
             PROVE  \E i, j \in Samples(seen') : seen'[i].price # seen'[j].price
  BY DEF QuantNeedsVolatility, Samples
<1>0. strategy = "quant" /\ Estimates(memory'.vol, seen') /\ Warmup \in Nat
  BY MemoryStep, StrategiesAssumption DEF VolInv
<1>1. ASSUME NEW price \in Prices, NEW t \in Nat, NEW decision \in {"Hold", "Up", "Down"},
             Usable(strategy, [price |-> price, at |-> t], Strike),
             decision \in Decisions(strategy, memory', [price |-> price, at |-> t], Strike,
                                    Secs([price |-> price, at |-> t])),
             decision = "Hold" => entering' = Idle
      PROVE  \E i, j \in Samples(seen') : seen'[i].price # seen'[j].price
  <2> DEFINE secs == Secs([price |-> price, at |-> t])
  <2>1. decision # "Hold" /\ decision \in QuantDecisions(memory'.vol, price, Strike, secs)
    BY <1>0, <1>1 DEF Decisions
  <2>2. Edge(memory'.vol, price, Strike) # 0
    BY <2>1 DEF QuantDecisions
  <2>3. ~VolIsZero(memory'.vol)
    <3>1. VolIsZero(memory'.vol) => Edge(memory'.vol, price, Strike) = 0
      BY DEF Edge, D2, DriftNudge, Sign
    <3>2. QED BY <2>2, <3>1
  <2>4. Cardinality(Samples(seen')) = memory'.vol.count + 1 /\ memory'.vol.count \in Nat
    <3>1. CASE memory'.vol.last = << >>
      <4>1. Cardinality(Samples(seen')) = 0
        BY <1>0, <3>1, FS_EmptySet DEF Estimates
      <4>2. QED BY <1>0, <4>1
    <3>2. CASE memory'.vol.last # << >>
      BY <1>0, <3>2 DEF Estimates
    <3>3. QED BY <3>1, <3>2
  <2>5. memory'.vol.count >= Warmup
    BY <1>0, <2>4
  <2>6. memory'.vol.moved
    BY <2>3, <2>5 DEF VolIsZero
  <2>7. QED BY <1>0, <2>6 DEF Estimates
<1>2. ASSUME seen' = seen, entering = Idle => entering' = Idle
      PROVE  \E i, j \in Samples(seen') : seen'[i].price # seen'[j].price
  <2>1. entering # Idle /\ Cardinality(Samples(seen)) > Warmup
    BY <1>2
  <2>2. \E i, j \in Samples(seen) : seen[i].price # seen[j].price
    BY <1>0, <2>1 DEF QuantNeedsVolatility, Samples
  <2>3. QED BY <1>2, <2>2
<1>3. QED BY <1>0, <1>1, <1>2, MemoryStep

LEMMA VolInit == Init => VolInv /\ QuantNeedsVolatility
<1> SUFFICES ASSUME Init PROVE VolInv /\ QuantNeedsVolatility
  OBVIOUS
<1>1. memory.vol = NoVol /\ seen = << >> /\ entering = Idle
  BY DEF Init, NoMemory
<1>2. Samples(<< >>) = {} /\ Len(<< >>) = 0 /\ << >> \in Seq(Int)
  BY DEF Samples
<1>3. Estimates(NoVol, << >>)
  BY <1>2 DEF Estimates, NoVol
<1>4. QED BY <1>1, <1>3 DEF VolInv, QuantNeedsVolatility

\* However the ticks are spread over the sampling stride, a warm estimator that saw the
\* same price at each of its samples never lets the quantitative strategy enter
\* (vol.rs, normal.rs 36, quant.rs 74-124).
THEOREM QuantEntersOnMoves == Spec => []QuantNeedsVolatility
<1>1. Init => Shaped /\ VolInv /\ QuantNeedsVolatility
  BY StillInit, VolInit
<1>2. TypeOK /\ Shaped /\ [Next]_vars => Shaped'
  BY MemoryStep
<1>3. QED BY <1>1, <1>2, VolStep, QuantStep, TypeCorrect, PTL DEF Spec

-----------------------------------------------------------------------------
(* Where candles begin. *)

LEMMA StartsAreAFew ==
  ASSUME NEW ticks \in Seq(Ticks)
  PROVE  /\ Starts(ticks) \subseteq 1..Len(ticks) /\ IsFiniteSet(Starts(ticks))
         /\ Cardinality(Starts(ticks)) \in Nat
         /\ ticks # << >> => Cardinality(Starts(ticks)) > 0
<1>1. Starts(ticks) \subseteq 1..Len(ticks) /\ Len(ticks) \in Nat
  BY DEF Starts
<1>2. IsFiniteSet(Starts(ticks))
  <2>1. IsFiniteSet(1..Len(ticks))
    BY <1>1, FS_Interval
  <2>2. Starts(ticks) \in SUBSET (1..Len(ticks))
    BY <1>1
  <2>3. QED BY <2>1, <2>2, FS_Subset
<1>3. Cardinality(Starts(ticks)) \in Nat
  BY <1>2, FS_CardinalityType
<1>4. ASSUME ticks # << >> PROVE Cardinality(Starts(ticks)) # 0
  <2>1. 1 \in Starts(ticks)
    BY <1>4 DEF Starts
  <2>2. QED BY <1>2, <2>1, FS_EmptySet
<1>5. QED BY <1>1, <1>2, <1>3, <1>4

\* A tick begins a candle if it is of another bucket than the tick before.
LEMMA StartsOfMore ==
  ASSUME NEW ticks \in Seq(Ticks), ticks # << >>, NEW tick \in Ticks
  PROVE  Starts(Append(ticks, tick)) =
           IF Bucket(tick.at) # Bucket(ticks[Len(ticks)].at) THEN Starts(ticks) \cup {Len(ticks) + 1}
           ELSE Starts(ticks)
<1> DEFINE more == Append(ticks, tick)
<1> DEFINE n == Len(ticks)
<1>1. /\ n \in Nat \ {0} /\ DOMAIN ticks = 1..n /\ DOMAIN more = 1..(n + 1)
      /\ \A i \in 1..n : more[i] = ticks[i]
      /\ more[n + 1] = tick
  OBVIOUS
<1> HIDE DEF more, n
<1>2. ASSUME NEW i \in 1..n PROVE i \in Starts(more) <=> i \in Starts(ticks)
  <2>1. i > 1 => i - 1 \in 1..n
    BY <1>1
  <2>2. more[i] = ticks[i] /\ (i > 1 => more[i - 1] = ticks[i - 1]) /\ i \in DOMAIN more /\ i \in DOMAIN ticks
    BY <1>1, <2>1
  <2>3. QED BY <1>1, <2>2 DEF Starts
<1>3. n + 1 \in Starts(more) <=> Bucket(tick.at) # Bucket(ticks[n].at)
  <2>1. more[n + 1] = tick /\ more[(n + 1) - 1] = ticks[n] /\ n + 1 # 1 /\ n + 1 \in DOMAIN more
    BY <1>1
  <2>2. QED BY <2>1 DEF Starts
<1>4. Starts(more) \subseteq 1..(n + 1) /\ Starts(ticks) \subseteq 1..n
  BY <1>1 DEF Starts
<1>5. Starts(more) = IF Bucket(tick.at) # Bucket(ticks[n].at) THEN Starts(ticks) \cup {n + 1} ELSE Starts(ticks)
  <2>1. ASSUME NEW i \in 1..(n + 1) PROVE i \in 1..n \/ i = n + 1
    BY <1>1
  <2>2. ASSUME NEW i \in 1..n PROVE i \in 1..(n + 1) /\ i # n + 1
    BY <1>1
  <2>3. CASE n + 1 \in Starts(more)
    <3>1. Starts(more) = Starts(ticks) \cup {n + 1}
      BY <1>2, <1>4, <2>1, <2>2, <2>3
    <3>2. QED BY <1>3, <2>3, <3>1
  <2>4. CASE n + 1 \notin Starts(more)
    <3>1. Starts(more) = Starts(ticks)
      BY <1>2, <1>4, <2>1, <2>2, <2>4
    <3>2. QED BY <1>3, <2>4, <3>1
  <2>5. QED BY <2>3, <2>4
<1>6. QED BY <1>5 DEF more, n

\* A tick more moves no candle's beginning ...
LEMMA StartStays ==
  ASSUME NEW ticks \in Seq(Ticks), ticks # << >>, NEW tick \in Ticks, NEW k \in 1..Cardinality(Starts(ticks))
  PROVE  Start(Append(ticks, tick), k) = Start(ticks, k)
<1> DEFINE more == Append(ticks, tick)
<1> DEFINE n == Len(ticks)
<1>0. /\ n \in Nat /\ Starts(ticks) \subseteq 1..n /\ IsFiniteSet(Starts(ticks))
      /\ Starts(more) = Starts(ticks) \/ Starts(more) = Starts(ticks) \cup {n + 1}
  BY StartsAreAFew, StartsOfMore
<1> HIDE DEF more, n
<1>1. ASSUME NEW i \in Starts(ticks)
      PROVE  {j \in Starts(more) : j <= i} = {j \in Starts(ticks) : j <= i}
  BY <1>0
<1>2. ASSUME n + 1 \in Starts(more)
      PROVE  Cardinality({j \in Starts(more) : j <= n + 1}) # k
  <2>1. {j \in Starts(more) : j <= n + 1} = Starts(ticks) \cup {n + 1} /\ n + 1 \notin Starts(ticks)
    BY <1>0, <1>2
  <2>2. Cardinality({j \in Starts(more) : j <= n + 1}) = Cardinality(Starts(ticks)) + 1
    BY <1>0, <2>1, FS_AddElement
  <2>3. QED BY <1>0, <2>2, FS_CardinalityType
<1>3. Ranked(more, k) \subseteq Ranked(ticks, k)
  <2>1. SUFFICES ASSUME NEW i \in Ranked(more, k) PROVE i \in Ranked(ticks, k)
    OBVIOUS
  <2>2. i \in Starts(more) /\ Cardinality({j \in Starts(more) : j <= i}) = k
    BY DEF Ranked
  <2>3. i \in Starts(ticks)
    BY <1>0, <1>2, <2>2
  <2>4. QED BY <1>1, <2>2, <2>3 DEF Ranked
<1>4. Ranked(ticks, k) \subseteq Ranked(more, k)
  BY <1>0, <1>1 DEF Ranked
<1>5. Ranked(more, k) = Ranked(ticks, k)
  BY <1>3, <1>4
<1>6. QED BY <1>5 DEF Start, more

\* ... and one that begins a candle is the beginning of the next.
LEMMA NextStart ==
  ASSUME NEW ticks \in Seq(Ticks), ticks # << >>, NEW tick \in Ticks,
         Bucket(tick.at) # Bucket(ticks[Len(ticks)].at)
  PROVE  /\ Cardinality(Starts(Append(ticks, tick))) = Cardinality(Starts(ticks)) + 1
         /\ Start(Append(ticks, tick), Cardinality(Starts(ticks)) + 1) = Len(ticks) + 1
<1> DEFINE more == Append(ticks, tick)
<1> DEFINE n == Len(ticks)
<1> DEFINE c == Cardinality(Starts(ticks))
<1>0. /\ n \in Nat /\ c \in Nat /\ Starts(ticks) \subseteq 1..n /\ IsFiniteSet(Starts(ticks))
      /\ Starts(more) = Starts(ticks) \cup {n + 1} /\ n + 1 \notin Starts(ticks)
  BY StartsAreAFew, StartsOfMore
<1>1. Cardinality(Starts(more)) = c + 1
  BY <1>0, FS_AddElement
<1> HIDE DEF more, n
<1>2. ASSUME NEW i \in Starts(ticks) PROVE Cardinality({j \in Starts(more) : j <= i}) # c + 1
  <2>1. {j \in Starts(more) : j <= i} \in SUBSET Starts(ticks)
    BY <1>0
  <2>2. Cardinality({j \in Starts(more) : j <= i}) <= c /\ IsFiniteSet({j \in Starts(more) : j <= i})
    BY <1>0, <2>1, FS_Subset
  <2>3. Cardinality({j \in Starts(more) : j <= i}) \in Nat
    BY <2>2, FS_CardinalityType
  <2> HIDE DEF c
  <2>4. QED BY <1>0, <2>2, <2>3
<1>3. {j \in Starts(more) : j <= n + 1} = Starts(more)
  BY <1>0
<1>4. Ranked(more, c + 1) = {n + 1}
  <2>1. n + 1 \in Ranked(more, c + 1)
    BY <1>0, <1>1, <1>3 DEF Ranked
  <2>2. ASSUME NEW i \in Ranked(more, c + 1) PROVE i = n + 1
    BY <1>0, <1>2 DEF Ranked
  <2>3. QED BY <2>1, <2>2
<1>5. Start(more, c + 1) = n + 1
  BY <1>4 DEF Start
<1>6. QED BY <1>1, <1>5 DEF more, n

-----------------------------------------------------------------------------
(* What the aggregator holds. *)

\* The candles of a non-empty sequence of ticks begin and end among them, and the last one
\* is of the bucket of the last tick.
Orderly(ticks) ==
  /\ \A k \in 1..Cardinality(Starts(ticks)) :
       Start(ticks, k) \in 1..Len(ticks) /\ (k > 1 => Start(ticks, k) > 1)
  /\ Bucket(ticks[Start(ticks, Cardinality(Starts(ticks)))].at) = Bucket(ticks[Len(ticks)].at)

\* The composite strategy's state is what a look at all the ticks would find.
Matches(st, ticks) ==
  LET closed == Cardinality(Starts(ticks)) - 1
  IN /\ st.agg = [current |-> <<Cut(ticks, Start(ticks, closed + 1), Len(ticks))>>,
                  closed |-> SubSeq(Closed(ticks), Larger(1, closed - HistoryCap + 1), closed)]
     /\ st.fast.count = closed /\ st.slow.count = closed
     /\ IF closed = 0 THEN st.rsi = NoRsi
        ELSE st.rsi.count = closed - 1 /\ st.rsi.last = <<Closed(ticks)[closed].close>>

CandleInv ==
  strategy = "composite" =>
    IF seen = << >> THEN memory.composite = NoComposite
    ELSE Orderly(seen) /\ Matches(memory.composite, seen)

LEMMA OrderlyStep ==
  ASSUME NEW ticks \in Seq(Ticks), ticks # << >>, Orderly(ticks), NEW tick \in Ticks
  PROVE  Orderly(Append(ticks, tick))
<1> DEFINE more == Append(ticks, tick)
<1> DEFINE n == Len(ticks)
<1> DEFINE c == Cardinality(Starts(ticks))
<1>0. /\ n \in Nat \ {0} /\ c \in Nat \ {0} /\ Len(more) = n + 1
      /\ \A i \in 1..n : more[i] = ticks[i]
      /\ more[n + 1] = tick
  <2>1. c \in Nat /\ c > 0
    BY StartsAreAFew
  <2> HIDE DEF c
  <2>2. QED BY <2>1
<1>1. \A k \in 1..c : Start(more, k) = Start(ticks, k)
  BY StartStays
<1>2. \A k \in 1..c : Start(more, k) \in 1..n /\ (k > 1 => Start(more, k) > 1)
  BY <1>1 DEF Orderly
<1>3. Bucket(more[Start(more, c)].at) = Bucket(ticks[n].at)
  <2>1. Start(more, c) = Start(ticks, c) /\ Start(more, c) \in 1..n
    BY <1>0, <1>1, <1>2
  <2>2. more[Start(more, c)] = ticks[Start(ticks, c)]
    BY <1>0, <2>1
  <2>3. QED BY <2>2 DEF Orderly
<1>4. CASE Bucket(tick.at) # Bucket(ticks[n].at)
  <2>1. Cardinality(Starts(more)) = c + 1 /\ Start(more, c + 1) = n + 1
    BY <1>4, NextStart
  <2> HIDE DEF more, n, c
  <2>2. ASSUME NEW k \in 1..(c + 1)
        PROVE  Start(more, k) \in 1..(n + 1) /\ (k > 1 => Start(more, k) > 1)
    <3>1. k \in 1..c \/ k = c + 1
      BY <1>0
    <3>2. QED BY <1>0, <1>2, <2>1, <3>1
  <2>3. Bucket(more[Start(more, c + 1)].at) = Bucket(more[n + 1].at)
    BY <2>1
  <2>4. Orderly(more)
    BY <1>0, <2>1, <2>2, <2>3 DEF Orderly
  <2>5. QED BY <2>4 DEF more
<1>5. CASE Bucket(tick.at) = Bucket(ticks[n].at)
  <2>1. Starts(more) = Starts(ticks) /\ Cardinality(Starts(more)) = c
    BY <1>5, StartsOfMore
  <2> HIDE DEF more, n, c
  <2>2. Orderly(more)
    BY <1>0, <1>2, <1>3, <1>5, <2>1 DEF Orderly
  <2>3. QED BY <2>2 DEF more
<1>6. QED BY <1>4, <1>5

LEMMA SequenceIsFunction ==
  ASSUME NEW S, NEW s \in Seq(S)
  PROVE  s = [k \in DOMAIN s |-> s[k]]
OBVIOUS

\* The candles that are over stay as they are, and the current one joins them when it ends.
LEMMA ClosedOfMore ==
  ASSUME NEW ticks \in Seq(Ticks), ticks # << >>, Orderly(ticks), NEW tick \in Ticks
  PROVE  /\ Closed(ticks) \in Seq(Range(Closed(ticks))) /\ Len(Closed(ticks)) = Cardinality(Starts(ticks)) - 1
         /\ Closed(Append(ticks, tick)) =
              IF Bucket(tick.at) # Bucket(ticks[Len(ticks)].at)
              THEN Append(Closed(ticks), Cut(ticks, Start(ticks, Cardinality(Starts(ticks))), Len(ticks)))
              ELSE Closed(ticks)
<1> DEFINE more == Append(ticks, tick)
<1> DEFINE n == Len(ticks)
<1> DEFINE c == Cardinality(Starts(ticks))
<1>0. /\ n \in Nat \ {0} /\ c \in Nat \ {0}
      /\ \A i \in 1..n : more[i] = ticks[i]
  <2>1. c \in Nat /\ c > 0
    BY StartsAreAFew
  <2> HIDE DEF c
  <2>2. QED BY <2>1
<1>1. \A k \in 1..c : /\ Start(more, k) = Start(ticks, k)
                      /\ Start(ticks, k) \in 1..n
                      /\ k > 1 => Start(ticks, k) - 1 \in 1..n
  <2>1. \A k \in 1..c : Start(more, k) = Start(ticks, k)
    BY StartStays
  <2>2. \A k \in 1..c : Start(ticks, k) \in 1..n /\ (k > 1 => Start(ticks, k) > 1)
    BY DEF Orderly
  <2> HIDE DEF more, n, c
  <2>3. QED BY <1>0, <2>1, <2>2
<1>2. ASSUME NEW k \in 1..(c - 1)
      PROVE  Cut(more, Start(more, k), Start(more, k + 1) - 1)
               = Cut(ticks, Start(ticks, k), Start(ticks, k + 1) - 1)
  <2> HIDE DEF more, n, c
  <2>1. k \in 1..c /\ k + 1 \in 1..c /\ k + 1 > 1
    BY <1>0
  <2>2. /\ Start(more, k) = Start(ticks, k) /\ Start(more, k + 1) = Start(ticks, k + 1)
        /\ Start(ticks, k) \in 1..n /\ Start(ticks, k + 1) - 1 \in 1..n
    BY <1>1, <2>1
  <2>3. /\ more[Start(more, k)] = ticks[Start(ticks, k)]
        /\ more[Start(more, k + 1) - 1] = ticks[Start(ticks, k + 1) - 1]
    BY <1>0, <2>2
  <2>4. QED BY <2>3 DEF Cut
<1>3. Closed(ticks) = [k \in 1..(c - 1) |-> Cut(ticks, Start(ticks, k), Start(ticks, k + 1) - 1)]
  BY DEF Closed
<1> DEFINE over == Closed(ticks)
<1>4. /\ over \in Seq(Range(over)) /\ Len(over) = c - 1
      /\ \A k \in 1..(c - 1) : over[k] = Cut(ticks, Start(ticks, k), Start(ticks, k + 1) - 1)
  <2>1. DOMAIN over = 1..(c - 1) /\ over = [k \in 1..(c - 1) |-> over[k]] /\ c - 1 \in Nat
    <3>1. c - 1 \in Nat
      <4> HIDE DEF c
      <4>1. QED BY <1>0
    <3>2. QED BY <1>3, <3>1
  <2>2. \A k \in 1..(c - 1) : over[k] = Cut(ticks, Start(ticks, k), Start(ticks, k + 1) - 1)
    BY <1>3
  <2> HIDE DEF over, c
  <2>3. over \in [1..(c - 1) -> Range(over)]
    BY <2>1 DEF Range
  <2>4. QED BY <2>1, <2>2, <2>3
<1>5. CASE Bucket(tick.at) # Bucket(ticks[n].at)
  <2>1. Cardinality(Starts(more)) = c + 1 /\ Start(more, c + 1) = n + 1
    BY <1>5, NextStart
  <2>2. Closed(more) = [k \in 1..((c + 1) - 1) |-> Cut(more, Start(more, k), Start(more, k + 1) - 1)]
    BY <2>1 DEF Closed
  <2> DEFINE new == Cut(ticks, Start(ticks, c), n)
  <2> HIDE DEF more, n, c, over
  <2>3. Cut(more, Start(more, c), Start(more, c + 1) - 1) = new
    <3>1. Start(more, c) = Start(ticks, c) /\ Start(ticks, c) \in 1..n /\ Start(more, c + 1) - 1 = n
      BY <1>0, <1>1, <2>1
    <3>2. more[Start(more, c)] = ticks[Start(ticks, c)] /\ more[Start(more, c + 1) - 1] = ticks[n]
      BY <1>0, <3>1
    <3>3. QED BY <3>2 DEF Cut
  <2> HIDE DEF new
  <2>4. (c + 1) - 1 = c /\ 1..c = (1..(c - 1)) \cup {c}
    BY <1>0
  <2>5. Closed(more) = [k \in 1..c |-> Cut(more, Start(more, k), Start(more, k + 1) - 1)]
    BY <2>2, <2>4
  <2>6. DOMAIN Closed(more) = 1..c /\ \A k \in 1..c : Closed(more)[k] = IF k = c THEN new ELSE over[k]
    <3>1. ASSUME NEW k \in 1..c PROVE Closed(more)[k] = IF k = c THEN new ELSE over[k]
      <4>1. Closed(more)[k] = Cut(more, Start(more, k), Start(more, k + 1) - 1)
        BY <2>5
      <4>2. CASE k = c
        BY <2>3, <4>1, <4>2
      <4>3. CASE k # c
        <5>1. k \in 1..(c - 1)
          BY <2>4, <4>3
        <5>2. QED BY <1>2, <1>4, <4>1, <4>3, <5>1
      <4>4. QED BY <4>2, <4>3
    <3>2. QED BY <2>5, <3>1
  <2>7. Append(over, new) = [k \in 1..c |-> IF k = c THEN new ELSE over[k]]
    <3>1. over \in Seq(Range(over) \cup {new})
      BY <1>4
    <3>2. DOMAIN Append(over, new) = 1..c /\ \A k \in 1..c : Append(over, new)[k] = IF k = c THEN new ELSE over[k]
      <4>1. Len(Append(over, new)) = c
        BY <1>0, <1>4, <3>1
      <4>2. QED BY <1>0, <1>4, <3>1, <4>1
    <3>3. Append(over, new) = [k \in DOMAIN Append(over, new) |-> Append(over, new)[k]]
      <4>1. Append(over, new) \in Seq(Range(over) \cup {new})
        BY <3>1
      <4>2. QED BY <4>1, SequenceIsFunction
    <3> DEFINE longer == Append(over, new)
    <3>4. DOMAIN longer = 1..c /\ longer = [k \in DOMAIN longer |-> longer[k]]
          /\ \A k \in 1..c : longer[k] = IF k = c THEN new ELSE over[k]
      BY <3>2, <3>3
    <3> HIDE DEF longer
    <3>5. longer = [k \in 1..c |-> IF k = c THEN new ELSE over[k]]
      BY <3>4
    <3>6. QED BY <3>5 DEF longer
  <2>8. Closed(more) = [k \in 1..c |-> Closed(more)[k]]
    BY <2>5
  <2>9. Closed(more) = Append(over, new)
    BY <2>6, <2>7, <2>8
  <2>10. QED BY <1>4, <1>5, <2>9 DEF more, n, c, over, new
<1>6. CASE Bucket(tick.at) = Bucket(ticks[n].at)
  <2>1. Cardinality(Starts(more)) = c
    BY <1>6, StartsOfMore
  <2>2. Closed(more) = [k \in 1..(c - 1) |-> Cut(more, Start(more, k), Start(more, k + 1) - 1)]
    BY <2>1 DEF Closed
  <2>3. Closed(more) = over
    <3> HIDE DEF more, n, c
    <3>1. QED BY <1>2, <1>3, <2>2 DEF over
  <2>4. QED BY <1>4, <1>6, <2>3
<1>7. QED BY <1>5, <1>6

\* Two sequences with the same elements are the same.
LEMMA SameSequence ==
  ASSUME NEW S, NEW s \in Seq(S), NEW t \in Seq(S), Len(s) = Len(t), \A i \in 1..Len(s) : s[i] = t[i]
  PROVE  s = t
OBVIOUS

\* A full history drops its oldest candle: it is always the newest ones.
LEMMA HistoryKept ==
  ASSUME NEW S, NEW s \in Seq(S), NEW x, NEW cap \in Nat \ {0}
  PROVE  Pushed(SubSeq(s, Larger(1, Len(s) - cap + 1), Len(s)), x, cap)
           = SubSeq(Append(s, x), Larger(1, Len(s) + 1 - cap + 1), Len(s) + 1)
<1> DEFINE U == S \cup {x}
<1> DEFINE n == Len(s)
<1> DEFINE m == Larger(1, n - cap + 1)
<1> DEFINE ring == SubSeq(s, m, n)
<1> DEFINE kept == SubSeq(Append(s, x), Larger(1, n + 1 - cap + 1), n + 1)
<1>0. /\ n \in Nat /\ m \in Nat \ {0} /\ m <= n + 1
      /\ n >= cap => m = n - cap + 1 /\ Larger(1, n + 1 - cap + 1) = m + 1
      /\ n < cap => m = 1 /\ Larger(1, n + 1 - cap + 1) = 1
  <2>1. n \in Nat
    OBVIOUS
  <2> HIDE DEF n
  <2>2. QED BY <2>1 DEF Larger
<1>1. /\ Append(s, x) \in Seq(U) /\ Len(Append(s, x)) = n + 1
      /\ \A i \in 1..n : Append(s, x)[i] = s[i]
      /\ Append(s, x)[n + 1] = x
      /\ s \in Seq(U) /\ \A i \in 1..n : s[i] \in U
  <2>1. s \in Seq(U)
    OBVIOUS
  <2>2. QED BY <2>1
<1> HIDE DEF U
<1>2. ring \in Seq(U) /\ Len(ring) = n - m + 1 /\ \A i \in 1..(n - m + 1) : ring[i] = s[m + i - 1]
  <2> HIDE DEF n, m
  <2>1. \A i \in m..n : s[i] \in U
    BY <1>0, <1>1
  <2>2. /\ SubSeq(s, m, n) \in Seq(U)
        /\ Len(SubSeq(s, m, n)) = IF m <= n THEN n - m + 1 ELSE 0
        /\ \A i \in 1..(n - m + 1) : SubSeq(s, m, n)[i] = s[m + i - 1]
    BY <1>0, <2>1, SubSeqProperties
  <2>3. QED BY <1>0, <2>2
<1> DEFINE from == Larger(1, n + 1 - cap + 1)
<1>3. /\ kept \in Seq(U) /\ Len(kept) = n + 1 - from + 1
      /\ \A i \in 1..(n + 1 - from + 1) : kept[i] = Append(s, x)[from + i - 1]
  <2> HIDE DEF m
  <2>1. from \in Nat \ {0} /\ from <= n + 1
    <3> HIDE DEF n, from
    <3>1. QED BY <1>0 DEF from
  <2> HIDE DEF n, from
  <2>2. \A i \in from..(n + 1) : Append(s, x)[i] \in U
    BY <1>0, <1>1, <2>1
  <2>3. from \in Int /\ n + 1 \in Int
    BY <1>0, <2>1
  <2> DEFINE more == Append(s, x)
  <2> DEFINE last == n + 1
  <2>4. \A i \in from..last : more[i] \in U
    BY <2>2
  <2>5. last \in Int
    BY <2>3
  <2> HIDE DEF more, last, kept
  <2>6. /\ SubSeq(more, from, last) \in Seq(U)
        /\ Len(SubSeq(more, from, last)) = IF from <= last THEN last - from + 1 ELSE 0
        /\ \A i \in 1..(last - from + 1) : SubSeq(more, from, last)[i] = more[from + i - 1]
    BY <2>3, <2>4, <2>5, SubSeqProperties
  <2>7. kept = SubSeq(more, from, last)
    BY DEF kept, more, last, from
  <2>8. from <= last
    BY <2>1 DEF last
  <2>9. /\ kept \in Seq(U) /\ Len(kept) = last - from + 1
        /\ \A i \in 1..(last - from + 1) : kept[i] = more[from + i - 1]
    BY <2>6, <2>7, <2>8
  <2>10. last = n + 1 /\ more = Append(s, x)
    BY DEF last, more
  <2>11. \A i \in 1..(last - from + 1) : kept[i] = Append(s, x)[from + i - 1]
    BY <2>9, <2>10
  <2>12. n + 1 - from + 1 = last - from + 1
    BY <1>0, <2>1, <2>10
  <2>13. QED BY <2>9, <2>11, <2>12
<1>4. CASE n >= cap
  <2>1. m = n - cap + 1 /\ from = m + 1
    BY <1>0, <1>4
  <2> HIDE DEF n, m, ring, kept, from
  <2>2. Len(ring) = cap /\ Len(kept) = cap
    BY <1>0, <1>2, <1>3, <2>1
  <2>3. ring # << >>
    BY <2>2
  <2>4. Tail(ring) \in Seq(U) /\ Len(Tail(ring)) = cap - 1 /\ \A i \in 1..(cap - 1) : Tail(ring)[i] = ring[i + 1]
    BY <1>2, <2>2, <2>3, HeadTailProperties
  <2> DEFINE next == Append(Tail(ring), x)
  <2>5. next \in Seq(U) /\ Len(next) = cap /\ next[cap] = x /\ \A i \in 1..(cap - 1) : next[i] = Tail(ring)[i]
    BY <2>4 DEF U
  <2>6. ASSUME NEW i \in 1..cap PROVE next[i] = kept[i]
    <3>1. kept[i] = Append(s, x)[m + i]
      <4>1. n + 1 - from + 1 = cap /\ from + i - 1 = m + i
        BY <1>0, <2>1
      <4>2. QED BY <1>3, <4>1
    <3>2. CASE i = cap
      <4>1. m + i = n + 1
        BY <1>0, <2>1, <3>2
      <4>2. QED BY <1>1, <2>5, <3>1, <3>2, <4>1
    <3>3. CASE i # cap
      <4>1. i \in 1..(cap - 1) /\ i + 1 \in 1..(n - m + 1) /\ m + (i + 1) - 1 = m + i /\ m + i \in 1..n
        BY <1>0, <2>1, <3>3
      <4>2. next[i] = s[m + i]
        BY <1>2, <2>4, <2>5, <4>1
      <4>3. QED BY <1>1, <3>1, <4>1, <4>2
    <3>4. QED BY <3>2, <3>3
  <2>7. next = kept
    <3> HIDE DEF next
    <3>1. QED BY <1>3, <2>2, <2>5, <2>6, SameSequence
  <2>8. Pushed(ring, x, cap) = next
    BY <2>2 DEF Pushed
  <2>9. QED BY <2>7, <2>8 DEF ring, kept, m, n
<1>5. CASE n < cap
  <2>1. m = 1 /\ from = 1
    BY <1>0, <1>5
  <2> HIDE DEF n, m, ring, kept, from
  <2>2. Len(ring) = n /\ Len(kept) = n + 1
    BY <1>0, <1>2, <1>3, <2>1
  <2> DEFINE next == Append(ring, x)
  <2>3. next \in Seq(U) /\ Len(next) = n + 1 /\ next[n + 1] = x /\ \A i \in 1..n : next[i] = ring[i]
    BY <1>2, <2>2 DEF U
  <2>4. ASSUME NEW i \in 1..(n + 1) PROVE next[i] = kept[i]
    <3>1. kept[i] = Append(s, x)[i]
      <4>1. n + 1 - from + 1 = n + 1 /\ from + i - 1 = i
        BY <1>0, <2>1
      <4>2. QED BY <1>3, <4>1
    <3>2. CASE i = n + 1
      BY <1>1, <2>3, <3>1, <3>2
    <3>3. CASE i # n + 1
      <4>1. i \in 1..n /\ m + i - 1 = i /\ n - m + 1 = n
        BY <1>0, <2>1, <3>3
      <4>2. QED BY <1>1, <1>2, <2>3, <3>1, <4>1
    <3>4. QED BY <3>2, <3>3
  <2>5. next = kept
    <3> HIDE DEF next
    <3>1. QED BY <1>0, <1>3, <2>2, <2>3, <2>4, SameSequence
  <2>6. Pushed(ring, x, cap) = next
    BY <1>0, <1>5, <2>2 DEF Pushed
  <2>7. QED BY <2>5, <2>6 DEF ring, kept, m, n
<1>6. QED BY <1>0, <1>4, <1>5

\* A tick takes the candles, the two averages' and the RSI's counts where a look at all of
\* them would find them.
LEMMA MatchesStep ==
  ASSUME NEW ticks \in Seq(Ticks), ticks # << >>, Orderly(ticks), NEW st, Matches(st, ticks), NEW tick \in Ticks
  PROVE  Matches(CompositeUpdate(st, tick), Append(ticks, tick))
<1> DEFINE more == Append(ticks, tick)
<1> DEFINE n == Len(ticks)
<1> DEFINE c == Cardinality(Starts(ticks))
<1> DEFINE over == Closed(ticks)
<1> DEFINE next == CompositeUpdate(st, tick)
<1> DEFINE candle == Cut(ticks, Start(ticks, c), n)
<1>0. /\ n \in Nat \ {0} /\ c \in Nat \ {0} /\ Len(more) = n + 1
      /\ \A i \in 1..n : more[i] = ticks[i]
      /\ more[n + 1] = tick
  <2>1. c \in Nat /\ c > 0
    BY StartsAreAFew
  <2> HIDE DEF c
  <2>2. QED BY <2>1
<1>1. c - 1 + 1 = c
  <2> HIDE DEF c
  <2>1. QED BY <1>0
<1>2. /\ st.agg = [current |-> <<candle>>, closed |-> SubSeq(over, Larger(1, c - 1 - HistoryCap + 1), c - 1)]
      /\ st.agg.current = <<candle>>
      /\ st.agg.closed = SubSeq(over, Larger(1, c - 1 - HistoryCap + 1), c - 1)
      /\ st.fast.count = c - 1 /\ st.slow.count = c - 1
      /\ IF c - 1 = 0 THEN st.rsi = NoRsi ELSE st.rsi.count = c - 1 - 1 /\ st.rsi.last = <<over[c - 1].close>>
  <2>1. /\ st.agg = [current |-> <<candle>>, closed |-> SubSeq(over, Larger(1, c - 1 - HistoryCap + 1), c - 1)]
        /\ st.fast.count = c - 1 /\ st.slow.count = c - 1
        /\ IF c - 1 = 0 THEN st.rsi = NoRsi ELSE st.rsi.count = c - 1 - 1 /\ st.rsi.last = <<over[c - 1].close>>
    BY <1>1 DEF Matches
  <2> HIDE DEF candle, over, c
  <2>2. st.agg.current = <<candle>> /\ st.agg.closed = SubSeq(over, Larger(1, c - 1 - HistoryCap + 1), c - 1)
    <3> DEFINE now == <<candle>>
    <3> DEFINE kept == SubSeq(over, Larger(1, c - 1 - HistoryCap + 1), c - 1)
    <3>1. st.agg = [current |-> now, closed |-> kept]
      BY <2>1
    <3> HIDE DEF now, kept
    <3>2. st.agg.current = now /\ st.agg.closed = kept
      BY <3>1
    <3>3. QED BY <3>2 DEF now, kept
  <2>3. QED BY <2>1, <2>2
<1>3. over \in Seq(Range(over)) /\ Len(over) = c - 1
  BY ClosedOfMore
<1>4. /\ Start(ticks, c) \in 1..n /\ Start(more, c) = Start(ticks, c)
      /\ Bucket(ticks[Start(ticks, c)].at) = Bucket(ticks[n].at)
  <2>1. c \in 1..c
    <3> HIDE DEF c
    <3>1. QED BY <1>0
  <2>2. QED BY <2>1, StartStays DEF Orderly
<1> DEFINE closes == ClosesCandle(st.agg, tick.at)
<1> DEFINE close == st.agg.current[1].close
<1>5. next = [agg |-> OnTick(st.agg, tick.price, tick.at),
              fast |-> IF closes THEN EmaUpdate(st.fast, close, FastPeriod) ELSE st.fast,
              slow |-> IF closes THEN EmaUpdate(st.slow, close, SlowPeriod) ELSE st.slow,
              rsi |-> IF closes THEN RsiUpdate(st.rsi, close) ELSE st.rsi,
              trend |-> Pushed(st.trend, tick.price, TrendWindow)]
  BY DEF CompositeUpdate
<1>6. candle.bucket = Bucket(ticks[n].at) /\ close = candle.close
  BY <1>2, <1>4 DEF Cut
<1>7. closes <=> Bucket(tick.at) # Bucket(ticks[n].at)
  <2>1. st.agg.current # << >> /\ st.agg.current[1] = candle
    BY <1>2
  <2> HIDE DEF candle
  <2>2. QED BY <1>6, <2>1 DEF ClosesCandle
<1>8. CASE Bucket(tick.at) # Bucket(ticks[n].at)
  <2>1. Cardinality(Starts(more)) = c + 1 /\ Start(more, c + 1) = n + 1
    BY <1>8, NextStart
  <2>2. Closed(more) = Append(over, candle)
    BY <1>8, ClosedOfMore
  <2>3. next.agg = [current |-> <<Fresh(tick.price, tick.at)>>,
                    closed |-> Pushed(st.agg.closed, candle, HistoryCap)]
    <3>1. st.agg.current[1] = candle
      BY <1>2
    <3> HIDE DEF candle, closes
    <3>2. QED BY <1>5, <1>7, <1>8, <3>1 DEF OnTick, closes
  <2>4. Fresh(tick.price, tick.at) = Cut(more, Start(more, c + 1), n + 1)
    BY <1>0, <2>1 DEF Fresh, Cut
  <2>5. Pushed(st.agg.closed, candle, HistoryCap) = SubSeq(Closed(more), Larger(1, c - HistoryCap + 1), c)
    <3> HIDE DEF candle, c, over
    <3>1. HistoryCap \in Nat \ {0}
      BY IndicatorsAssumption
    <3>2. Pushed(SubSeq(over, Larger(1, Len(over) - HistoryCap + 1), Len(over)), candle, HistoryCap)
            = SubSeq(Append(over, candle), Larger(1, Len(over) + 1 - HistoryCap + 1), Len(over) + 1)
      BY <1>3, <3>1, HistoryKept
    <3>3. Len(over) + 1 = c /\ Len(over) = c - 1
      BY <1>0, <1>3
    <3>4. /\ Larger(1, Len(over) - HistoryCap + 1) = Larger(1, c - 1 - HistoryCap + 1)
          /\ Larger(1, Len(over) + 1 - HistoryCap + 1) = Larger(1, c - HistoryCap + 1)
      BY <1>0, <3>1, <3>3
    <3>5. Pushed(st.agg.closed, candle, HistoryCap) = SubSeq(Append(over, candle), Larger(1, c - HistoryCap + 1), c)
      BY <1>2, <3>2, <3>3, <3>4
    <3>6. QED BY <2>2, <3>5
  <2>6. next.fast.count = c /\ next.slow.count = c
    <3>1. next.fast = EmaUpdate(st.fast, close, FastPeriod) /\ next.slow = EmaUpdate(st.slow, close, SlowPeriod)
      BY <1>5, <1>7, <1>8
    <3> HIDE DEF c, close, next
    <3>2. QED BY <1>0, <1>2, <3>1 DEF EmaUpdate
  <2>7. Closed(more)[c].close = close
    <3>1. Append(over, candle)[c] = candle
      <4> HIDE DEF candle, c, over
      <4>1. over \in Seq(Range(over) \cup {candle}) /\ c = Len(over) + 1
        BY <1>0, <1>3
      <4>2. QED BY <4>1
    <3>2. QED BY <1>6, <2>2, <3>1
  <2>8. next.rsi.count = c - 1 /\ next.rsi.last = <<close>>
    <3>1. next.rsi = RsiUpdate(st.rsi, close)
      BY <1>5, <1>7, <1>8
    <3> HIDE DEF c, close, next, over
    <3>2. CASE c - 1 = 0
      <4>1. st.rsi = NoRsi
        BY <1>2, <3>2
      <4>2. RsiUpdate(NoRsi, close) = [NoRsi EXCEPT !.last = <<close>>]
        BY DEF RsiUpdate, NoRsi
      <4>3. QED BY <3>1, <3>2, <4>1, <4>2 DEF NoRsi
    <3>3. CASE c - 1 # 0
      <4>0. st.rsi.count = c - 1 - 1 /\ st.rsi.last = <<over[c - 1].close>>
        BY <1>2, <3>3, Zenon
      <4>1. st.rsi.last # << >> /\ st.rsi.count = c - 1 - 1
        BY <4>0
      <4>2. next.rsi.count = st.rsi.count + 1 /\ next.rsi.last = <<close>>
        BY <3>1, <4>1 DEF RsiUpdate
      <4>3. QED BY <1>0, <4>1, <4>2
    <3>4. QED BY <3>2, <3>3
  <2>9. c + 1 - 1 = c /\ c # 0
    <3> HIDE DEF c
    <3>1. QED BY <1>0
  <2> HIDE DEF more, n, c, over, next, candle, closes, close
  <2>10. next.agg = [current |-> <<Cut(more, Start(more, c + 1), n + 1)>>,
                     closed |-> SubSeq(Closed(more), Larger(1, c - HistoryCap + 1), c)]
    BY <2>3, <2>4, <2>5
  <2>11. Matches(next, more)
    BY <1>0, <2>1, <2>6, <2>7, <2>8, <2>9, <2>10 DEF Matches
  <2>12. QED BY <2>11 DEF next, more
<1>9. CASE Bucket(tick.at) = Bucket(ticks[n].at)
  <2>1. Cardinality(Starts(more)) = c
    BY <1>9, StartsOfMore
  <2>2. Closed(more) = over
    BY <1>9, ClosedOfMore
  <2>3. next.agg = [current |-> <<[candle EXCEPT !.close = tick.price]>>, closed |-> st.agg.closed]
    <3>1. st.agg.current = <<candle>>
      BY <1>2
    <3> HIDE DEF candle, closes
    <3>2. OnTick(st.agg, tick.price, tick.at) = [st.agg EXCEPT !.current = <<[candle EXCEPT !.close = tick.price]>>]
      BY <1>7, <1>9, <3>1 DEF OnTick, closes
    <3> DEFINE longer == <<[candle EXCEPT !.close = tick.price]>>
    <3>3. [st.agg EXCEPT !.current = longer] = [current |-> longer, closed |-> st.agg.closed]
      <4> DEFINE now == <<candle>>
      <4> DEFINE kept == SubSeq(over, Larger(1, c - 1 - HistoryCap + 1), c - 1)
      <4>1. st.agg = [current |-> now, closed |-> kept]
        BY <1>2
      <4> HIDE DEF now, kept, longer, next
      <4>2. QED BY <4>1
    <3>4. next.agg = OnTick(st.agg, tick.price, tick.at)
      BY <1>5
    <3> HIDE DEF next
    <3>5. QED BY <3>2, <3>3, <3>4
  <2>4. [candle EXCEPT !.close = tick.price] = Cut(more, Start(more, c), n + 1)
    <3>1. more[Start(more, c)] = ticks[Start(ticks, c)] /\ more[n + 1] = tick
      BY <1>0, <1>4
    <3>2. QED BY <3>1 DEF Cut
  <2>5. next.fast = st.fast /\ next.slow = st.slow /\ next.rsi = st.rsi
    BY <1>5, <1>7, <1>9
  <2> HIDE DEF more, n, c, over, next, candle, closes, close
  <2>6. next.agg = [current |-> <<Cut(more, Start(more, c), n + 1)>>,
                    closed |-> SubSeq(over, Larger(1, c - 1 - HistoryCap + 1), c - 1)]
    BY <1>2, <2>3, <2>4
  <2>7. Matches(next, more)
    BY <1>0, <1>1, <1>2, <2>1, <2>2, <2>5, <2>6 DEF Matches
  <2>8. QED BY <2>7 DEF next, more
<1>10. QED BY <1>8, <1>9

\* The first tick opens the first candle.
LEMMA FirstTick ==
  ASSUME NEW tick \in Ticks
  PROVE  Orderly(<<tick>>) /\ Matches(CompositeUpdate(NoComposite, tick), <<tick>>)
<1> DEFINE next == CompositeUpdate(NoComposite, tick)
<1>1. Starts(<<tick>>) = {1}
  BY DEF Starts
<1>2. Cardinality(Starts(<<tick>>)) = 1
  BY <1>1, FS_Singleton
<1>3. Ranked(<<tick>>, 1) = {1}
  <2>1. {j \in Starts(<<tick>>) : j <= 1} = {1}
    BY <1>1
  <2>2. QED BY <1>1, <2>1, FS_Singleton DEF Ranked
<1>4. Start(<<tick>>, 1) = 1
  BY <1>3 DEF Start
<1>5. Orderly(<<tick>>)
  BY <1>2, <1>4 DEF Orderly
<1>6. ~ClosesCandle(NoCandles, tick.at)
  BY DEF ClosesCandle, NoCandles
<1>7. OnTick(NoCandles, tick.price, tick.at) = [current |-> <<Fresh(tick.price, tick.at)>>, closed |-> << >>]
  BY <1>6 DEF OnTick, NoCandles
<1>8. /\ next.agg = [current |-> <<Fresh(tick.price, tick.at)>>, closed |-> << >>]
      /\ next.fast = NoEma /\ next.slow = NoEma /\ next.rsi = NoRsi
  BY <1>6, <1>7 DEF CompositeUpdate, NoComposite
<1>9. Fresh(tick.price, tick.at) = Cut(<<tick>>, 1, 1)
  BY DEF Fresh, Cut
<1>10. SubSeq(Closed(<<tick>>), Larger(1, 0 - HistoryCap + 1), 0) = << >>
  <2>1. Larger(1, 0 - HistoryCap + 1) \in Int /\ 0 < Larger(1, 0 - HistoryCap + 1)
    BY IndicatorsAssumption DEF Larger
  <2>2. QED BY <2>1, SubSeqEmpty
<1> HIDE DEF next
<1>11. Matches(next, <<tick>>)
  <2>1. Cardinality(Starts(<<tick>>)) - 1 = 0 /\ 0 + 1 = 1 /\ Len(<<tick>>) = 1
    BY <1>2
  <2>2. next.fast.count = 0 /\ next.slow.count = 0
    BY <1>8 DEF NoEma
  <2>3. next.agg = [current |-> <<Cut(<<tick>>, Start(<<tick>>, 0 + 1), Len(<<tick>>))>>,
                    closed |-> SubSeq(Closed(<<tick>>), Larger(1, 0 - HistoryCap + 1), 0)]
    <3>1. Start(<<tick>>, 0 + 1) = 1
      BY <1>4
    <3>2. QED BY <1>8, <1>9, <1>10, <2>1, <3>1
  <2>4. QED BY <1>8, <2>1, <2>2, <2>3 DEF Matches
<1>12. QED BY <1>5, <1>11 DEF next

LEMMA CandleStep == TypeOK /\ Shaped /\ CandleInv /\ [Next]_vars => CandleInv'
<1> SUFFICES ASSUME TypeOK, Shaped, CandleInv, [Next]_vars, strategy' = "composite"
             PROVE  IF seen' = << >> THEN memory'.composite = NoComposite
                    ELSE Orderly(seen') /\ Matches(memory'.composite, seen')
  BY DEF CandleInv
<1>0. /\ strategy = "composite" /\ seen \in Seq(Ticks)
      /\ IF seen = << >> THEN memory.composite = NoComposite
         ELSE Orderly(seen) /\ Matches(memory.composite, seen)
  BY MemoryStep DEF TypeOK, CandleInv
<1>1. ASSUME NEW price \in Prices, NEW t \in Nat,
             Usable(strategy, [price |-> price, at |-> t], Strike),
             seen' = Append(seen, [price |-> price, at |-> t]),
             memory' = Remembered(strategy, memory, [price |-> price, at |-> t], Strike,
                                  Secs([price |-> price, at |-> t]))
      PROVE  IF seen' = << >> THEN memory'.composite = NoComposite
             ELSE Orderly(seen') /\ Matches(memory'.composite, seen')
  <2> DEFINE tick == [price |-> price, at |-> t]
  <2>1. tick \in Ticks
    BY DEF Ticks
  <2>2. memory' = [memory EXCEPT !.composite = CompositeUpdate(memory.composite, tick)]
    BY <1>0, <1>1 DEF Remembered
  <2>3. memory'.composite = CompositeUpdate(memory.composite, tick)
    BY <2>2 DEF Shaped
  <2>4. seen' = Append(seen, tick)
    BY <1>1
  <2> HIDE DEF tick
  <2>5. seen' # << >>
    BY <1>0, <2>1, <2>4
  <2>6. CASE seen = << >>
    <3>1. seen' = <<tick>>
      BY <2>4, <2>6
    <3>2. memory'.composite = CompositeUpdate(NoComposite, tick)
      BY <1>0, <2>3, <2>6
    <3>3. QED BY <2>1, <2>5, <3>1, <3>2, FirstTick
  <2>7. CASE seen # << >>
    <3>1. Orderly(seen) /\ Matches(memory.composite, seen)
      BY <1>0, <2>7
    <3>2. Orderly(Append(seen, tick))
      BY <1>0, <2>1, <2>7, <3>1, OrderlyStep
    <3>3. Matches(CompositeUpdate(memory.composite, tick), Append(seen, tick))
      BY <1>0, <2>1, <2>7, <3>1, MatchesStep
    <3>4. QED BY <2>3, <2>4, <2>5, <3>2, <3>3
  <2>8. QED BY <2>6, <2>7
<1>2. QED BY <1>0, <1>1, MemoryStep

\* Whatever the bucket and the history of the aggregator are, and however the ticks are
\* spread, with gaps over many buckets: what CandleAggregator keeps, and how often the averages
\* and the RSI were fed, is what a look at every tick so far would find (candle.rs 53-101,
\* composite.rs 162-166).
THEOREM CandlesAreOfTicks == Spec => []CandlesMatchTicks
<1>1. Init => Shaped /\ CandleInv
  BY StillInit DEF Init, CandleInv, NoMemory
<1>2. TypeOK /\ Shaped /\ [Next]_vars => Shaped'
  BY MemoryStep
<1>3. ASSUME TypeOK, CandleInv PROVE CandlesMatchTicks
  <2> SUFFICES ASSUME strategy = "composite", seen # << >> PROVE CandlesMatchTicks
    BY DEF CandlesMatchTicks
  <2>1. seen \in Seq(Ticks) /\ Matches(memory.composite, seen)
    BY <1>3 DEF TypeOK, CandleInv
  <2> DEFINE c == Cardinality(Starts(seen))
  <2>2. c \in Nat /\ c > 0
    BY <2>1, StartsAreAFew
  <2> HIDE DEF c
  <2>3. c - 1 > 0 => c - 1 # 0
    BY <2>2
  <2> DEFINE st == memory.composite
  <2> DEFINE over == Closed(seen)
  <2>4. /\ st.agg = [current |-> <<Cut(seen, Start(seen, c - 1 + 1), Len(seen))>>,
                    closed |-> SubSeq(over, Larger(1, c - 1 - HistoryCap + 1), c - 1)]
        /\ st.fast.count = c - 1 /\ st.slow.count = c - 1
        /\ c - 1 # 0 => st.rsi.count = c - 1 - 1 /\ st.rsi.last = <<over[c - 1].close>>
    BY <2>1 DEF Matches, c
  <2> HIDE DEF over, st
  <2>5. /\ st.agg.current = <<Cut(seen, Start(seen, c - 1 + 1), Len(seen))>>
        /\ st.agg.closed = SubSeq(over, Larger(1, c - 1 - HistoryCap + 1), c - 1)
    <3> DEFINE now == <<Cut(seen, Start(seen, c - 1 + 1), Len(seen))>>
    <3> DEFINE kept == SubSeq(over, Larger(1, c - 1 - HistoryCap + 1), c - 1)
    <3>1. st.agg = [current |-> now, closed |-> kept]
      BY <2>4
    <3> HIDE DEF now, kept
    <3>2. st.agg.current = now /\ st.agg.closed = kept
      BY <3>1
    <3>3. QED BY <3>2 DEF now, kept
  <2>6. c - 1 > 0 => st.rsi.count = c - 1 - 1 /\ st.rsi.last = <<over[c - 1].close>>
    BY <2>3, <2>4
  <2>7. QED BY <2>4, <2>5, <2>6 DEF CandlesMatchTicks, c, st, over
<1>4. QED BY <1>1, <1>2, <1>3, CandleStep, TypeCorrect, PTL DEF Spec

-----------------------------------------------------------------------------
(* The other side of the strike. *)

\* A composite strategy's state, and one that has seen the mirror image of its ticks.
AnyCandles == [bucket : Int, open : Int, close : Int]
AnyEmas == [num : Int, den : Nat \ {0}, count : Nat]
AnyRsis == [gain : Nat, loss : Nat, den : Nat, last : {<< >>} \cup {<<x>> : x \in Int}, count : Nat]
Composites == [agg : [current : Seq(AnyCandles), closed : Seq(AnyCandles)],
               fast : AnyEmas, slow : AnyEmas, rsi : AnyRsis, trend : Seq(Int)]

Flip(x) == 2 * Strike - x

OpposedCandles(cs, ds) ==
  /\ Len(ds) = Len(cs)
  /\ \A i \in 1..Len(cs) : /\ ds[i].bucket = cs[i].bucket
                           /\ ds[i].open = Flip(cs[i].open) /\ ds[i].close = Flip(cs[i].close)
OpposedEmas(e, f) ==
  f.den = e.den /\ f.count = e.count /\ (e.count # 0 => f.num = 2 * Strike * e.den - e.num)
OpposedRsis(r, s) ==
  /\ s.gain = r.loss /\ s.loss = r.gain /\ s.den = r.den /\ s.count = r.count
  /\ IF r.last = << >> THEN s.last = << >> ELSE s.last = <<Flip(r.last[1])>>
OpposedPrices(ps, qs) == Len(qs) = Len(ps) /\ \A i \in 1..Len(ps) : qs[i] = Flip(ps[i])

Opposed(a, b) ==
  /\ OpposedCandles(a.agg.current, b.agg.current) /\ OpposedCandles(a.agg.closed, b.agg.closed)
  /\ OpposedEmas(a.fast, b.fast) /\ OpposedEmas(a.slow, b.slow)
  /\ OpposedRsis(a.rsi, b.rsi) /\ OpposedPrices(a.trend, b.trend)

\* A set of naturals has a least element.
LEMMA LeastIndex ==
  ASSUME NEW S, S \subseteq Nat, S # {}
  PROVE  \E x \in S : \A y \in S : x <= y
<1> DEFINE Below == {ss \in Nat \X Nat : ss[1] < ss[2]}
<1>1. IsWellFoundedOn(Below, Nat)
  BY NatLessThanWellFounded DEF OpToRel
<1>2. PICK x \in S : \A y \in S : ~ (<<y, x>> \in Below)
  <2> HIDE DEF Below
  <2>1. QED BY <1>1, WFMin
<1>3. ASSUME NEW y \in S PROVE x <= y
  <2>1. x \in Nat /\ y \in Nat OBVIOUS
  <2>2. <<y, x>> \in Nat \X Nat BY <2>1
  <2>3. ~ (y < x) BY <1>2, <2>2
  <2>4. QED BY <2>1, <2>3
<1>4. QED BY <1>3

LEMMA StrikeIsInt == Strike \in Int /\ \A x \in Int : Flip(x) \in Int /\ Flip(Flip(x)) = x
BY DecisionAssumption DEF Flip

LEMMA SignTyped == ASSUME NEW x \in Int PROVE Sign(x) \in Int /\ Magnitude(x) \in Nat
<1>1. PICK m \in Int : m = -x
  BY Negation
<1>2. PICK one \in Int : one = -1
  OBVIOUS
<1>3. m = 0 - x
  BY <1>1, Negation
<1>4. Sign(x) \in Int
  BY <1>2 DEF Sign
<1>5. Magnitude(x) \in Nat
  BY <1>1, <1>3 DEF Magnitude
<1>6. QED BY <1>4, <1>5

LEMMA SignOfOpposite ==
  ASSUME NEW x \in Int, NEW y \in Int, y = 0 - x
  PROVE  Sign(y) = 0 - Sign(x) /\ Magnitude(y) = Magnitude(x)
<1>1. PICK m \in Int, k \in Int : m = -x /\ m = 0 - x /\ k = -y /\ k = 0 - y
  BY Negation
<1>2. PICK one \in Int : one = -1 /\ one = 0 - 1
  OBVIOUS
<1>3. Sign(y) = 0 - Sign(x)
  BY <1>2 DEF Sign
<1>4. Magnitude(y) = Magnitude(x)
  BY <1>1 DEF Magnitude
<1>5. QED BY <1>3, <1>4

-----------------------------------------------------------------------------
(* Each signal takes the other sign. *)

\* How much a distance m from the strike weighs, whichever side it is on.
Weight(m) ==
  LET reached == {i \in DOMAIN Tiers : m * 100000 > Tiers[i].over * Strike}
      first == CHOOSE i \in reached : \A j \in reached : i <= j
  IN IF reached = {} THEN 0 ELSE Tiers[first].weight

LEMMA WindowIsWeighed ==
  ASSUME NEW p \in Int, NEW d \in Int, d = p - Strike
  PROVE  /\ Weight(Magnitude(d)) \in Int
         /\ WindowDelta(p, Strike) = Sign(d) * Weight(Magnitude(d))
<1> DEFINE m == Magnitude(d)
<1> DEFINE reached == {i \in DOMAIN Tiers : m * 100000 > Tiers[i].over * Strike}
<1> DEFINE first == CHOOSE i \in reached : \A j \in reached : i <= j
<1>1. Sign(d) \in Int
  BY SignTyped
<1>2. Weight(m) = IF reached = {} THEN 0 ELSE Tiers[first].weight
  BY DEF Weight
<1>3. WindowDelta(p, Strike) = IF reached = {} THEN 0 ELSE Sign(d) * Tiers[first].weight
  BY DEF WindowDelta
<1>4. \A i \in DOMAIN Tiers : Tiers[i].weight \in Int
  BY DEF Tiers
<1>5. DOMAIN Tiers \subseteq Nat
  BY DEF Tiers
<1>6. CASE reached = {}
  BY <1>1, <1>2, <1>3, <1>6
<1>7. CASE reached # {}
  <2>1. reached \subseteq Nat /\ reached \subseteq DOMAIN Tiers
    BY <1>5
  <2>2. \E i \in reached : \A j \in reached : i <= j
    <3> HIDE DEF reached
    <3>1. QED BY <1>7, <2>1, LeastIndex
  <2>3. first \in reached
    <3> HIDE DEF reached
    <3>1. QED BY <2>2
  <2>4. Tiers[first].weight \in Int
    BY <1>4, <2>1, <2>3
  <2>5. QED BY <1>1, <1>2, <1>3, <1>7, <2>4
<1>8. QED BY <1>6, <1>7

LEMMA WindowOpposed ==
  ASSUME NEW p \in Int
  PROVE  WindowDelta(p, Strike) \in Int /\ WindowDelta(Flip(p), Strike) = 0 - WindowDelta(p, Strike)
<1>1. PICK d \in Int, e \in Int : d = p - Strike /\ e = Flip(p) - Strike /\ e = 0 - d
  BY StrikeIsInt DEF Flip
<1>2. Flip(p) \in Int
  BY StrikeIsInt
<1>3. /\ WindowDelta(p, Strike) = Sign(d) * Weight(Magnitude(d))
      /\ WindowDelta(Flip(p), Strike) = Sign(e) * Weight(Magnitude(e))
      /\ Weight(Magnitude(d)) \in Int
  BY <1>1, <1>2, WindowIsWeighed
<1>4. Sign(e) = 0 - Sign(d) /\ Magnitude(e) = Magnitude(d) /\ Sign(d) \in Int
  BY <1>1, SignOfOpposite, SignTyped
<1>5. PICK w \in Int, s \in Int : w = Weight(Magnitude(d)) /\ s = Sign(d)
  BY <1>3, <1>4
<1>6. (0 - s) * w = 0 - s * w /\ s * w \in Int
  OBVIOUS
<1>7. QED BY <1>3, <1>4, <1>5, <1>6

LEMMA CrossoverOpposed ==
  ASSUME NEW e \in AnyEmas, NEW g \in AnyEmas, NEW f \in AnyEmas, NEW h \in AnyEmas,
         OpposedEmas(e, f), OpposedEmas(g, h)
  PROVE  CrossoverSign(e, g) \in Int /\ CrossoverSign(f, h) = 0 - CrossoverSign(e, g)
<1>0. FastPeriod \in Nat \ {0} /\ SlowPeriod \in Nat \ {0}
  BY IndicatorsAssumption
<1>1. e.count \in Nat /\ g.count \in Nat /\ f.count = e.count /\ h.count = g.count
  BY DEF AnyEmas, OpposedEmas
<1>2. CASE e.count < FastPeriod \/ g.count < SlowPeriod
  BY <1>1, <1>2 DEF CrossoverSign
<1>3. CASE ~(e.count < FastPeriod \/ g.count < SlowPeriod)
  <2>1. e.count # 0 /\ g.count # 0
    BY <1>0, <1>1, <1>3
  <2>2. PICK en \in Int, ed \in Int, gn \in Int, gd \in Int, k \in Int :
          /\ en = e.num /\ ed = e.den /\ gn = g.num /\ gd = g.den /\ k = 2 * Strike
          /\ f.den = ed /\ h.den = gd /\ f.num = k * ed - en /\ h.num = k * gd - gn
    BY <2>1, StrikeIsInt DEF AnyEmas, OpposedEmas
  <2>3. PICK x \in Int, y \in Int : x = en * gd - gn * ed /\ y = (k * ed - en) * gd - (k * gd - gn) * ed
    OBVIOUS
  <2>4. y = 0 - x
    BY <2>3
  <2>5. CrossoverSign(e, g) = Sign(x) /\ CrossoverSign(f, h) = Sign(y)
    BY <1>1, <1>3, <2>2, <2>3 DEF CrossoverSign
  <2>6. QED BY <2>4, <2>5, SignOfOpposite, SignTyped
<1>4. QED BY <1>2, <1>3

LEMMA VoteOpposed ==
  ASSUME NEW r \in AnyRsis, NEW s \in AnyRsis, OpposedRsis(r, s),
         ~(RsiWarm(r) /\ r.gain = 0 /\ r.loss = 0)
  PROVE  RsiVote(r) \in Int /\ RsiVote(s) = 0 - RsiVote(r)
<1>1. /\ r.gain \in Nat /\ r.loss \in Nat /\ s.gain = r.loss /\ s.loss = r.gain
      /\ RsiWarm(s) <=> RsiWarm(r)
  BY DEF AnyRsis, OpposedRsis, RsiWarm
<1>2. /\ Overbought(s) <=> Oversold(r)
      /\ Oversold(s) <=> Overbought(r)
      /\ ~(Overbought(r) /\ Oversold(r))
  BY <1>1 DEF Overbought, Oversold
<1>3. PICK m \in Int : m = -4 /\ m = 0 - 4
  OBVIOUS
<1>4. QED BY <1>2, <1>3 DEF RsiVote

\* Candles: their bodies are opposite.
LEMMA BodiesOpposed ==
  ASSUME NEW cs \in Seq(AnyCandles), NEW ds \in Seq(AnyCandles), OpposedCandles(cs, ds), NEW i \in 1..Len(cs)
  PROVE  Body(cs[i]) \in Int /\ Body(ds[i]) = 0 - Body(cs[i])
<1>1. cs[i] \in AnyCandles
  OBVIOUS
<1>2. cs[i].open \in Int /\ cs[i].close \in Int
  BY <1>1 DEF AnyCandles
<1>3. ds[i].open = Flip(cs[i].open) /\ ds[i].close = Flip(cs[i].close)
  BY DEF OpposedCandles
<1>4. QED BY <1>2, <1>3, StrikeIsInt DEF Body, Flip

LEMMA MomentumOpposed ==
  ASSUME NEW cs \in Seq(AnyCandles), NEW ds \in Seq(AnyCandles), OpposedCandles(cs, ds)
  PROVE  MicroMomentum(cs) \in Int /\ MicroMomentum(ds) = 0 - MicroMomentum(cs)
<1>1. Len(cs) \in Nat /\ Len(ds) = Len(cs)
  BY DEF OpposedCandles
<1>2. CASE Len(cs) < 2
  BY <1>1, <1>2 DEF MicroMomentum
<1>3. CASE ~(Len(cs) < 2)
  <2>1. Len(cs) \in 1..Len(cs) /\ Len(cs) - 1 \in 1..Len(cs)
    BY <1>1, <1>3
  <2>2. PICK a \in Int, b \in Int : a = Body(cs[Len(cs)]) /\ b = Body(cs[Len(cs) - 1])
                                    /\ Body(ds[Len(cs)]) = 0 - a /\ Body(ds[Len(cs) - 1]) = 0 - b
    BY <2>1, BodiesOpposed
  <2>3. PICK x \in Int, y \in Int : x = a + b /\ y = (0 - a) + (0 - b) /\ y = 0 - x
    OBVIOUS
  <2>4. MicroMomentum(cs) = Sign(x) /\ MicroMomentum(ds) = Sign(y)
    BY <1>1, <1>3, <2>2, <2>3 DEF MicroMomentum
  <2>5. QED BY <2>3, <2>4, SignOfOpposite, SignTyped
<1>4. QED BY <1>2, <1>3

LEMMA AccelerationOpposed ==
  ASSUME NEW cs \in Seq(AnyCandles), NEW ds \in Seq(AnyCandles), OpposedCandles(cs, ds),
         ~(Len(cs) >= 3 /\ Body(cs[Len(cs)]) = 0)
  PROVE  Acceleration(cs) \in Int /\ Acceleration(ds) = 0 - Acceleration(cs)
<1>1. Len(cs) \in Nat /\ Len(ds) = Len(cs)
  BY DEF OpposedCandles
<1>2. CASE Len(cs) < 3
  <2>1. Len(ds) < 3
    BY <1>1, <1>2
  <2>2. Acceleration(cs) = 0 /\ Acceleration(ds) = 0
    BY <1>2, <2>1, Zenon DEF Acceleration
  <2>3. QED BY <2>2
<1>3. CASE ~(Len(cs) < 3)
  <2>1. Len(cs) \in 1..Len(cs) /\ Len(cs) - 2 \in 1..Len(cs)
    BY <1>1, <1>3
  <2>2. PICK a \in Int, b \in Int :
          /\ a = Body(cs[Len(cs)]) /\ Body(ds[Len(cs)]) = 0 - a
          /\ b = Body(cs[Len(cs) - 2]) /\ Body(ds[Len(cs) - 2]) = 0 - b
    BY <2>1, BodiesOpposed
  <2>3. PICK c \in Int, d \in Int : c = 0 - a /\ d = 0 - b
    OBVIOUS
  <2>4. /\ a = Body(cs[Len(cs)]) /\ b = Body(cs[Len(cs) - 2])
        /\ c = Body(ds[Len(cs)]) /\ d = Body(ds[Len(cs) - 2])
        /\ c = 0 - a /\ d = 0 - b
    BY <2>2, <2>3
  <2>5. a # 0
    BY <1>1, <1>3, <2>4
  <2>6. c * d = a * b
    <3>1. (0 - a) * (0 - b) = a * b
      OBVIOUS
    <3>2. QED BY <2>4, <3>1
  <2>7. Magnitude(c) = Magnitude(a) /\ Magnitude(d) = Magnitude(b)
    BY <2>4, SignOfOpposite
  <2>8. PICK one \in Int : one = -1 /\ one = 0 - 1
    OBVIOUS
  <2> DEFINE rising == IF a > 0 THEN 1 ELSE -1
  <2> DEFINE falling == IF c > 0 THEN 1 ELSE -1
  <2>9. rising \in Int /\ falling \in Int /\ falling = 0 - rising
    BY <2>4, <2>5, <2>8
  <2> DEFINE faster == a * b > 0 /\ Magnitude(a) > Magnitude(b)
  <2>10. /\ Acceleration(cs) = IF faster THEN rising ELSE -rising
        /\ Acceleration(ds) = IF c * d > 0 /\ Magnitude(c) > Magnitude(d) THEN falling ELSE -falling
    BY <1>1, <1>3, <2>4 DEF Acceleration
  <2>11. Acceleration(ds) = IF faster THEN falling ELSE -falling
    BY <2>6, <2>7, <2>10
  <2> HIDE DEF rising, falling, faster
  <2>12. PICK r \in Int, f \in Int : r = -rising /\ r = 0 - rising /\ f = -falling /\ f = 0 - falling
    BY <2>9, Negation
  <2>13. QED BY <2>9, <2>10, <2>11, <2>12
<1>4. QED BY <1>2, <1>3

LEMMA FlippedMove ==
  ASSUME NEW a \in Int, NEW b \in Int
  PROVE  \E x \in Int, y \in Int : x = a - b /\ y = Flip(a) - Flip(b) /\ y = 0 - x
<1>1. a - b \in Int /\ Flip(a) - Flip(b) \in Int /\ Flip(a) - Flip(b) = 0 - (a - b)
  BY StrikeIsInt DEF Flip
<1>2. QED BY <1>1

\* A rise of one sequence of prices is a fall of the other.
LEMMA MovesSwapped ==
  ASSUME NEW ps \in Seq(Int), NEW qs \in Seq(Int), OpposedPrices(ps, qs),
         NEW s \in Int, NEW t \in Int, t = 0 - s
  PROVE  Moves(ps, s) \in Nat /\ Moves(qs, t) = Moves(ps, s)
<1>1. Len(ps) \in Nat /\ Len(qs) = Len(ps)
  BY DEF OpposedPrices
<1>2. ASSUME NEW i \in 2..Len(ps)
      PROVE  Sign(qs[i] - qs[i - 1]) = t <=> Sign(ps[i] - ps[i - 1]) = s
  <2>1. i \in 1..Len(ps) /\ i - 1 \in 1..Len(ps)
    BY <1>1
  <2> DEFINE a == ps[i]
  <2> DEFINE b == ps[i - 1]
  <2>2. a \in Int /\ b \in Int
    BY <2>1, ElementOfSeq
  <2>3. qs[i] = Flip(a) /\ qs[i - 1] = Flip(b)
    BY <2>1 DEF OpposedPrices
  <2> DEFINE p == qs[i]
  <2> DEFINE q == qs[i - 1]
  <2> HIDE DEF a, b, p, q
  <2>4. PICK x \in Int, y \in Int : /\ x = a - b /\ y = Flip(a) - Flip(b)
                                    /\ y = 0 - x
    BY <2>2, FlippedMove
  <2>5. y = p - q
    BY <2>3, <2>4 DEF p, q
  <2>6. Sign(y) = 0 - Sign(x) /\ Sign(x) \in Int
    BY <2>4, SignOfOpposite, SignTyped
  <2>7. Sign(p - q) = t <=> Sign(a - b) = s
    BY <2>4, <2>5, <2>6
  <2>8. QED BY <2>7 DEF a, b, p, q
<1>3. {i \in 2..Len(qs) : Sign(qs[i] - qs[i - 1]) = t} = {i \in 2..Len(ps) : Sign(ps[i] - ps[i - 1]) = s}
  BY <1>1, <1>2
<1>4. Moves(qs, t) = Moves(ps, s)
  BY <1>3 DEF Moves
<1>5. {i \in 2..Len(ps) : Sign(ps[i] - ps[i - 1]) = s} \subseteq 2..Len(ps) /\ IsFiniteSet(2..Len(ps))
  BY <1>1, FS_Interval
<1>6. Moves(ps, s) \in Nat
  BY <1>5, FS_Subset, FS_CardinalityType DEF Moves
<1>7. QED BY <1>4, <1>6

\* What TrendSignal makes of its counts.
Trends(n, up, down, net, oldest) ==
  IF \/ n < MinSamples
     \/ up + down = 0
     \/ 10 * Larger(up, down) < 6 * (up + down)
     \/ ~Exceeds(net, oldest)
  THEN 0 ELSE Sign(net)

LEMMA TrendIs ==
  ASSUME NEW ps \in Seq(Int), ps # << >>
  PROVE  TrendSignal(ps) = Trends(Len(ps), Moves(ps, 1), Moves(ps, -1), ps[Len(ps)] - ps[1], ps[1])
<1> DEFINE oldest == ps[1]
<1> DEFINE net == ps[Len(ps)] - ps[1]
<1> DEFINE up == Moves(ps, 1)
<1> DEFINE down == Moves(ps, -1)
<1> DEFINE much == Magnitude(net) * 20000 <= oldest
<1> DEFINE few == Len(ps) < MinSamples
<1> DEFINE none == up + down = 0
<1> DEFINE torn == 10 * Larger(up, down) < 6 * (up + down)
<1>1. oldest \in Int /\ net \in Int
  OBVIOUS
<1>2. /\ few \/ none \/ oldest = 0 \/ torn \/ much => TrendSignal(ps) = 0
      /\ ~(few \/ none \/ oldest = 0 \/ torn \/ much) => TrendSignal(ps) = Sign(net)
  BY DEF TrendSignal
<1>3. Trends(Len(ps), up, down, net, oldest) = IF few \/ none \/ torn \/ ~Exceeds(net, oldest) THEN 0 ELSE Sign(net)
  BY DEF Trends
<1> HIDE DEF oldest, net
<1>4. Magnitude(net) \in Nat
  BY <1>1, SignTyped
<1>5. ~Exceeds(net, oldest) <=> oldest = 0 \/ much
  BY <1>1, <1>4 DEF Exceeds
<1> HIDE DEF up, down, much, few, none, torn
<1>6. CASE few \/ none \/ torn \/ ~Exceeds(net, oldest)
  <2>1. few \/ none \/ oldest = 0 \/ torn \/ much
    BY <1>5, <1>6
  <2>2. TrendSignal(ps) = 0 /\ Trends(Len(ps), up, down, net, oldest) = 0
    BY <1>2, <1>3, <1>6, <2>1
  <2>3. QED BY <2>2 DEF up, down, net, oldest
<1>7. CASE ~(few \/ none \/ torn \/ ~Exceeds(net, oldest))
  <2>1. ~(few \/ none \/ oldest = 0 \/ torn \/ much)
    BY <1>5, <1>7
  <2>2. TrendSignal(ps) = Sign(net) /\ Trends(Len(ps), up, down, net, oldest) = Sign(net)
    BY <1>2, <1>3, <1>7, <2>1
  <2>3. QED BY <2>2 DEF up, down, net, oldest
<1>8. QED BY <1>6, <1>7

LEMMA TrendOpposed ==
  ASSUME NEW ps \in Seq(Int), NEW qs \in Seq(Int), ps # << >>, OpposedPrices(ps, qs),
         Exceeds(ps[Len(ps)] - ps[1], ps[1]) <=> Exceeds(ps[Len(ps)] - ps[1], 2 * Strike - ps[1])
  PROVE  TrendSignal(ps) \in Int /\ TrendSignal(qs) = 0 - TrendSignal(ps)
<1>1. Len(ps) \in Nat \ {0} /\ Len(qs) = Len(ps) /\ 1 \in 1..Len(ps) /\ Len(ps) \in 1..Len(ps)
  BY DEF OpposedPrices
<1>2. qs # << >>
  BY <1>1
<1>3. PICK x \in Int, y \in Int : x = ps[Len(ps)] - ps[1] /\ y = qs[Len(ps)] - qs[1] /\ y = 0 - x
  BY <1>1, StrikeIsInt DEF OpposedPrices, Flip
<1>4. qs[1] = 2 * Strike - ps[1]
  BY <1>1 DEF OpposedPrices, Flip
<1>5. Exceeds(y, qs[1]) <=> Exceeds(x, ps[1])
  BY <1>3, <1>4, SignOfOpposite DEF Exceeds
<1>6. PICK m \in Int : m = -1 /\ m = 0 - 1
  OBVIOUS
<1>7. /\ Moves(ps, 1) \in Nat /\ Moves(qs, m) = Moves(ps, 1)
      /\ Moves(ps, m) \in Nat /\ Moves(qs, 1) = Moves(ps, m)
  BY <1>6, MovesSwapped
<1> DEFINE up == Moves(ps, 1)
<1> DEFINE down == Moves(ps, m)
<1>8. Larger(down, up) = Larger(up, down) /\ down + up = up + down
  BY <1>7 DEF Larger
<1>9. /\ TrendSignal(ps) = Trends(Len(ps), up, down, x, ps[1])
      /\ TrendSignal(qs) = Trends(Len(ps), down, up, y, qs[1])
  <2>1. TrendSignal(qs) = Trends(Len(ps), Moves(qs, 1), Moves(qs, m), qs[Len(ps)] - qs[1], qs[1])
    BY <1>1, <1>2, <1>6, TrendIs
  <2>2. TrendSignal(ps) = Trends(Len(ps), Moves(ps, 1), Moves(ps, m), ps[Len(ps)] - ps[1], ps[1])
    BY <1>6, TrendIs
  <2>3. QED BY <1>3, <1>7, <2>1, <2>2
<1> HIDE DEF up, down
<1>10. Sign(x) \in Int /\ Sign(y) = 0 - Sign(x)
  BY <1>3, SignTyped, SignOfOpposite
<1>11. CASE \/ Len(ps) < MinSamples \/ up + down = 0 \/ 10 * Larger(up, down) < 6 * (up + down)
            \/ ~Exceeds(x, ps[1])
  <2>1. Trends(Len(ps), up, down, x, ps[1]) = 0
    BY <1>11 DEF Trends
  <2>2. Trends(Len(ps), down, up, y, qs[1]) = 0
    BY <1>5, <1>8, <1>11 DEF Trends
  <2>3. QED BY <1>9, <2>1, <2>2
<1>12. CASE ~ (\/ Len(ps) < MinSamples \/ up + down = 0 \/ 10 * Larger(up, down) < 6 * (up + down)
               \/ ~Exceeds(x, ps[1]))
  <2>1. Trends(Len(ps), up, down, x, ps[1]) = Sign(x)
    BY <1>12 DEF Trends
  <2>2. Trends(Len(ps), down, up, y, qs[1]) = Sign(y)
    BY <1>5, <1>8, <1>12 DEF Trends
  <2>3. QED BY <1>9, <1>10, <2>1, <2>2
<1>13. QED BY <1>11, <1>12

\* The six signals of composite.rs 179-262, and their sum.
LEMMA ScoreOpposed ==
  ASSUME NEW a \in Composites, NEW b \in Composites, Opposed(a, b), a.trend # << >>, ~TakesASide(a),
         NEW p \in Int
  PROVE  Score(a, p, Strike) \in Int /\ Score(b, Flip(p), Strike) = 0 - Score(a, p, Strike)
<1>1. /\ a.agg.closed \in Seq(AnyCandles) /\ b.agg.closed \in Seq(AnyCandles)
      /\ a.fast \in AnyEmas /\ a.slow \in AnyEmas /\ b.fast \in AnyEmas /\ b.slow \in AnyEmas
      /\ a.rsi \in AnyRsis /\ b.rsi \in AnyRsis
      /\ a.trend \in Seq(Int) /\ b.trend \in Seq(Int)
  BY DEF Composites
<1>2. /\ ~(Len(a.agg.closed) >= 3 /\ Body(a.agg.closed[Len(a.agg.closed)]) = 0)
      /\ ~(RsiWarm(a.rsi) /\ a.rsi.gain = 0 /\ a.rsi.loss = 0)
      /\ Exceeds(a.trend[Len(a.trend)] - a.trend[1], a.trend[1])
           <=> Exceeds(a.trend[Len(a.trend)] - a.trend[1], 2 * Strike - a.trend[1])
  BY DEF TakesASide
<1>3. PICK w \in Int : w = WindowDelta(p, Strike) /\ WindowDelta(Flip(p), Strike) = 0 - w
  BY WindowOpposed
<1>4. PICK m \in Int : m = MicroMomentum(a.agg.closed) /\ MicroMomentum(b.agg.closed) = 0 - m
  BY <1>1, MomentumOpposed DEF Opposed
<1>5. PICK l \in Int : l = Acceleration(a.agg.closed) /\ Acceleration(b.agg.closed) = 0 - l
  BY <1>1, <1>2, AccelerationOpposed DEF Opposed
<1>6. PICK c \in Int : c = CrossoverSign(a.fast, a.slow) /\ CrossoverSign(b.fast, b.slow) = 0 - c
  BY <1>1, CrossoverOpposed DEF Opposed
<1>7. PICK v \in Int : v = RsiVote(a.rsi) /\ RsiVote(b.rsi) = 0 - v
  BY <1>1, <1>2, VoteOpposed DEF Opposed
<1>8. PICK t \in Int : t = TrendSignal(a.trend) /\ TrendSignal(b.trend) = 0 - t
  BY <1>1, <1>2, TrendOpposed DEF Opposed
<1>9. Score(a, p, Strike) = w + 4 * m + 3 * l + 2 * c + v + 4 * t
  BY <1>3, <1>4, <1>5, <1>6, <1>7, <1>8 DEF Score
<1>10. Score(b, Flip(p), Strike) = (0 - w) + 4 * (0 - m) + 3 * (0 - l) + 2 * (0 - c) + (0 - v) + 4 * (0 - t)
  BY <1>3, <1>4, <1>5, <1>6, <1>7, <1>8 DEF Score
<1>11. PICK x \in Int, y \in Int :
         /\ x = w + 4 * m + 3 * l + 2 * c + v + 4 * t
         /\ y = (0 - w) + 4 * (0 - m) + 3 * (0 - l) + 2 * (0 - c) + (0 - v) + 4 * (0 - t)
  OBVIOUS
<1>12. y = 0 - x
  BY <1>11
<1>13. QED BY <1>9, <1>10, <1>11, <1>12

\* So where the code takes no side, the other decision is taken.
LEMMA DecisionOpposed ==
  ASSUME NEW a \in Composites, NEW b \in Composites, Opposed(a, b), a.trend # << >>, ~TakesASide(a),
         NEW p \in Int, NEW secs
  PROVE  CompositeDecision(b, Flip(p), Strike, secs) = Opposite[CompositeDecision(a, p, Strike, secs)]
<1>1. PICK x \in Int, y \in Int : x = Score(a, p, Strike) /\ y = Score(b, Flip(p), Strike) /\ y = 0 - x
  BY ScoreOpposed
<1>2. Confident(y) <=> Confident(x)
  BY <1>1, SignOfOpposite DEF Confident
<1>3. CASE InWindow(secs) /\ Confident(x)
  <2>1. x # 0
    BY <1>3 DEF Confident, Magnitude
  <2>2. Side(y) = Opposite[Side(x)]
    BY <1>1, <2>1 DEF Side, Opposite
  <2>3. QED BY <1>1, <1>2, <1>3, <2>2 DEF CompositeDecision
<1>4. CASE ~(InWindow(secs) /\ Confident(x))
  BY <1>1, <1>2, <1>4 DEF CompositeDecision, Opposite
<1>5. QED BY <1>3, <1>4

-----------------------------------------------------------------------------
(* Opposed states stay opposed when each takes the mirror image of the other's tick. *)

LEMMA PushedElements ==
  ASSUME NEW S, NEW ring \in Seq(S), NEW x \in S, NEW cap \in Nat \ {0}
  PROVE  LET n == Len(ring)
         IN IF n >= cap
            THEN /\ Len(Pushed(ring, x, cap)) = n
                 /\ \A i \in 1..n : Pushed(ring, x, cap)[i] = IF i = n THEN x ELSE ring[i + 1]
            ELSE /\ Len(Pushed(ring, x, cap)) = n + 1
                 /\ \A i \in 1..(n + 1) : Pushed(ring, x, cap)[i] = IF i = n + 1 THEN x ELSE ring[i]
<1> DEFINE n == Len(ring)
<1>1. CASE n >= cap
  <2>1. ring # << >> /\ n \in Nat \ {0}
    BY <1>1
  <2>2. /\ Tail(ring) \in Seq(S) /\ Len(Tail(ring)) = n - 1
        /\ \A i \in 1..(n - 1) : Tail(ring)[i] = ring[i + 1]
    BY <2>1
  <2> DEFINE t == Tail(ring)
  <2> HIDE DEF t
  <2>3. t \in Seq(S) /\ Len(t) = n - 1 /\ \A i \in 1..(n - 1) : t[i] = ring[i + 1]
    BY <2>2 DEF t
  <2>4. Len(Append(t, x)) = n /\ \A i \in 1..n : Append(t, x)[i] = IF i = n THEN x ELSE t[i]
    BY <2>1, <2>3
  <2>5. \A i \in 1..n : i # n => i \in 1..(n - 1)
    BY <2>1
  <2>6. Pushed(ring, x, cap) = Append(t, x)
    BY <1>1 DEF Pushed, t
  <2>7. QED BY <1>1, <2>3, <2>4, <2>5, <2>6
<1>2. CASE ~(n >= cap)
  <2>1. Pushed(ring, x, cap) = Append(ring, x)
    BY <1>2 DEF Pushed
  <2>2. /\ Len(Append(ring, x)) = n + 1
        /\ \A i \in 1..(n + 1) : Append(ring, x)[i] = IF i = n + 1 THEN x ELSE ring[i]
    OBVIOUS
  <2>3. QED BY <1>2, <2>1, <2>2
<1>3. QED BY <1>1, <1>2

\* If one ring is related to another place by place, it is so after each takes one of a
\* related pair.
Paired(R, s, t) == Len(t) = Len(s) /\ \A i \in 1..Len(s) : <<s[i], t[i]>> \in R

LEMMA PushedPairs ==
  ASSUME NEW S, NEW R, NEW s \in Seq(S), NEW t \in Seq(S), Paired(R, s, t),
         NEW x \in S, NEW y \in S, <<x, y>> \in R, NEW cap \in Nat \ {0}
  PROVE  Paired(R, Pushed(s, x, cap), Pushed(t, y, cap))
<1> DEFINE n == Len(s)
<1> DEFINE u == Pushed(s, x, cap)
<1> DEFINE v == Pushed(t, y, cap)
<1>1. n \in Nat /\ Len(t) = n /\ \A i \in 1..n : <<s[i], t[i]>> \in R
  BY DEF Paired
<1>2. CASE n >= cap
  <2>1. /\ Len(u) = n /\ \A i \in 1..n : u[i] = IF i = n THEN x ELSE s[i + 1]
        /\ Len(v) = n /\ \A i \in 1..n : v[i] = IF i = n THEN y ELSE t[i + 1]
    BY <1>1, <1>2, PushedElements
  <2> HIDE DEF u, v, n
  <2>2. ASSUME NEW i \in 1..n PROVE <<u[i], v[i]>> \in R
    <3>1. CASE i = n
      BY <2>1, <3>1
    <3>2. CASE i # n
      <4>1. i + 1 \in 1..n
        BY <1>1, <3>2
      <4>2. u[i] = s[i + 1] /\ v[i] = t[i + 1]
        BY <2>1, <3>2
      <4>3. QED BY <1>1, <4>1, <4>2
    <3>3. QED BY <3>1, <3>2
  <2>3. Paired(R, u, v)
    BY <2>1, <2>2 DEF Paired
  <2>4. QED BY <2>3 DEF u, v
<1>3. CASE ~(n >= cap)
  <2>1. /\ Len(u) = n + 1 /\ \A i \in 1..(n + 1) : u[i] = IF i = n + 1 THEN x ELSE s[i]
        /\ Len(v) = n + 1 /\ \A i \in 1..(n + 1) : v[i] = IF i = n + 1 THEN y ELSE t[i]
    BY <1>1, <1>3, PushedElements
  <2> HIDE DEF u, v, n
  <2>2. ASSUME NEW i \in 1..(n + 1) PROVE <<u[i], v[i]>> \in R
    <3>1. CASE i = n + 1
      BY <2>1, <3>1
    <3>2. CASE i # n + 1
      <4>1. i \in 1..n
        BY <1>1, <3>2
      <4>2. QED BY <1>1, <2>1, <3>2, <4>1
    <3>3. QED BY <3>1, <3>2
  <2>3. Paired(R, u, v)
    BY <2>1, <2>2 DEF Paired
  <2>4. QED BY <2>3 DEF u, v
<1>4. QED BY <1>2, <1>3

FlippedPrices == {pr \in Int \X Int : pr[2] = Flip(pr[1])}
FlippedCandle(c, d) == d.bucket = c.bucket /\ d.open = Flip(c.open) /\ d.close = Flip(c.close)
FlippedCandles == {pr \in AnyCandles \X AnyCandles : FlippedCandle(pr[1], pr[2])}

LEMMA PairedPrices ==
  ASSUME NEW ps \in Seq(Int), NEW qs \in Seq(Int)
  PROVE  OpposedPrices(ps, qs) <=> Paired(FlippedPrices, ps, qs)
<1>1. ASSUME Len(qs) = Len(ps), NEW i \in 1..Len(ps)
      PROVE  <<ps[i], qs[i]>> \in FlippedPrices <=> qs[i] = Flip(ps[i])
  <2>1. ps[i] \in Int /\ qs[i] \in Int
    BY <1>1
  <2>2. QED BY <2>1 DEF FlippedPrices
<1>2. QED BY <1>1 DEF OpposedPrices, Paired

LEMMA PairedCandles ==
  ASSUME NEW cs \in Seq(AnyCandles), NEW ds \in Seq(AnyCandles)
  PROVE  OpposedCandles(cs, ds) <=> Paired(FlippedCandles, cs, ds)
<1>1. ASSUME Len(ds) = Len(cs), NEW i \in 1..Len(cs)
      PROVE  <<cs[i], ds[i]>> \in FlippedCandles <=> FlippedCandle(cs[i], ds[i])
  <2>1. cs[i] \in AnyCandles /\ ds[i] \in AnyCandles
    BY <1>1
  <2>2. QED BY <2>1 DEF FlippedCandles
<1>2. QED BY <1>1 DEF OpposedCandles, Paired, FlippedCandle

LEMMA PricesPushed ==
  ASSUME NEW ps \in Seq(Int), NEW qs \in Seq(Int), OpposedPrices(ps, qs), NEW x \in Int, NEW cap \in Nat \ {0}
  PROVE  /\ Pushed(ps, x, cap) \in Seq(Int) /\ Pushed(qs, Flip(x), cap) \in Seq(Int)
         /\ OpposedPrices(Pushed(ps, x, cap), Pushed(qs, Flip(x), cap))
<1>1. Flip(x) \in Int
  BY StrikeIsInt
<1>2. Pushed(ps, x, cap) \in Seq(Int) /\ Pushed(qs, Flip(x), cap) \in Seq(Int)
  BY <1>1, PushedTyped
<1>3. <<x, Flip(x)>> \in FlippedPrices
  BY <1>1 DEF FlippedPrices
<1>4. Paired(FlippedPrices, ps, qs)
  BY PairedPrices
<1>5. Paired(FlippedPrices, Pushed(ps, x, cap), Pushed(qs, Flip(x), cap))
  BY <1>1, <1>3, <1>4, PushedPairs
<1>6. QED BY <1>2, <1>5, PairedPrices

LEMMA CandlesPushed ==
  ASSUME NEW cs \in Seq(AnyCandles), NEW ds \in Seq(AnyCandles), OpposedCandles(cs, ds),
         NEW c \in AnyCandles, NEW d \in AnyCandles, FlippedCandle(c, d), NEW cap \in Nat \ {0}
  PROVE  /\ Pushed(cs, c, cap) \in Seq(AnyCandles) /\ Pushed(ds, d, cap) \in Seq(AnyCandles)
         /\ OpposedCandles(Pushed(cs, c, cap), Pushed(ds, d, cap))
<1>1. Pushed(cs, c, cap) \in Seq(AnyCandles) /\ Pushed(ds, d, cap) \in Seq(AnyCandles)
  BY PushedTyped
<1>2. <<c, d>> \in FlippedCandles
  BY DEF FlippedCandles
<1>3. Paired(FlippedCandles, cs, ds)
  BY PairedCandles
<1>4. Paired(FlippedCandles, Pushed(cs, c, cap), Pushed(ds, d, cap))
  BY <1>2, <1>3, PushedPairs
<1>5. QED BY <1>1, <1>4, PairedCandles

\* Averages of mirrored prices are mirrored averages.
LEMMA EmaOpposed ==
  ASSUME NEW e \in AnyEmas, NEW f \in AnyEmas, OpposedEmas(e, f), NEW x \in Int, NEW period \in Nat \ {0}
  PROVE  /\ EmaUpdate(e, x, period) \in AnyEmas /\ EmaUpdate(f, Flip(x), period) \in AnyEmas
         /\ OpposedEmas(EmaUpdate(e, x, period), EmaUpdate(f, Flip(x), period))
<1>0. /\ e.num \in Int /\ e.den \in Nat \ {0} /\ e.count \in Nat
      /\ f.num \in Int /\ f.den = e.den /\ f.count = e.count
      /\ e.count # 0 => f.num = 2 * Strike * e.den - e.num
      /\ Flip(x) \in Int
  BY StrikeIsInt DEF AnyEmas, OpposedEmas
<1>1. CASE e.count = 0
  <2>1. /\ EmaUpdate(e, x, period) = [num |-> x, den |-> 1, count |-> 1]
        /\ EmaUpdate(f, Flip(x), period) = [num |-> Flip(x), den |-> 1, count |-> 1]
    BY <1>0, <1>1 DEF EmaUpdate
  <2>2. Flip(x) = 2 * Strike * 1 - x
    BY StrikeIsInt DEF Flip
  <2>3. QED BY <1>0, <2>1, <2>2 DEF AnyEmas, OpposedEmas
<1>2. CASE e.count # 0
  <2> DEFINE num == 2 * x * e.den + (period - 1) * e.num
  <2> DEFINE other == 2 * Flip(x) * f.den + (period - 1) * f.num
  <2> DEFINE den == (period + 1) * e.den
  <2>1. /\ EmaUpdate(e, x, period) = [num |-> num, den |-> den, count |-> e.count + 1]
        /\ EmaUpdate(f, Flip(x), period) = [num |-> other, den |-> den, count |-> e.count + 1]
    BY <1>0, <1>2 DEF EmaUpdate
  <2>2. PICK d \in Nat \ {0}, n \in Int, k \in Int, p \in Nat \ {0} :
          d = e.den /\ n = e.num /\ k = 2 * Strike /\ p = period
    BY <1>0, StrikeIsInt
  <2>3. /\ num = 2 * x * d + (p - 1) * n
        /\ other = 2 * (k - x) * d + (p - 1) * (k * d - n)
        /\ den = (p + 1) * d
    BY <1>0, <1>2, <2>2 DEF Flip
  <2> HIDE DEF num, other, den
  <2>4. num \in Int /\ other \in Int /\ den \in Nat \ {0}
    BY <2>3
  <2>5. other = k * den - num
    <3>1. PICK kd \in Int : kd = k * d
      OBVIOUS
    <3>2. other = 2 * kd - 2 * x * d + (p - 1) * (kd - n)
      <4>1. 2 * (k - x) * d = 2 * kd - 2 * x * d
        BY <3>1
      <4>2. QED BY <2>3, <3>1, <4>1
    <3>3. (p - 1) * (kd - n) = (p - 1) * kd - (p - 1) * n
      OBVIOUS
    <3>4. k * ((p + 1) * d) = (p + 1) * kd
      BY <3>1
    <3>5. (p + 1) * kd = (p - 1) * kd + 2 * kd
      OBVIOUS
    <3>6. PICK pkd \in Int, pn \in Int, xd \in Int : pkd = (p - 1) * kd /\ pn = (p - 1) * n /\ xd = 2 * x * d
      OBVIOUS
    <3>7. other = 2 * kd - xd + (pkd - pn) /\ num = xd + pn /\ k * den = pkd + 2 * kd
      BY <2>3, <3>2, <3>3, <3>4, <3>5, <3>6
    <3>8. QED BY <3>7
  <2>6. other = 2 * Strike * den - num
    BY <2>2, <2>5
  <2>7. QED BY <1>0, <2>1, <2>4, <2>6 DEF AnyEmas, OpposedEmas
<1>3. QED BY <1>1, <1>2

\* Gains become losses.
LEMMA RsiOpposed ==
  ASSUME NEW r \in AnyRsis, NEW s \in AnyRsis, OpposedRsis(r, s), NEW x \in Int
  PROVE  /\ RsiUpdate(r, x) \in AnyRsis /\ RsiUpdate(s, Flip(x)) \in AnyRsis
         /\ OpposedRsis(RsiUpdate(r, x), RsiUpdate(s, Flip(x)))
<1>0. /\ r.gain \in Nat /\ r.loss \in Nat /\ r.den \in Nat /\ r.count \in Nat
      /\ s.gain = r.loss /\ s.loss = r.gain /\ s.den = r.den /\ s.count = r.count
      /\ r.last = << >> \/ \E l \in Int : r.last = <<l>>
      /\ IF r.last = << >> THEN s.last = << >> ELSE s.last = <<Flip(r.last[1])>>
      /\ Flip(x) \in Int /\ RsiPeriod \in Nat \ {0}
  BY StrikeIsInt, IndicatorsAssumption DEF AnyRsis, OpposedRsis
<1>1. CASE r.last = << >>
  <2>1. RsiUpdate(r, x) = [r EXCEPT !.last = <<x>>] /\ RsiUpdate(s, Flip(x)) = [s EXCEPT !.last = <<Flip(x)>>]
    BY <1>0, <1>1 DEF RsiUpdate
  <2>2. <<x>> # << >> /\ <<x>>[1] = x
    OBVIOUS
  <2>3. QED BY <1>0, <2>1, <2>2 DEF AnyRsis, OpposedRsis
<1>2. ASSUME NEW l \in Int, r.last = <<l>>
      PROVE  /\ RsiUpdate(r, x) \in AnyRsis /\ RsiUpdate(s, Flip(x)) \in AnyRsis
             /\ OpposedRsis(RsiUpdate(r, x), RsiUpdate(s, Flip(x)))
  <2>1. r.last # << >> /\ r.last[1] = l /\ s.last = <<Flip(l)>> /\ s.last # << >> /\ s.last[1] = Flip(l)
    <3>1. /\ <<l>> # << >> /\ <<l>>[1] = l
          /\ <<Flip(l)>> # << >> /\ <<Flip(l)>>[1] = Flip(l)
      OBVIOUS
    <3>2. r.last # << >> /\ r.last[1] = l
      BY <1>2, <3>1
    <3>3. s.last = <<Flip(l)>>
      BY <1>0, <3>2
    <3>4. QED BY <3>1, <3>2, <3>3
  <2>2. PICK up \in Int, down \in Int : up = x - l /\ down = Flip(x) - Flip(l) /\ down = 0 - up
    BY FlippedMove
  <2>3. PICK nup \in Int, ndown \in Int : nup = -up /\ nup = down /\ ndown = -down /\ ndown = up
    BY <2>2, Negation
  <2> DEFINE rises == Larger(up, 0)
  <2> DEFINE falls == Larger(down, 0)
  <2>4. rises \in Nat /\ falls \in Nat
    BY DEF Larger
  <2> DEFINE first == r.count = 0
  <2> DEFINE gain == IF first THEN rises ELSE rises * r.den + (RsiPeriod - 1) * r.gain
  <2> DEFINE loss == IF first THEN falls ELSE falls * r.den + (RsiPeriod - 1) * r.loss
  <2> DEFINE den == IF first THEN 1 ELSE RsiPeriod * r.den
  <2> HIDE DEF rises, falls
  <2>5. RsiUpdate(r, x) = [gain |-> gain, loss |-> loss, den |-> den, last |-> <<x>>, count |-> r.count + 1]
    <3>1. RsiUpdate(r, x) =
            [gain |-> IF r.count = 0 THEN Larger(up, 0) ELSE Larger(up, 0) * r.den + (RsiPeriod - 1) * r.gain,
             loss |-> IF r.count = 0 THEN Larger(nup, 0) ELSE Larger(nup, 0) * r.den + (RsiPeriod - 1) * r.loss,
             den |-> IF r.count = 0 THEN 1 ELSE RsiPeriod * r.den, last |-> <<x>>, count |-> r.count + 1]
      BY <2>1, <2>2, <2>3 DEF RsiUpdate
    <3>2. QED BY <2>3, <3>1 DEF rises, falls
  <2>6. RsiUpdate(s, Flip(x)) =
          [gain |-> loss, loss |-> gain, den |-> den, last |-> <<Flip(x)>>, count |-> r.count + 1]
    <3>1. RsiUpdate(s, Flip(x)) =
            [gain |-> IF s.count = 0 THEN Larger(down, 0) ELSE Larger(down, 0) * s.den + (RsiPeriod - 1) * s.gain,
             loss |-> IF s.count = 0 THEN Larger(ndown, 0) ELSE Larger(ndown, 0) * s.den + (RsiPeriod - 1) * s.loss,
             den |-> IF s.count = 0 THEN 1 ELSE RsiPeriod * s.den, last |-> <<Flip(x)>>, count |-> s.count + 1]
      BY <2>1, <2>2, <2>3 DEF RsiUpdate
    <3>2. QED BY <1>0, <2>3, <3>1 DEF rises, falls
  <2>7. gain \in Nat /\ loss \in Nat /\ den \in Nat
    <3>1. PICK a \in Nat, b \in Nat : a = rises /\ b = falls
      BY <2>4
    <3>2. RsiPeriod - 1 \in Nat /\ r.den \in Nat
      BY <1>0
    <3> DEFINE c == RsiPeriod - 1
    <3> DEFINE d == r.den
    <3>3. PICK g \in Nat, h \in Nat : g = r.gain /\ h = r.loss
      BY <1>0
    <3> HIDE DEF c, d
    <3>4. c \in Nat /\ d \in Nat
      BY <3>2 DEF c, d
    <3>5. a * d \in Nat /\ b * d \in Nat /\ c * g \in Nat /\ c * h \in Nat /\ (c + 1) * d \in Nat
      BY <3>4
    <3>6. RsiPeriod = c + 1
      BY <1>0 DEF c
    <3>7. /\ gain = IF first THEN a ELSE a * d + c * g
          /\ loss = IF first THEN b ELSE b * d + c * h
          /\ den = IF first THEN 1 ELSE (c + 1) * d
      BY <3>1, <3>3, <3>6 DEF c, d
    <3>8. QED BY <3>5, <3>7
  <2> HIDE DEF gain, loss, den
  <2>8. <<x>> # << >> /\ <<x>>[1] = x /\ r.count + 1 \in Nat
    BY <1>0
  <2>9. QED BY <1>0, <2>5, <2>6, <2>7, <2>8 DEF AnyRsis, OpposedRsis
<1>3. QED BY <1>0, <1>1, <1>2

AnyAggs == [current : Seq(AnyCandles), closed : Seq(AnyCandles)]

LEMMA FreshOpposed ==
  ASSUME NEW x \in Int, NEW at \in Nat
  PROVE  /\ Fresh(x, at) \in AnyCandles /\ Fresh(Flip(x), at) \in AnyCandles
         /\ FlippedCandle(Fresh(x, at), Fresh(Flip(x), at))
<1>1. BucketSecs \in Nat \ {0}
  BY IndicatorsAssumption
<1>2. Bucket(at) \in Int
  BY <1>1, Division DEF Bucket
<1>3. QED BY <1>2, StrikeIsInt DEF Fresh, AnyCandles, FlippedCandle

LEMMA SingleOpposed ==
  ASSUME NEW c \in AnyCandles, NEW d \in AnyCandles, FlippedCandle(c, d)
  PROVE  <<c>> \in Seq(AnyCandles) /\ <<d>> \in Seq(AnyCandles) /\ OpposedCandles(<<c>>, <<d>>)
<1>1. Len(<<c>>) = 1 /\ Len(<<d>>) = 1 /\ <<c>>[1] = c /\ <<d>>[1] = d /\ 1..1 = {1}
  OBVIOUS
<1>2. QED BY <1>1 DEF OpposedCandles, FlippedCandle

\* Both aggregators close their candles at the same ticks.
LEMMA AggregatesOpposed ==
  ASSUME NEW g \in AnyAggs, NEW h \in AnyAggs,
         OpposedCandles(g.current, h.current), OpposedCandles(g.closed, h.closed),
         NEW x \in Int, NEW at \in Nat
  PROVE  /\ OnTick(g, x, at) \in AnyAggs /\ OnTick(h, Flip(x), at) \in AnyAggs
         /\ OpposedCandles(OnTick(g, x, at).current, OnTick(h, Flip(x), at).current)
         /\ OpposedCandles(OnTick(g, x, at).closed, OnTick(h, Flip(x), at).closed)
         /\ ClosesCandle(h, at) <=> ClosesCandle(g, at)
         /\ ClosesCandle(g, at) => /\ g.current[1].close \in Int
                                   /\ h.current[1].close = Flip(g.current[1].close)
<1>0. /\ g.current \in Seq(AnyCandles) /\ g.closed \in Seq(AnyCandles)
      /\ h.current \in Seq(AnyCandles) /\ h.closed \in Seq(AnyCandles)
      /\ DOMAIN g = {"current", "closed"} /\ DOMAIN h = {"current", "closed"}
  BY DEF AnyAggs
<1>1. g.current = << >> <=> h.current = << >>
  BY <1>0 DEF OpposedCandles
<1>2. ASSUME g.current # << >>
      PROVE  /\ g.current[1] \in AnyCandles /\ h.current[1] \in AnyCandles
             /\ FlippedCandle(g.current[1], h.current[1])
  <2>1. Len(g.current) \in Nat \ {0} /\ Len(h.current) = Len(g.current)
    BY <1>0, <1>2 DEF OpposedCandles
  <2>2. 1 \in 1..Len(g.current) /\ 1 \in 1..Len(h.current)
    BY <2>1
  <2>3. g.current[1] \in AnyCandles /\ h.current[1] \in AnyCandles
    BY <1>0, <2>2
  <2>4. QED BY <2>2, <2>3 DEF OpposedCandles, FlippedCandle
<1>3. ClosesCandle(h, at) <=> ClosesCandle(g, at)
  BY <1>1, <1>2 DEF ClosesCandle, FlippedCandle
<1>4. ClosesCandle(g, at) => /\ g.current[1].close \in Int
                             /\ h.current[1].close = Flip(g.current[1].close)
  BY <1>2 DEF ClosesCandle, FlippedCandle, AnyCandles
<1> DEFINE fresh == <<Fresh(x, at)>>
<1> DEFINE freshened == <<Fresh(Flip(x), at)>>
<1>5. fresh \in Seq(AnyCandles) /\ freshened \in Seq(AnyCandles) /\ OpposedCandles(fresh, freshened)
  BY FreshOpposed, SingleOpposed
<1>6. CASE ClosesCandle(g, at)
  <2> DEFINE over == Pushed(g.closed, g.current[1], HistoryCap)
  <2> DEFINE done == Pushed(h.closed, h.current[1], HistoryCap)
  <2>1. /\ OnTick(g, x, at) = [current |-> fresh, closed |-> over]
        /\ OnTick(h, Flip(x), at) = [current |-> freshened, closed |-> done]
    BY <1>3, <1>6 DEF OnTick
  <2>2. g.current # << >>
    BY <1>6 DEF ClosesCandle
  <2>3. HistoryCap \in Nat \ {0}
    BY IndicatorsAssumption
  <2>4. over \in Seq(AnyCandles) /\ done \in Seq(AnyCandles) /\ OpposedCandles(over, done)
    BY <1>0, <1>2, <2>2, <2>3, CandlesPushed
  <2> HIDE DEF over, done, fresh, freshened
  <2>5. QED BY <1>3, <1>4, <1>5, <2>1, <2>4 DEF AnyAggs
<1>7. CASE ~ClosesCandle(g, at)
  <2> DEFINE now == IF g.current = << >> THEN fresh ELSE <<[g.current[1] EXCEPT !.close = x]>>
  <2> DEFINE then == IF h.current = << >> THEN freshened ELSE <<[h.current[1] EXCEPT !.close = Flip(x)]>>
  <2>1. OnTick(g, x, at) = [g EXCEPT !.current = now] /\ OnTick(h, Flip(x), at) = [h EXCEPT !.current = then]
    BY <1>3, <1>7 DEF OnTick
  <2>2. now \in Seq(AnyCandles) /\ then \in Seq(AnyCandles) /\ OpposedCandles(now, then)
    <3>1. CASE g.current = << >>
      BY <1>1, <1>5, <3>1
    <3>2. CASE g.current # << >>
      <4> DEFINE c == [g.current[1] EXCEPT !.close = x]
      <4> DEFINE d == [h.current[1] EXCEPT !.close = Flip(x)]
      <4>1. c \in AnyCandles /\ d \in AnyCandles /\ FlippedCandle(c, d)
        BY <1>2, <3>2, StrikeIsInt DEF AnyCandles, FlippedCandle
      <4>2. now = <<c>> /\ then = <<d>>
        BY <1>1, <3>2
      <4> HIDE DEF c, d
      <4>3. <<c>> \in Seq(AnyCandles) /\ <<d>> \in Seq(AnyCandles) /\ OpposedCandles(<<c>>, <<d>>)
        BY <4>1, SingleOpposed
      <4>4. QED BY <4>2, <4>3
    <3>3. QED BY <3>1, <3>2
  <2> HIDE DEF now, then
  <2>3. /\ OnTick(g, x, at) = [current |-> now, closed |-> g.closed]
        /\ OnTick(h, Flip(x), at) = [current |-> then, closed |-> h.closed]
    BY <2>1 DEF AnyAggs
  <2>4. QED BY <1>0, <1>3, <1>4, <2>2, <2>3 DEF AnyAggs
<1>8. QED BY <1>6, <1>7

AnyTicks == [price : Int, at : Nat]

\* One tick, and its mirror image: the states stay opposed.
LEMMA CompositesOpposed ==
  ASSUME NEW a \in Composites, NEW b \in Composites, Opposed(a, b), NEW tick \in AnyTicks, NEW other,
         other = [tick EXCEPT !.price = 2 * Strike - @]
  PROVE  /\ CompositeUpdate(a, tick) \in Composites /\ CompositeUpdate(b, other) \in Composites
         /\ Opposed(CompositeUpdate(a, tick), CompositeUpdate(b, other))
         /\ CompositeUpdate(a, tick).trend # << >>
<1> DEFINE x == tick.price
<1> DEFINE at == tick.at
<1> DEFINE closes == ClosesCandle(a.agg, at)
<1> DEFINE c == a.agg.current[1].close
<1>0. /\ x \in Int /\ at \in Nat /\ other.price = Flip(x) /\ other.at = at
      /\ FastPeriod \in Nat \ {0} /\ SlowPeriod \in Nat \ {0} /\ TrendWindow \in Nat \ {0}
  BY IndicatorsAssumption DEF AnyTicks, Flip
<1>1. /\ a.agg \in AnyAggs /\ b.agg \in AnyAggs
      /\ a.fast \in AnyEmas /\ a.slow \in AnyEmas /\ b.fast \in AnyEmas /\ b.slow \in AnyEmas
      /\ a.rsi \in AnyRsis /\ b.rsi \in AnyRsis /\ a.trend \in Seq(Int) /\ b.trend \in Seq(Int)
  BY DEF Composites, AnyAggs
<1>2. /\ OpposedCandles(a.agg.current, b.agg.current) /\ OpposedCandles(a.agg.closed, b.agg.closed)
      /\ OpposedEmas(a.fast, b.fast) /\ OpposedEmas(a.slow, b.slow)
      /\ OpposedRsis(a.rsi, b.rsi) /\ OpposedPrices(a.trend, b.trend)
  BY DEF Opposed
<1>3. /\ OnTick(a.agg, x, at) \in AnyAggs /\ OnTick(b.agg, Flip(x), at) \in AnyAggs
      /\ OpposedCandles(OnTick(a.agg, x, at).current, OnTick(b.agg, Flip(x), at).current)
      /\ OpposedCandles(OnTick(a.agg, x, at).closed, OnTick(b.agg, Flip(x), at).closed)
      /\ ClosesCandle(b.agg, at) <=> closes
      /\ closes => c \in Int /\ b.agg.current[1].close = Flip(c)
  BY <1>0, <1>1, <1>2, AggregatesOpposed
<1> DEFINE aggA == OnTick(a.agg, x, at)
<1> DEFINE aggB == OnTick(b.agg, Flip(x), at)
<1> DEFINE fastA == IF closes THEN EmaUpdate(a.fast, c, FastPeriod) ELSE a.fast
<1> DEFINE fastB == IF closes THEN EmaUpdate(b.fast, Flip(c), FastPeriod) ELSE b.fast
<1> DEFINE slowA == IF closes THEN EmaUpdate(a.slow, c, SlowPeriod) ELSE a.slow
<1> DEFINE slowB == IF closes THEN EmaUpdate(b.slow, Flip(c), SlowPeriod) ELSE b.slow
<1> DEFINE rsiA == IF closes THEN RsiUpdate(a.rsi, c) ELSE a.rsi
<1> DEFINE rsiB == IF closes THEN RsiUpdate(b.rsi, Flip(c)) ELSE b.rsi
<1> DEFINE trendA == Pushed(a.trend, x, TrendWindow)
<1> DEFINE trendB == Pushed(b.trend, Flip(x), TrendWindow)
<1>4. CompositeUpdate(a, tick) = [agg |-> aggA, fast |-> fastA, slow |-> slowA, rsi |-> rsiA, trend |-> trendA]
  BY DEF CompositeUpdate
<1>5. CompositeUpdate(b, other) = [agg |-> aggB, fast |-> fastB, slow |-> slowB, rsi |-> rsiB, trend |-> trendB]
  <2> DEFINE e == b.agg.current[1].close
  <2>1. CompositeUpdate(b, other) =
          [agg |-> aggB,
           fast |-> IF ClosesCandle(b.agg, at) THEN EmaUpdate(b.fast, e, FastPeriod) ELSE b.fast,
           slow |-> IF ClosesCandle(b.agg, at) THEN EmaUpdate(b.slow, e, SlowPeriod) ELSE b.slow,
           rsi |-> IF ClosesCandle(b.agg, at) THEN RsiUpdate(b.rsi, e) ELSE b.rsi,
           trend |-> trendB]
    BY <1>0 DEF CompositeUpdate
  <2> HIDE DEF e, c, closes, x, at
  <2>2. QED BY <1>3, <2>1 DEF e
<1> HIDE DEF c, closes, x, at
<1>6. /\ fastA \in AnyEmas /\ fastB \in AnyEmas /\ OpposedEmas(fastA, fastB)
      /\ slowA \in AnyEmas /\ slowB \in AnyEmas /\ OpposedEmas(slowA, slowB)
  BY <1>0, <1>1, <1>2, <1>3, EmaOpposed DEF c
<1>7. rsiA \in AnyRsis /\ rsiB \in AnyRsis /\ OpposedRsis(rsiA, rsiB)
  BY <1>1, <1>2, <1>3, RsiOpposed DEF c
<1>8. trendA \in Seq(Int) /\ trendB \in Seq(Int) /\ OpposedPrices(trendA, trendB)
  BY <1>0, <1>1, <1>2, PricesPushed
<1>9. trendA # << >>
  <2>1. Len(trendA) # 0
    <3>1. CASE Len(a.trend) >= TrendWindow
      BY <1>0, <1>1, <3>1, PushedElements
    <3>2. CASE ~(Len(a.trend) >= TrendWindow)
      <4>1. Len(trendA) = Len(a.trend) + 1 /\ Len(a.trend) \in Nat
        BY <1>0, <1>1, <3>2, PushedElements
      <4>2. QED BY <4>1
    <3>3. QED BY <3>1, <3>2
  <2>2. QED BY <2>1
<1>10. aggA \in AnyAggs /\ aggB \in AnyAggs
       /\ OpposedCandles(aggA.current, aggB.current) /\ OpposedCandles(aggA.closed, aggB.closed)
  BY <1>3
<1> HIDE DEF aggA, aggB, fastA, fastB, slowA, slowB, rsiA, rsiB, trendA, trendB
<1>11. CompositeUpdate(a, tick) \in Composites /\ CompositeUpdate(b, other) \in Composites
  BY <1>4, <1>5, <1>6, <1>7, <1>8, <1>10 DEF Composites, AnyAggs
<1>12. Opposed(CompositeUpdate(a, tick), CompositeUpdate(b, other))
  BY <1>4, <1>5, <1>6, <1>7, <1>8, <1>10 DEF Opposed
<1>13. QED BY <1>4, <1>9, <1>11, <1>12

\* The first state is its own mirror image.
LEMMA BeginOpposed == NoComposite \in Composites /\ Opposed(NoComposite, NoComposite)
<1>1. << >> \in Seq(AnyCandles) /\ << >> \in Seq(Int) /\ Len(<< >>) = 0 /\ 1..0 = {}
  OBVIOUS
<1>2. OpposedCandles(<< >>, << >>) /\ OpposedPrices(<< >>, << >>)
  BY <1>1 DEF OpposedCandles, OpposedPrices
<1>3. NoEma \in AnyEmas /\ NoRsi \in AnyRsis /\ OpposedEmas(NoEma, NoEma) /\ OpposedRsis(NoRsi, NoRsi)
  BY DEF AnyEmas, AnyRsis, OpposedEmas, OpposedRsis, NoEma, NoRsi
<1>4. QED BY <1>1, <1>2, <1>3 DEF Composites, Opposed, NoComposite, NoCandles

-----------------------------------------------------------------------------
(* The strategy after a sequence of ticks. *)

\* f is the composite strategy's state after each of the first n ticks.
Runs(f, ticks, n) ==
  f = [i \in 0..n |-> IF i = 0 THEN NoComposite ELSE CompositeUpdate(f[i - 1], ticks[i])]

LEMMA AfterIs ==
  ASSUME NEW ticks
  PROVE  After(ticks) = (CHOOSE f : Runs(f, ticks, Len(ticks)))[Len(ticks)]
BY DEF After, Runs

LEMMA RunsSay ==
  ASSUME NEW f, NEW ticks, NEW n \in Nat, Runs(f, ticks, n)
  PROVE  /\ f[0] = NoComposite
         /\ \A i \in 1..n : f[i] = CompositeUpdate(f[i - 1], ticks[i])
<1>1. \A i \in 0..n : f[i] = IF i = 0 THEN NoComposite ELSE CompositeUpdate(f[i - 1], ticks[i])
  <2> DEFINE F(i) == IF i = 0 THEN NoComposite ELSE CompositeUpdate(f[i - 1], ticks[i])
  <2>1. f = [i \in 0..n |-> F(i)]
    BY DEF Runs
  <2> HIDE DEF F
  <2>2. \A i \in 0..n : f[i] = F(i)
    BY <2>1
  <2>3. QED BY <2>2 DEF F
<1>2. 0 \in 0..n /\ \A i \in 1..n : i \in 0..n /\ i # 0
  OBVIOUS
<1>3. QED BY <1>1, <1>2

\* Two runs over the same ticks agree as far as both go.
LEMMA RunsAgree ==
  ASSUME NEW f, NEW g, NEW ticks, NEW more, NEW n \in Nat, NEW m \in Nat,
         Runs(f, ticks, n), Runs(g, more, m), n <= m, \A i \in 1..n : more[i] = ticks[i]
  PROVE  \A i \in 0..n : g[i] = f[i]
<1> DEFINE Differ == {i \in 0..n : g[i] # f[i]}
<1>1. SUFFICES ASSUME Differ # {} PROVE FALSE
  OBVIOUS
<1>2. Differ \subseteq Nat
  OBVIOUS
<1>3. PICK i \in Differ : \A j \in Differ : i <= j
  <2> HIDE DEF Differ
  <2>1. QED BY <1>1, <1>2, LeastIndex
<1>4. i \in 0..n /\ g[i] # f[i] /\ \A j \in 0..n : j < i => g[j] = f[j]
  BY <1>3
<1>5. i # 0
  BY <1>4, RunsSay
<1>6. i \in 1..n /\ i \in 1..m /\ i - 1 \in 0..n /\ i - 1 < i
  BY <1>4, <1>5
<1>7. g[i - 1] = f[i - 1] /\ more[i] = ticks[i]
  BY <1>4, <1>6
<1>8. g[i] = CompositeUpdate(g[i - 1], more[i]) /\ f[i] = CompositeUpdate(f[i - 1], ticks[i])
  BY <1>6, RunsSay
<1>9. QED BY <1>4, <1>7, <1>8

\* There is a run over any number of ticks.
LEMMA RunExtended ==
  ASSUME NEW ticks, NEW n \in Nat, NEW f, Runs(f, ticks, n)
  PROVE  \E g : Runs(g, ticks, n + 1)
<1> DEFINE new == CompositeUpdate(f[n], ticks[n + 1])
<1> DEFINE g == [i \in 0..(n + 1) |-> IF i = n + 1 THEN new ELSE f[i]]
<1> DEFINE G(i) == IF i = 0 THEN NoComposite ELSE CompositeUpdate(g[i - 1], ticks[i])
<1>1. ASSUME NEW i \in 0..(n + 1) PROVE g[i] = G(i)
  <2>1. CASE i = n + 1
    <3>1. n \in 0..(n + 1) /\ n # n + 1 /\ n + 1 - 1 = n /\ n + 1 # 0
      OBVIOUS
    <3>2. g[n] = f[n]
      BY <3>1
    <3>3. g[n + 1] = new
      OBVIOUS
    <3> HIDE DEF g
    <3>4. G(n + 1) = CompositeUpdate(g[n], ticks[n + 1])
      BY <3>1
    <3>5. QED BY <2>1, <3>2, <3>3, <3>4
  <2>2. CASE i = 0
    <3>1. g[0] = f[0]
      OBVIOUS
    <3> HIDE DEF g
    <3>2. QED BY <2>2, <3>1, RunsSay
  <2>3. CASE i # 0 /\ i # n + 1
    <3>1. i \in 1..n /\ i - 1 \in 0..(n + 1) /\ i - 1 # n + 1
      BY <2>3
    <3>2. g[i] = f[i] /\ g[i - 1] = f[i - 1]
      BY <2>3, <3>1
    <3>3. f[i] = CompositeUpdate(f[i - 1], ticks[i])
      BY <3>1, RunsSay
    <3> HIDE DEF g
    <3>4. QED BY <2>3, <3>2, <3>3
  <2>4. QED BY <2>1, <2>2, <2>3
<1>2. g = [i \in 0..(n + 1) |-> g[i]]
  OBVIOUS
<1> HIDE DEF g
<1>3. g = [i \in 0..(n + 1) |-> G(i)]
  BY <1>1, <1>2
<1>4. Runs(g, ticks, n + 1)
  BY <1>3 DEF Runs
<1>5. QED BY <1>4

LEMMA RunsExist ==
  ASSUME NEW ticks, NEW n \in Nat
  PROVE  \E f : Runs(f, ticks, n)
<1> DEFINE Lack == {i \in Nat : ~ \E f : Runs(f, ticks, i)}
<1>1. SUFFICES ASSUME Lack # {} PROVE FALSE
  OBVIOUS
<1>2. Lack \subseteq Nat
  OBVIOUS
<1>3. PICK i \in Lack : \A j \in Lack : i <= j
  <2> HIDE DEF Lack
  <2>1. QED BY <1>1, <1>2, LeastIndex
<1>4. i \in Nat /\ ~ (\E f : Runs(f, ticks, i)) /\ \A j \in Nat : j < i => \E f : Runs(f, ticks, j)
  BY <1>3
<1>5. CASE i = 0
  <2> DEFINE f == [k \in 0..0 |-> NoComposite]
  <2>1. f = [k \in 0..0 |-> IF k = 0 THEN NoComposite ELSE CompositeUpdate(f[k - 1], ticks[k])]
    <3> DEFINE F(k) == CompositeUpdate(f[k - 1], ticks[k])
    <3> HIDE DEF F
    <3>1. f = [k \in 0..0 |-> IF k = 0 THEN NoComposite ELSE F(k)]
      OBVIOUS
    <3>2. QED BY <3>1 DEF F
  <2> HIDE DEF f
  <2>2. Runs(f, ticks, 0)
    BY <2>1 DEF Runs
  <2>3. QED BY <1>4, <1>5, <2>2
<1>6. CASE i # 0
  <2>1. i - 1 \in Nat /\ i - 1 < i /\ i - 1 + 1 = i
    BY <1>4, <1>6
  <2>2. PICK f : Runs(f, ticks, i - 1)
    BY <1>4, <2>1
  <2>3. \E g : Runs(g, ticks, i - 1 + 1)
    BY <2>1, <2>2, RunExtended
  <2>4. QED BY <1>4, <2>1, <2>3
<1>7. QED BY <1>5, <1>6

LEMMA AfterRuns ==
  ASSUME NEW ticks, Len(ticks) \in Nat, NEW f, Runs(f, ticks, Len(ticks))
  PROVE  After(ticks) = f[Len(ticks)]
<1> DEFINE n == Len(ticks)
<1> DEFINE g == CHOOSE h : Runs(h, ticks, n)
<1>1. Runs(g, ticks, n)
  OBVIOUS
<1>2. After(ticks) = g[n]
  BY AfterIs
<1> HIDE DEF g, n
<1>3. n \in Nat /\ n <= n /\ n \in 0..n
  BY DEF n
<1>4. g[n] = f[n]
  BY <1>1, <1>3, RunsAgree DEF n
<1>5. QED BY <1>2, <1>4 DEF n

\* After no tick the strategy is in its first state, and one more tick is one more update.
LEMMA AfterNone == After(<< >>) = NoComposite
<1>1. Len(<< >>) = 0 /\ 0 \in Nat
  OBVIOUS
<1>2. PICK f : Runs(f, << >>, 0)
  BY RunsExist
<1>3. After(<< >>) = f[0]
  BY <1>1, <1>2, AfterRuns
<1>4. QED BY <1>2, <1>3, RunsSay

LEMMA AfterOneMore ==
  ASSUME NEW S, NEW ticks \in Seq(S), NEW tick \in S
  PROVE  After(Append(ticks, tick)) = CompositeUpdate(After(ticks), tick)
<1> DEFINE n == Len(ticks)
<1> DEFINE more == Append(ticks, tick)
<1>1. n \in Nat /\ Len(more) = n + 1 /\ more[n + 1] = tick /\ \A i \in 1..n : more[i] = ticks[i]
  OBVIOUS
<1> HIDE DEF more
<1>2. PICK f : Runs(f, ticks, n)
  BY <1>1, RunsExist
<1>3. n + 1 \in Nat
  BY <1>1
<1>4. PICK g : Runs(g, more, n + 1)
  BY <1>3, RunsExist
<1>5. n + 1 \in Nat /\ n <= n + 1 /\ n \in 0..n /\ n + 1 \in 1..(n + 1) /\ n + 1 - 1 = n
  BY <1>1
<1>6. \A i \in 0..n : g[i] = f[i]
  BY <1>1, <1>2, <1>4, <1>5, RunsAgree
<1>7. g[n] = f[n]
  BY <1>5, <1>6
<1>8. g[n + 1] = CompositeUpdate(g[n], more[n + 1])
  BY <1>4, <1>5, RunsSay
<1>9. After(more) = g[n + 1] /\ After(ticks) = f[n]
  BY <1>1, <1>2, <1>4, <1>5, AfterRuns
<1>10. QED BY <1>1, <1>7, <1>8, <1>9 DEF more

Mirror(tick) == [tick EXCEPT !.price = 2 * Strike - @]

\* The mirror image of the ticks grows by the mirror image of the tick.
LEMMA MirroredOneMore ==
  ASSUME NEW ticks \in Seq(AnyTicks), NEW tick \in AnyTicks
  PROVE  /\ Mirrored(ticks) \in Seq(AnyTicks) /\ Mirror(tick) \in AnyTicks
         /\ Mirrored(Append(ticks, tick)) = Append(Mirrored(ticks), Mirror(tick))
<1> DEFINE n == Len(ticks)
<1>1. ASSUME NEW t \in AnyTicks PROVE Mirror(t) \in AnyTicks
  <2>1. t.price \in Int
    BY DEF AnyTicks
  <2>2. Flip(t.price) \in Int
    BY <2>1, StrikeIsInt
  <2>3. Mirror(t) = [t EXCEPT !.price = Flip(t.price)]
    BY DEF Mirror, Flip
  <2>4. QED BY <2>2, <2>3 DEF AnyTicks
<1>2. n \in Nat /\ DOMAIN ticks = 1..n
  OBVIOUS
<1>3. Mirrored(ticks) = [i \in 1..n |-> Mirror(ticks[i])]
  BY <1>2 DEF Mirrored, Mirror
<1> HIDE DEF n
<1>4. \A i \in 1..n : Mirror(ticks[i]) \in AnyTicks
  BY <1>1, <1>2 DEF n
<1> DEFINE image == [i \in 1..n |-> Mirror(ticks[i])]
<1>5. image \in Seq(AnyTicks) /\ Len(image) = n /\ \A i \in 1..n : image[i] = Mirror(ticks[i])
  BY <1>2, <1>4
<1> DEFINE more == Append(ticks, tick)
<1>6. /\ DOMAIN more = 1..(n + 1)
      /\ \A i \in 1..(n + 1) : more[i] = IF i = n + 1 THEN tick ELSE ticks[i]
  BY DEF n
<1> HIDE DEF more
<1>7. Mirrored(more) = [i \in 1..(n + 1) |-> Mirror(more[i])]
  BY <1>6 DEF Mirrored, Mirror
<1> HIDE DEF image
<1>8. Append(image, Mirror(tick)) = [i \in 1..(n + 1) |-> IF i = n + 1 THEN Mirror(tick) ELSE image[i]]
  <2> DEFINE last == Mirror(tick)
  <2>1. last \in AnyTicks
    BY <1>1
  <2> HIDE DEF last
  <2>2. /\ Append(image, last) \in Seq(AnyTicks) /\ DOMAIN Append(image, last) = 1..(n + 1)
        /\ \A i \in 1..(n + 1) : Append(image, last)[i] = IF i = n + 1 THEN last ELSE image[i]
    BY <1>2, <1>5, <2>1
  <2>3. Append(image, last) = [i \in 1..(n + 1) |-> Append(image, last)[i]]
    BY <2>2, SequenceIsFunction
  <2>4. Append(image, last) = [i \in 1..(n + 1) |-> IF i = n + 1 THEN last ELSE image[i]]
    BY <2>2, <2>3
  <2>5. QED BY <2>4 DEF last
<1>9. ASSUME NEW i \in 1..(n + 1)
      PROVE  Mirror(more[i]) = IF i = n + 1 THEN Mirror(tick) ELSE image[i]
  <2>1. CASE i = n + 1
    BY <1>6, <2>1
  <2>2. CASE i # n + 1
    <3>1. i \in 1..n
      BY <1>2, <2>2
    <3>2. QED BY <1>5, <1>6, <2>2, <3>1
  <2>3. QED BY <2>1, <2>2
<1>10. Mirrored(more) = Append(image, Mirror(tick))
  BY <1>7, <1>8, <1>9
<1>11. QED BY <1>1, <1>3, <1>5, <1>10 DEF image, more

-----------------------------------------------------------------------------
(* Up and Down are treated alike. *)

\* The strategy's state, and what it would be had every price been mirrored.
SidesInv ==
  strategy = "composite" =>
    /\ memory.composite \in Composites /\ After(Mirrored(seen)) \in Composites
    /\ Opposed(memory.composite, After(Mirrored(seen)))
    /\ seen # << >> => memory.composite.trend # << >>

LEMMA TicksAreTicks == Ticks \subseteq AnyTicks /\ \A s \in Seq(Ticks) : s \in Seq(AnyTicks)
<1>1. Ticks \subseteq AnyTicks
  BY DecisionAssumption DEF Ticks, AnyTicks
<1>2. QED BY <1>1

LEMMA SidesStart == Init => SidesInv
<1> SUFFICES ASSUME Init, strategy = "composite"
             PROVE  /\ memory.composite \in Composites /\ After(Mirrored(seen)) \in Composites
                    /\ Opposed(memory.composite, After(Mirrored(seen)))
                    /\ seen # << >> => memory.composite.trend # << >>
  BY DEF SidesInv
<1>1. seen = << >> /\ memory.composite = NoComposite
  BY DEF Init, NoMemory
<1>2. Mirrored(<< >>) = << >>
  BY DEF Mirrored
<1>3. After(Mirrored(seen)) = NoComposite
  BY <1>1, <1>2, AfterNone
<1>4. QED BY <1>1, <1>3, BeginOpposed

LEMMA SidesStep == TypeOK /\ Shaped /\ SidesInv /\ [Next]_vars => SidesInv'
<1> SUFFICES ASSUME TypeOK, Shaped, SidesInv, [Next]_vars, strategy' = "composite"
             PROVE  /\ memory'.composite \in Composites /\ After(Mirrored(seen')) \in Composites
                    /\ Opposed(memory'.composite, After(Mirrored(seen')))
                    /\ seen' # << >> => memory'.composite.trend # << >>
  BY DEF SidesInv
<1> DEFINE image == After(Mirrored(seen))
<1>0. /\ strategy = "composite" /\ seen \in Seq(Ticks)
      /\ memory.composite \in Composites /\ image \in Composites /\ Opposed(memory.composite, image)
      /\ seen # << >> => memory.composite.trend # << >>
  BY MemoryStep DEF TypeOK, SidesInv
<1>1. ASSUME NEW price \in Prices, NEW t \in Nat,
             Usable(strategy, [price |-> price, at |-> t], Strike),
             seen' = Append(seen, [price |-> price, at |-> t]),
             memory' = Remembered(strategy, memory, [price |-> price, at |-> t], Strike,
                                  Secs([price |-> price, at |-> t]))
      PROVE  /\ memory'.composite \in Composites /\ After(Mirrored(seen')) \in Composites
             /\ Opposed(memory'.composite, After(Mirrored(seen')))
             /\ seen' # << >> => memory'.composite.trend # << >>
  <2> DEFINE tick == [price |-> price, at |-> t]
  <2>1. tick \in AnyTicks
    BY TicksAreTicks DEF Ticks
  <2>2. memory' = [memory EXCEPT !.composite = CompositeUpdate(memory.composite, tick)]
    BY <1>0, <1>1 DEF Remembered
  <2>3. memory'.composite = CompositeUpdate(memory.composite, tick)
    BY <2>2 DEF Shaped
  <2>4. seen' = Append(seen, tick)
    BY <1>1
  <2> HIDE DEF tick
  <2>5. seen \in Seq(AnyTicks)
    BY <1>0, TicksAreTicks
  <2>6. /\ Mirrored(seen) \in Seq(AnyTicks) /\ Mirror(tick) \in AnyTicks
        /\ Mirrored(seen') = Append(Mirrored(seen), Mirror(tick))
    BY <2>1, <2>4, <2>5, MirroredOneMore
  <2>7. After(Mirrored(seen')) = CompositeUpdate(image, Mirror(tick))
    BY <2>6, AfterOneMore
  <2> HIDE DEF image
  <2>8. Mirror(tick) = [tick EXCEPT !.price = 2 * Strike - @]
    BY DEF Mirror
  <2>9. QED BY <1>0, <2>1, <2>3, <2>7, <2>8, CompositesOpposed
<1>2. CASE UNCHANGED <<memory, seen>>
  BY <1>0, <1>2
<1>3. QED BY <1>0, <1>1, <1>2, MemoryStep

\* Whatever the strike, the parameters of the indicators and the ticks: where the code takes
\* no side of its own, the composite strategy decides about the mirrored ticks as it did, for
\* the other outcome (composite.rs 179-282).  All six of its signals change their sign.
THEOREM UpAndDownAlike == Spec => []SidesAlike
<1>1. Init => Shaped /\ SidesInv
  BY StillInit, SidesStart
<1>2. TypeOK /\ Shaped /\ [Next]_vars => Shaped'
  BY MemoryStep
<1>3. ASSUME TypeOK, SidesInv PROVE SidesAlike
  <2> SUFFICES ASSUME strategy = "composite", seen # << >>, ~TakesASide(memory.composite)
               PROVE  LET price == seen[Len(seen)].price
                      IN CompositeDecision(After(Mirrored(seen)), 2 * Strike - price, Strike, EntryWindow)
                           = Opposite[CompositeDecision(memory.composite, price, Strike, EntryWindow)]
    BY DEF SidesAlike
  <2> DEFINE price == seen[Len(seen)].price
  <2>1. price \in Int
    <3>1. seen \in Seq(AnyTicks)
      BY <1>3, TicksAreTicks DEF TypeOK
    <3>2. seen[Len(seen)] \in AnyTicks
      BY <3>1
    <3>3. QED BY <3>2 DEF AnyTicks
  <2> HIDE DEF price
  <2>2. CompositeDecision(After(Mirrored(seen)), Flip(price), Strike, EntryWindow)
          = Opposite[CompositeDecision(memory.composite, price, Strike, EntryWindow)]
    BY <1>3, <2>1, DecisionOpposed DEF SidesInv
  <2>3. QED BY <2>2 DEF Flip, price
<1>4. QED BY <1>1, <1>2, <1>3, SidesStep, TypeCorrect, PTL DEF Spec
=============================================================================
