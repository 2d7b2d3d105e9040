--------------------------- MODULE DecisionCenter ---------------------------
(***************************************************************************)
(* decision_center_task takes the ticks one by one, asks the strategy and  *)
(* sends an intent.  The tick channel (PriceTicks) is abstracted to what   *)
(* it promises: ticks come in the feed's order, and some never come.  The  *)
(* market watch, the slot watch, the book cache and the bankroll belong to *)
(* other tasks: the watches are variables, and what the cache and the      *)
(* bankroll hold when they are read may be anything.                       *)
(***************************************************************************)
EXTENDS MarketWatch, Strategies

CONSTANTS MaxTicks,     \* bound: ticks that come
          IntentCap,    \* capacity of the intent channel, 8 in main
          Prices,       \* prices a tick may carry
          Pauses,       \* seconds between two ticks
          Strike,       \* the strike of every market whose strike is known
          ClosesAt,     \* closes_at of the first market; they are Interval apart
          Interval,     \* length of a window
          Asks,         \* best asks the cache may show
          Bankrolls,    \* bankrolls that may be read
          MinSize,      \* order_min_size, in hundredths of a share
          TickSize      \* order_price_min_tick_size
                        \* (money and prices of outcomes are in thousandths)

One == 1000

ASSUME DecisionAssumption ==
  /\ MaxTicks \in Nat /\ IntentCap \in Nat \ {0}
  /\ Prices \subseteq Int /\ Pauses \subseteq 0..Interval /\ Strike \in Nat \ {0}
  /\ ClosesAt \in Nat /\ Interval \in Nat
  /\ Asks \subseteq 1..One /\ Bankrolls \subseteq Nat /\ MinSize \in Nat /\ TickSize \in 0..(One - 1)

VARIABLES strategy,  \* which strategy is wired
          strike,    \* Market.strike of the watch's market, 0 for None
          slot,      \* "Empty" or "Claimed": the slot watch
          clock,     \* time of the last tick
          taken,     \* history: number of ticks
          memory,    \* the state of the strategy
          entering,  \* what the task holds across its awaits, or Idle
          intents,   \* the intent channel
          seen       \* history: the ticks the strategy has taken into its memory

tickVars == <<clock, taken>>
envVars == <<rotationVars, strike, slot, strategy>>
taskVars == <<memory, entering, seen>>
vars == <<envVars, tickVars, taskVars, intents>>

None == 0
Idle == [outcome |-> "Hold", price |-> 0, ask |-> 0, bankroll |-> 0]
Ticks == [price : Prices, at : Nat]
Secs(tick) == ClosesAt + (market.slug - 1) * Interval - tick.at

IntentSet == [outcome : Outcomes, shares : Nat, limit : Nat]

TypeOK ==
  /\ MarketTypeOK
  /\ strategy \in Names /\ strike \in {None, Strike} /\ slot \in {"Empty", "Claimed"}
  /\ clock \in Nat /\ taken \in 0..MaxTicks
  /\ entering = Idle \/ entering \in [outcome : Outcomes, price : Prices, ask : Asks \cup {0}, bankroll : Bankrolls \cup {0}]
  /\ intents \in Seq(IntentSet) /\ Len(intents) <= IntentCap
  /\ seen \in Seq(Ticks)

Init ==
  /\ MarketInit /\ strategy \in Names /\ strike = None /\ slot = "Empty"
  /\ clock = 0 /\ taken = 0 /\ memory = NoMemory /\ entering = Idle /\ intents = << >> /\ seen = << >>

-----------------------------------------------------------------------------
(* The other tasks *)

\* The strike comes with a market of the catalog and stays with it.
PublishMarket ==
  /\ Publish
  /\ IF phase \in {"resolve", "prefetch"} THEN strike' \in {None, Strike} ELSE UNCHANGED strike
  /\ UNCHANGED <<slot, strategy, tickVars, taskVars, intents>>

PrefetchFails == SkipPrefetched /\ UNCHANGED <<strike, slot, strategy, tickVars, taskVars, intents>>

\* The executor resets the slot at a change of the market.
ResetSlot ==
  /\ slot = "Claimed"
  /\ slot' = "Empty"
  /\ UNCHANGED <<rotationVars, strike, strategy, tickVars, taskVars, intents>>

\* The executor takes an intent: it admits it, unless the slot is taken or
\* the market has moved on.
ExecutorTakes ==
  /\ intents # << >>
  /\ intents' = Tail(intents)
  /\ slot' \in {slot, "Claimed"}
  /\ UNCHANGED <<rotationVars, strike, strategy, tickVars, taskVars>>

-----------------------------------------------------------------------------
(* decision_center_task *)

\* The next tick of the feed comes, at time t.
Take(t) ==
  /\ entering = Idle /\ taken < MaxTicks
  /\ t - clock \in Pauses
  /\ clock' = t /\ taken' = taken + 1

Asked == slot = "Empty" /\ market.slug # 0 /\ market.status = "Open" /\ strike # None

\* A tick the strategy is not asked about, or that was lost as the channel
\* lagged: the indicators do not see it.
PassOver ==
  /\ \E t \in clock..(clock + Interval) : Take(t)
  /\ UNCHANGED <<envVars, taskVars, intents>>

Evaluate ==
  /\ Asked
  /\ \E price \in Prices, t \in clock..(clock + Interval) :
       LET tick == [price |-> price, at |-> t]
           secs == Secs(tick)
       IN /\ Take(t)
          /\ memory' = Remembered(strategy, memory, tick, strike, secs)
          /\ seen' = IF strategy # "v1" /\ Usable(strategy, tick, strike) THEN Append(seen, tick) ELSE seen
          /\ \E decision \in Decisions(strategy, memory', tick, strike, secs) :
               entering' = IF decision = "Hold" THEN Idle
                           ELSE [Idle EXCEPT !.outcome = decision, !.price = price]
  /\ UNCHANGED <<envVars, intents>>

\* The outcome is not in the market, has no ask, or has one of 0.95 or more.
HoldAtAsk ==
  /\ entering # Idle /\ entering.ask = 0
  /\ entering' = Idle
  /\ UNCHANGED <<envVars, tickVars, memory, seen, intents>>

\* The ask is read from the cache, and then the bankroll.
Quote ==
  /\ entering # Idle /\ entering.ask = 0
  /\ \E ask \in Asks, bankroll \in Bankrolls :
       /\ ask < 950
       /\ entering' = [entering EXCEPT !.ask = ask, !.bankroll = bankroll]
  /\ UNCHANGED <<envVars, tickVars, memory, seen, intents>>

\* Decimal::round, which rounds halves to the even neighbour.
Rounded(x, y) == LET q == x \div y
                     twice == 2 * (x % y)
                 IN IF twice > y \/ (twice = y /\ q % 2 = 1) THEN q + 1 ELSE q

Smaller(x, y) == IF x < y THEN x ELSE y

\* MUTANT of Limit: the ask itself, rounded to the market's tick.
LimitAtAsk(ask) == IF TickSize = 0 THEN ask ELSE Rounded(Smaller(ask, One - TickSize), TickSize) * TickSize

\* The ask and a tick, at most a tick below 1, rounded to the market's tick.
Limit(ask) ==
  LET buffered == Smaller(ask + TickSize, One - TickSize)
  IN IF TickSize = 0 THEN buffered ELSE Rounded(buffered, TickSize) * TickSize

\* MUTANT of TrySend: the intent waits in a channel without a bound.
TrySendAnyway(intent) == intents' = Append(intents, intent)

\* A full channel drops the intent.
TrySend(intent) == intents' = IF Len(intents) = IntentCap THEN intents ELSE Append(intents, intent)

\* The intent is sized, at the market's minimum at least, and sent.
SendIntent ==
  /\ entering.ask # 0
  /\ entering' = Idle
  /\ LET shares == Size(entering.bankroll, entering.ask)
         intent == [outcome |-> entering.outcome, shares |-> Larger(shares, MinSize), limit |-> Limit(entering.ask)]
     IN IF shares = 0 THEN UNCHANGED intents ELSE TrySend(intent)
  /\ UNCHANGED <<envVars, tickVars, memory, seen>>

-----------------------------------------------------------------------------
DecisionTask == PassOver \/ Evaluate \/ HoldAtAsk \/ Quote \/ SendIntent

Next == \/ PublishMarket \/ PrefetchFails \/ ResetSlot \/ ExecutorTakes
        \/ DecisionTask

Spec == Init /\ [][Next]_vars

-----------------------------------------------------------------------------
(* Properties *)

\* Where a candle begins among the ticks the strategy remembers, and where the
\* k-th of them does.
Starts(ticks) == {i \in DOMAIN ticks : i = 1 \/ Bucket(ticks[i].at) # Bucket(ticks[i - 1].at)}
Ranked(ticks, k) == {i \in Starts(ticks) : Cardinality({j \in Starts(ticks) : j <= i}) = k}
Start(ticks, k) == CHOOSE i \in Ranked(ticks, k) : TRUE

\* The candle of the ticks from one place to another, and all those that are over.
Cut(ticks, from, to) ==
  [bucket |-> Bucket(ticks[from].at), open |-> ticks[from].price, close |-> ticks[to].price]
Closed(ticks) ==
  [k \in 1..(Cardinality(Starts(ticks)) - 1) |-> Cut(ticks, Start(ticks, k), Start(ticks, k + 1) - 1)]

\* The aggregator (candle.rs:53-101) cuts the ticks into candles as a look at
\* all of them would: each closed candle opens with the first and closes with
\* the last tick of its bucket, the newest HistoryCap are kept, and each was
\* fed once to both averages and the RSI (composite.rs:162-166).
CandlesMatchTicks ==
  strategy = "composite" /\ seen # << >> =>
    LET all == Closed(seen)
        closed == Cardinality(Starts(seen)) - 1
        st == memory.composite
    IN /\ st.agg.current = <<Cut(seen, Start(seen, closed + 1), Len(seen))>>
       /\ st.agg.closed = SubSeq(all, Larger(1, closed - HistoryCap + 1), closed)
       /\ st.fast.count = closed /\ st.slow.count = closed
       /\ closed > 0 => st.rsi.count = closed - 1 /\ st.rsi.last = <<all[closed].close>>

\* The ticks seen from the other side of the strike.
Mirrored(ticks) == [i \in DOMAIN ticks |-> [ticks[i] EXCEPT !.price = 2 * Strike - @]]

\* The composite strategy after a sequence of ticks.
After(ticks) ==
  LET st[i \in 0..Len(ticks)] == IF i = 0 THEN NoComposite ELSE CompositeUpdate(st[i - 1], ticks[i])
  IN st[Len(ticks)]

\* A net move counts for a trend if it exceeds a share of the oldest price.
Exceeds(net, oldest) == oldest # 0 /\ Magnitude(net) * 20000 > oldest

\* Where the code itself takes a side: acceleration calls a flat candle a
\* fall (momentum.rs:60), an RSI without any change is 100 (rsi.rs:64-67), and
\* a trend that starts lower needs a smaller move (tick_trend.rs:72-78).
TakesASide(st) ==
  LET closed == st.agg.closed
      oldest == st.trend[1]
      net == st.trend[Len(st.trend)] - oldest
  IN \/ Len(closed) >= 3 /\ Body(closed[Len(closed)]) = 0
     \/ RsiWarm(st.rsi) /\ st.rsi.gain = 0 /\ st.rsi.loss = 0
     \/ ~(Exceeds(net, oldest) <=> Exceeds(net, 2 * Strike - oldest))

Opposite == [Hold |-> "Hold", Up |-> "Down", Down |-> "Up"]

\* CompositeStrategy treats Up and Down alike (composite.rs:179-282): had every
\* price been as far on the other side of the strike, it would have decided
\* for the other outcome, or held as it did, wherever it takes no side itself.
SidesAlike ==
  strategy = "composite" /\ seen # << >> =>
    LET st == memory.composite
        price == seen[Len(seen)].price
    IN \/ TakesASide(st)
       \/ CompositeDecision(After(Mirrored(seen)), 2 * Strike - price, Strike, EntryWindow)
            = Opposite[CompositeDecision(st, price, Strike, EntryWindow)]

\* A market that never left its strike is never entered: what acceleration and
\* the RSI make of a flat market (momentum.rs:60, rsi.rs:64-67) is never enough
\* for the gate (composite.rs:268-270).
NeverEntersFlat ==
  strategy = "composite" /\ entering # Idle => \E i \in DOMAIN seen : seen[i].price # Strike

\* Once the volatility estimator is warm, the quantitative strategy enters only
\* if two of the prices it sampled differ: with sigma 0, d2 is 0 and the
\* probability one half, however far the price is from the strike (normal.rs:36).
QuantNeedsVolatility ==
  strategy = "quant" /\ entering # Idle =>
    LET samples == {i \in DOMAIN seen : i % Stride = 0}
    IN Cardinality(samples) > Warmup => \E i, j \in samples : seen[i].price # seen[j].price

\* The winner settlement falls back to when the catalog names none.
Winner(price) == IF price > Strike THEN "Up" ELSE "Down"

\* Were the market resolved on the very tick V1 entered on, V1 would win: the
\* fallback of winning_outcome_name "mirrors V1BasicStrategy" (settlement.rs:36).
V1MirrorsSettlement == strategy = "v1" /\ entering # Idle => entering.outcome = Winner(entering.price)

\* An order can be filled at the ask it was sized for: its limit is at the ask
\* or above, on the market's price grid and at most a tick below 1, though the
\* ask may be finer than the grid (decision_center.rs:147-156).
LimitCoversAsk ==
  [][Len(intents') > Len(intents) =>
       LET limit == intents'[Len(intents')].limit
       IN entering.ask <= limit /\ limit <= One - TickSize /\ limit % TickSize = 0]_vars
=============================================================================
