----------------------------- MODULE Strategies -----------------------------
(***************************************************************************)
(* The three strategies behind the Strategy port, what each remembers, and *)
(* the sizing of an order.  A decision is "Hold" or the outcome to enter.  *)
(* Confidence is left out: the decision center only logs it.               *)
(***************************************************************************)
EXTENDS Indicators

CONSTANTS EntryWindow,  \* entry_window_secs
          DangerZone,   \* danger_zone_secs
          Margin,       \* V1BasicStrategy.margin
          Stride,       \* QuantModelConfig.vol_update_stride
          Warmup,       \* QuantModelConfig.vol_warmup_updates
          Percent       \* SIZING_FRACTION, in percent of the bankroll

ASSUME StrategiesAssumption ==
  /\ EntryWindow \in Nat /\ DangerZone \in Nat /\ Margin \in Nat
  /\ Stride \in Nat \ {0} /\ Warmup \in Nat /\ Percent \in 0..100

Outcomes == {"Up", "Down"}
Side(x) == IF x > 0 THEN "Up" ELSE "Down"

\* The time gate of the composite and the quantitative strategy.
InWindow(secs) == DangerZone < secs /\ secs <= EntryWindow

-----------------------------------------------------------------------------
(* CompositeStrategy: the state behind its mutex, and the score, doubled   *)

NoComposite == [agg |-> NoCandles, fast |-> NoEma, slow |-> NoEma, rsi |-> NoRsi, trend |-> << >>]

CompositeUpdate(st, tick) ==
  LET agg == OnTick(st.agg, tick.price, tick.at)
      close == st.agg.current[1].close
      Then(updated, kept) == IF ClosesCandle(st.agg, tick.at) THEN updated ELSE kept
  IN [agg |-> agg,
      fast |-> Then(EmaUpdate(st.fast, close, FastPeriod), st.fast),
      slow |-> Then(EmaUpdate(st.slow, close, SlowPeriod), st.slow),
      rsi |-> Then(RsiUpdate(st.rsi, close), st.rsi),
      trend |-> Pushed(st.trend, tick.price, TrendWindow)]

\* A distance from the strike, in thousandths of a percent of it, and its weight.
Tiers == <<[over |-> 100, weight |-> 14], [over |-> 20, weight |-> 10],
           [over |-> 5, weight |-> 6], [over |-> 1, weight |-> 2]>>

WindowDelta(price, strike) ==
  LET delta == price - strike
      reached == {i \in DOMAIN Tiers : Magnitude(delta) * 100000 > Tiers[i].over * strike}
      first == CHOOSE i \in reached : \A j \in reached : i <= j
  IN IF reached = {} THEN 0 ELSE Sign(delta) * Tiers[first].weight

\* MUTANT of RsiVote: follows the RSI instead of betting against it.
RsiVoteFollows(rsi) == IF Overbought(rsi) THEN 4 ELSE IF Oversold(rsi) THEN -4 ELSE 0

\* The RSI is contrarian.
RsiVote(rsi) == IF Overbought(rsi) THEN -4 ELSE IF Oversold(rsi) THEN 4 ELSE 0

Score(st, price, strike) ==
  WindowDelta(price, strike)
    + 4 * MicroMomentum(st.agg.closed)
    + 3 * Acceleration(st.agg.closed)
    + 2 * CrossoverSign(st.fast, st.slow)
    + RsiVote(st.rsi)
    + 4 * TrendSignal(st.trend)

\* score_norm is 7, min_confidence 0.40.
Confident(score) == Magnitude(score) * 10 >= 4 * 14

CompositeDecision(st, price, strike, secs) ==
  LET score == Score(st, price, strike)
  IN IF InWindow(secs) /\ Confident(score) THEN Side(score) ELSE "Hold"

-----------------------------------------------------------------------------
(* QuantStrategy.  Of the volatility it matters whether it is trusted and  *)
(* whether it is 0; of the probability, on which side of one half it is.   *)
(* No order book is ever fed to the model, so its drift is 0.              *)

NoVol == [ticks |-> 0, last |-> << >>, moved |-> FALSE, count |-> 0]

\* MUTANT of VolUpdate: every tick is a sample.
VolUpdateEveryTick(vol, price) ==
  [ticks |-> vol.ticks + 1, last |-> <<price>>,
   moved |-> vol.moved \/ (vol.last # << >> /\ vol.last[1] # price),
   count |-> vol.count + (IF vol.last = << >> THEN 0 ELSE 1)]

VolUpdate(vol, price) ==
  LET ticks == vol.ticks + 1
      known == vol.last # << >>
  IN IF ticks % Stride # 0 THEN [vol EXCEPT !.ticks = ticks]
     ELSE [ticks |-> ticks,
           last |-> <<price>>,
           moved |-> vol.moved \/ (known /\ vol.last[1] # price),
           count |-> vol.count + (IF known THEN 1 ELSE 0)]

\* Cold, the estimator answers with the fallback, which is not 0.
VolIsZero(vol) == vol.count >= Warmup /\ ~vol.moved

\* The side of 0 that d2 is on: 0 without volatility.
D2(vol, price, strike) == IF VolIsZero(vol) THEN 0 ELSE Sign(price - strike)

\* The order books' nudge of the probability: nothing ever updates their imbalance.
DriftNudge == 0

\* compute_signal: the side of one half that the probability of Up is on.
Edge(vol, price, strike) == Sign(D2(vol, price, strike) + DriftNudge)

\* Whether the edge reaches min_edge is left open, unless there is none.
QuantDecisions(vol, price, strike, secs) ==
  LET edge == Edge(vol, price, strike)
  IN IF ~InWindow(secs) \/ edge = 0 THEN {"Hold"} ELSE {"Hold", Side(edge)}

-----------------------------------------------------------------------------
(* V1BasicStrategy *)

\* MUTANT of V1Decision: a price at the strike counts as Up.
V1DecisionTiesUp(price, strike, secs) ==
  IF \/ secs > EntryWindow \/ secs <= 0 \/ Magnitude(price - strike) < Margin
  THEN "Hold" ELSE IF price >= strike THEN "Up" ELSE "Down"

V1Decision(price, strike, secs) ==
  IF \/ secs > EntryWindow \/ secs <= 0 \/ Magnitude(price - strike) < Margin
  THEN "Hold" ELSE Side(price - strike)

-----------------------------------------------------------------------------
(* Strategy::evaluate of whichever one is wired *)

Names == {"composite", "quant", "v1"}
NoMemory == [composite |-> NoComposite, vol |-> NoVol]

\* A price or a strike that is not positive is turned down before any update.
Usable(name, tick, strike) == name = "v1" \/ (tick.price > 0 /\ strike > 0)

\* What the strategy remembers of a tick, outside its window too.
Remembered(name, memory, tick, strike, secs) ==
  IF ~Usable(name, tick, strike) THEN memory
  ELSE CASE name = "composite" -> [memory EXCEPT !.composite = CompositeUpdate(@, tick)]
         [] name = "quant" -> [memory EXCEPT !.vol = VolUpdate(@, tick.price)]
         [] name = "v1" -> memory

\* What it may decide, its memory updated.
Decisions(name, memory, tick, strike, secs) ==
  IF ~Usable(name, tick, strike) THEN {"Hold"}
  ELSE CASE name = "composite" -> {CompositeDecision(memory.composite, tick.price, strike, secs)}
         [] name = "quant" -> QuantDecisions(memory.vol, tick.price, strike, secs)
         [] name = "v1" -> {V1Decision(tick.price, strike, secs)}

-----------------------------------------------------------------------------
(* The sizing models: a bankroll in thousandths, shares in hundredths.     *)

\* FixedFractionSizingModel: what the price buys with that fraction of the bankroll.  It is
\* rounded up: the code does not round, and takes nothing but a size of 0 as one of 0.
Size(bankroll, price) == IF price <= 0 THEN 0 ELSE (bankroll * Percent + price - 1) \div price
=============================================================================
