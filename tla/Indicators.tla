----------------------------- MODULE Indicators -----------------------------
(***************************************************************************)
(* The indicators of CompositeStrategy, each a record and the operators    *)
(* that update and read it.  Prices and times are integers.  An average of *)
(* f64s is kept as an exact fraction num / den, so rounding is left out.   *)
(* high and low of a candle are left out: nothing reads them.              *)
(***************************************************************************)
EXTENDS Integers, Sequences, FiniteSets

CONSTANTS BucketSecs,   \* CompositeConfig.candle_secs
          HistoryCap,   \* CompositeConfig.candle_history
          TrendWindow,  \* CompositeConfig.tick_trend_window
          FastPeriod,   \* the period of ema_fast
          SlowPeriod,   \* the period of ema_slow
          RsiPeriod     \* the period of the RSI

ASSUME IndicatorsAssumption ==
  /\ BucketSecs \in Nat \ {0} /\ HistoryCap \in Nat \ {0} /\ FastPeriod \in Nat \ {0}
  /\ SlowPeriod \in Nat \ {0} /\ RsiPeriod \in Nat \ {0, 1} /\ TrendWindow \in Nat \ {0, 1}

Sign(x) == IF x > 0 THEN 1 ELSE IF x < 0 THEN -1 ELSE 0
Magnitude(x) == IF x < 0 THEN -x ELSE x
Larger(x, y) == IF x > y THEN x ELSE y

\* A ring buffer of capacity cap takes x.
Pushed(ring, x, cap) == IF Len(ring) >= cap THEN Append(Tail(ring), x) ELSE Append(ring, x)

-----------------------------------------------------------------------------
(* CandleAggregator: current holds at most one candle *)

NoCandles == [current |-> << >>, closed |-> << >>]
Bucket(ts) == ts \div BucketSecs
Fresh(price, ts) == [bucket |-> Bucket(ts), open |-> price, close |-> price]
Body(candle) == candle.close - candle.open

\* Any other bucket closes the candle, an older one too.
ClosesCandle(agg, ts) == agg.current # << >> /\ agg.current[1].bucket # Bucket(ts)

\* MUTANT of OnTick: the tick that closes a candle is also its close.
OnTickClosesWithIt(agg, price, ts) ==
  IF ClosesCandle(agg, ts)
  THEN [current |-> <<Fresh(price, ts)>>,
        closed |-> Pushed(agg.closed, [agg.current[1] EXCEPT !.close = price], HistoryCap)]
  ELSE [agg EXCEPT !.current = IF @ = << >> THEN <<Fresh(price, ts)>> ELSE <<[@[1] EXCEPT !.close = price]>>]

OnTick(agg, price, ts) ==
  IF ClosesCandle(agg, ts)
  THEN [current |-> <<Fresh(price, ts)>>, closed |-> Pushed(agg.closed, agg.current[1], HistoryCap)]
  ELSE [agg EXCEPT !.current = IF @ = << >> THEN <<Fresh(price, ts)>> ELSE <<[@[1] EXCEPT !.close = price]>>]

-----------------------------------------------------------------------------
(* Ema: the first sample seeds it, then k = 2 / (period + 1) *)

NoEma == [num |-> 0, den |-> 1, count |-> 0]

EmaUpdate(ema, x, period) ==
  IF ema.count = 0 THEN [num |-> x, den |-> 1, count |-> 1]
  ELSE [num |-> 2 * x * ema.den + (period - 1) * ema.num,
        den |-> (period + 1) * ema.den,
        count |-> ema.count + 1]

CrossoverSign(fast, slow) ==
  IF fast.count < FastPeriod \/ slow.count < SlowPeriod THEN 0
  ELSE Sign(fast.num * slow.den - slow.num * fast.den)

-----------------------------------------------------------------------------
(* Rsi: gain and loss are the two averages times their common denominator, *)
(* which drops out of every comparison; count counts changes, not closes.  *)

NoRsi == [gain |-> 0, loss |-> 0, den |-> 1, last |-> << >>, count |-> 0]

RsiUpdate(rsi, close) ==
  IF rsi.last = << >> THEN [rsi EXCEPT !.last = <<close>>]
  ELSE LET change == close - rsi.last[1]
           alone == rsi.count = 0
           Averaged(avg, x) == IF alone THEN x ELSE x * rsi.den + (RsiPeriod - 1) * avg
       IN [gain |-> Averaged(rsi.gain, Larger(change, 0)),
           loss |-> Averaged(rsi.loss, Larger(-change, 0)),
           den |-> IF alone THEN 1 ELSE RsiPeriod * rsi.den,
           last |-> <<close>>,
           count |-> rsi.count + 1]

RsiWarm(rsi) == rsi.count >= RsiPeriod

\* MUTANT of Overbought: an RSI without a loss has no value.
OverboughtNoDivision(rsi) == RsiWarm(rsi) /\ rsi.loss # 0 /\ rsi.gain > 3 * rsi.loss

\* value() > 75; without a loss it is 100, without a change too.
Overbought(rsi) == RsiWarm(rsi) /\ (rsi.loss = 0 \/ rsi.gain > 3 * rsi.loss)

\* value() < 25
Oversold(rsi) == RsiWarm(rsi) /\ rsi.loss # 0 /\ 3 * rsi.gain < rsi.loss

-----------------------------------------------------------------------------
(* TickTrend: consistency of at least 0.60, a net move of over 0.005 % *)

MinSamples == Larger(TrendWindow \div 2, 2)
Moves(prices, s) == Cardinality({i \in 2..Len(prices) : Sign(prices[i] - prices[i - 1]) = s})

TrendSignal(prices) ==
  LET n == Len(prices)
      up == Moves(prices, 1)
      down == Moves(prices, -1)
      net == prices[n] - prices[1]
  IN IF \/ n < MinSamples
        \/ up + down = 0
        \/ prices[1] = 0
        \/ 10 * Larger(up, down) < 6 * (up + down)
        \/ Magnitude(net) * 20000 <= prices[1]
     THEN 0 ELSE Sign(net)

-----------------------------------------------------------------------------
(* micro_momentum and acceleration of the closed candles *)

MicroMomentum(closed) ==
  LET n == Len(closed)
  IN IF n < 2 THEN 0 ELSE Sign(Body(closed[n]) + Body(closed[n - 1]))

\* A flat latest candle counts as falling, whose negative is 1.
Acceleration(closed) ==
  LET n == Len(closed)
      latest == Body(closed[n])
      reference == Body(closed[n - 2])
      rising == IF latest > 0 THEN 1 ELSE -1
  IN IF n < 3 THEN 0
     ELSE IF latest * reference > 0 /\ Magnitude(latest) > Magnitude(reference)
          THEN rising
          ELSE -rising
=============================================================================
