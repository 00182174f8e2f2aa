----------------------------- MODULE Specialist -----------------------------
(***************************************************************************)
(* The one registered strategy, the BNB range reversion specialist: five   *)
(* conditions, each worth some points, and a signal when they add up to    *)
(* enough.  Points are counted in halves; the ratio of wick to body is     *)
(* rounded down, which cannot move a sum of whole halves past the minimum. *)
(***************************************************************************)
EXTENDS RegimeRules

MinScore == 2 * 78

NearRangeLow(v) ==
  LET span == v.rangeHigh - v.rangeLow
  IN  span > 0 /\ 10 * (v.close - v.rangeLow) <= 3 * span

Oversold(v)  == v.rsi < 40
VolumeUp(v)  == v.volumeRatio > 8
Bullish(v)   == v.close >= v.open

Body(v)      == Abs(v.close - v.open)
LowerWick(v) == Smaller(v.open, v.close) - v.low
Rejected(v)  == Body(v) > 0 /\ 2 * LowerWick(v) > 3 * Body(v)

If(condition, points) == IF condition THEN points ELSE 0

Score(v) ==
    If(NearRangeLow(v), 50)
  + If(Oversold(v), 40 + (40 - v.rsi))
  + If(VolumeUp(v), 30 + Smaller(20, 10 * (v.volumeRatio - 8)))
  + If(Bullish(v), 30)
  + If(Rejected(v), 20 + Smaller(30, (10 * LowerWick(v)) \div Body(v)))
  + If(v.volatility < 20, 10)

\* evaluate: the prerequisites, of which only the regime can fail for a symbol
\* and a timeframe the specialist supports, and the score.
Signals(regime, v) == regime = "sideways_range" /\ Score(v) >= MinScore

Met(v) == If(NearRangeLow(v), 1) + If(Oversold(v), 1) + If(VolumeUp(v), 1)
            + If(Bullish(v), 1) + If(Rejected(v), 1)
=============================================================================
