---------------------------- MODULE RegimeRules ----------------------------
(***************************************************************************)
(* From the indicators of a candle to a market regime: the detector takes  *)
(* the first rule that applies, and the stability overlay keeps its answer *)
(* only when the values are clear and the regime is persistent.  Indicator *)
(* values are integers: drawdown in per cent, volatility in thousandths,   *)
(* slope in ten-thousandths, volume ratio in tenths, prices in ticks above *)
(* any base.  They are known, because every candle that is classified has  *)
(* the history they need.                                                  *)
(***************************************************************************)
EXTENDS Integers

CONSTANT Thresholds   \* RegimeConfig

ASSUME ThresholdsAssumption ==
  /\ Thresholds \in [crash : Int, high : Int, min : Nat \ {0}, max : Nat,
                     bull : Int, bear : Int, uncertain : Nat, confident : Nat]
  /\ Thresholds.min < Thresholds.max

View == [drawdown : Int, volatility : Nat, slope : Int, rsi : 0..100,
         volumeRatio : Nat, rangeLow : Int, rangeHigh : Int,
         open : Int, low : Int, close : Int]

Safety == {"crash_liquidation_environment", "high_volatility_chaos"}
Regime == Safety \union
  {"low_volatility_compression", "bull_trend", "bear_trend", "sideways_range",
   "uncertain_regime"}
Verdict == Regime \union {"regime_transition"}

\* Mutant: the drawdown is taken for a positive number.
Crash_Sign(v) == v.drawdown >= -Thresholds.crash

Crash(v)  == v.drawdown <= Thresholds.crash
Chaos(v)  == v.volatility >= Thresholds.high
Still(v)  == v.volatility <= Thresholds.min
Bull(v)   == v.slope >= Thresholds.bull /\ v.rsi >= 50
Bear(v)   == v.slope <= Thresholds.bear /\ v.rsi <= 50
Ranges(v) == Thresholds.min < v.volatility /\ v.volatility < Thresholds.max

\* The first rule that applies, safety first.
Classify(v) ==
  IF      Crash(v)  THEN "crash_liquidation_environment"
  ELSE IF Chaos(v)  THEN "high_volatility_chaos"
  ELSE IF Still(v)  THEN "low_volatility_compression"
  ELSE IF Bull(v)   THEN "bull_trend"
  ELSE IF Bear(v)   THEN "bear_trend"
  ELSE IF Ranges(v) THEN "sideways_range"
  ELSE "uncertain_regime"

---------------------------------------------------------------------------
(* Confidence is a fraction <<numerator, denominator>>.                    *)

Abs(x)        == IF x < 0 THEN -x ELSE x
Smaller(x, y) == IF x < y THEN x ELSE y

\* 1 in the middle of the volatility band, 0 at its edges.
RangeConfidence(v) ==
  LET width == Thresholds.max - Thresholds.min
  IN  <<width - Abs(2 * v.volatility - (Thresholds.min + Thresholds.max)), width>>

\* Seven tenths for the slope beyond its threshold, three for the RSI; an RSI
\* of exactly 50 counts in full, one next to it for almost nothing.
TrendConfidence(v, threshold) ==
  LET scale    == Abs(threshold) + 10
      distance == Smaller(Abs(v.slope - threshold), scale)
      strength == IF v.rsi = 50 THEN 20 ELSE Smaller(Abs(v.rsi - 50), 20)
  IN  <<140 * distance + 3 * scale * strength, 200 * scale>>

StillConfidence(v) == <<Thresholds.min - v.volatility, Thresholds.min>>

Confidence(raw, v) ==
  CASE raw = "sideways_range" -> RangeConfidence(v)
    [] raw = "bull_trend"     -> TrendConfidence(v, Thresholds.bull)
    [] raw = "bear_trend"     -> TrendConfidence(v, Thresholds.bear)
    [] raw = "low_volatility_compression" -> StillConfidence(v)
    [] OTHER                  -> <<1, 10>>

Below(confidence, percent) == 100 * confidence[1] < percent * confidence[2]

\* The rules of the overlay.  Safety regimes pass without a doubt.
Stable(raw, confidence, persistent) ==
  IF raw \in Safety THEN raw
  ELSE IF Below(confidence, Thresholds.uncertain) THEN "uncertain_regime"
  ELSE IF Below(confidence, Thresholds.confident) \/ ~persistent
       THEN "regime_transition"
  ELSE raw
=============================================================================
