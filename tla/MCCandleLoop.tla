---------------------------- MODULE MCCandleLoop ----------------------------
(* Instances of CandleLoop for TLC: the thresholds that main runs with, and *)
(* a few markets.                                                           *)
EXTENDS CandleLoop

CONSTANTS testnet, shadow

Defaults == [crash |-> -10, high |-> 50, min |-> 2, max |-> 20,
             bull |-> 5, bear |-> -5, uncertain |-> 30, confident |-> 60]

\* In the middle of the band, with and without the specialist's pattern.
Entry == [drawdown |-> -1, volatility |-> 11, slope |-> 0, rsi |-> 35,
          volumeRatio |-> 10, rangeLow |-> 0, rangeHigh |-> 12,
          open |-> 2, low |-> 0, close |-> 3]
Calm  == [Entry EXCEPT !.rsi = 55, !.volumeRatio = 8, !.close = 9]

\* The same pattern in a crash, at the edge of the band, and in a trend.
Fall  == [Entry EXCEPT !.drawdown = -12]
Edge  == [Entry EXCEPT !.volatility = 18]
Rise  == [Entry EXCEPT !.slope = 20, !.rsi = 70]

TwoMarkets == { <<Entry, Entry, Entry>>, <<Edge, Fall, Entry>> }
CalmMarket == { <<Calm, Calm, Calm>> }
ChangingMarket == { <<Calm, Rise, Calm, Rise>>, <<Rise, Calm, Calm, Rise>> }
=============================================================================
