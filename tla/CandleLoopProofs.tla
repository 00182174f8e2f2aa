-------------------------- MODULE CandleLoopProofs --------------------------
(***************************************************************************)
(* Proofs about CandleLoop for every length of the stream, every limit and *)
(* every set of modes, and about what a signal says about the market, for  *)
(* all thresholds and all values of the indicators.                        *)
(***************************************************************************)
EXTENDS CandleLoop, SumTheorems

---------------------------------------------------------------------------
(* The signal and the regime.                                              *)

\* The points of a condition, and what each condition can be worth at most.
LEMMA RsiPoints ==
  ASSUME NEW v \in View
  PROVE  /\ If(Oversold(v), 40 + (40 - v.rsi)) \in Int
         /\ If(Oversold(v), 40 + (40 - v.rsi)) <= If(Oversold(v), 80)
BY DEF If, Oversold, View

LEMMA VolumePoints ==
  ASSUME NEW v \in View
  PROVE  /\ If(VolumeUp(v), 30 + Smaller(20, 10 * (v.volumeRatio - 8))) \in Int
         /\ If(VolumeUp(v), 30 + Smaller(20, 10 * (v.volumeRatio - 8)))
              <= If(VolumeUp(v), 50)
BY DEF If, VolumeUp, Smaller, View

LEMMA WickPoints ==
  ASSUME NEW v \in View
  PROVE  LET points == If(Rejected(v),
                          20 + Smaller(30, (10 * LowerWick(v)) \div Body(v)))
         IN  points \in Int /\ points <= If(Rejected(v), 50)
<1>1. Body(v) \in Int /\ LowerWick(v) \in Int
  BY DEF Body, LowerWick, Abs, Smaller, View
<1>2. CASE Rejected(v)
  <2>1. Body(v) > 0
    BY <1>2 DEF Rejected
  <2>2. (10 * LowerWick(v)) \div Body(v) \in Int
    BY <1>1, <2>1
  <2> QED
    BY <1>2, <2>2 DEF If, Smaller
<1>3. CASE ~Rejected(v)
  BY <1>3 DEF If
<1> QED
  BY <1>2, <1>3

\* Whatever the indicators, the score takes at least three of the five
\* conditions the specialist lists; the two most valuable ones and the bonus
\* are not enough.
THEOREM ThreeConditions ==
  ASSUME NEW v \in View, Score(v) >= MinScore
  PROVE  Met(v) >= 3
<1> DEFINE rsi    == If(Oversold(v), 40 + (40 - v.rsi))
           volume == If(VolumeUp(v), 30 + Smaller(20, 10 * (v.volumeRatio - 8)))
           wick   == If(Rejected(v),
                        20 + Smaller(30, (10 * LowerWick(v)) \div Body(v)))
<1>1. /\ rsi \in Int /\ rsi <= If(Oversold(v), 80)
      /\ volume \in Int /\ volume <= If(VolumeUp(v), 50)
      /\ wick \in Int /\ wick <= If(Rejected(v), 50)
  BY RsiPoints, VolumePoints, WickPoints
<1>2. Score(v) = If(NearRangeLow(v), 50) + rsi + volume + If(Bullish(v), 30)
                   + wick + If(v.volatility < 20, 10)
  BY DEF Score
<1> HIDE DEF rsi, volume, wick
<1> QED
  BY <1>1, <1>2 DEF If, Met, MinScore

LEMMA ClassifyType == \A v : Classify(v) \in Regime
BY DEF Classify, Regime, Safety

\* A range that is held stable was classified as one, clearly enough.
LEMMA HeldRange ==
  ASSUME NEW raw \in Regime, NEW confidence, NEW persistent,
         Stable(raw, confidence, persistent) = "sideways_range"
  PROVE  raw = "sideways_range" /\ ~Below(confidence, Thresholds.confident)
BY DEF Stable, Safety, Regime

---------------------------------------------------------------------------
(* Type correctness.                                                       *)

\* A non-empty set of naturals has a least element, and Min is that element:
\* the list of pending candles is worked off from its oldest.
LEMMA MinIsLeast ==
  ASSUME NEW S, S \subseteq Nat, S # {}
  PROVE  Min(S) \in S /\ \A n \in S : Min(S) <= n
<1>1. PICK x \in S : \A y \in S : x <= y
  BY LeastExists
<1> QED
  BY <1>1 DEF Min

LEMMA CandleNosAreNaturals == CandleNos \subseteq Nat \ {0}
BY CandleLoopAssumption DEF CandleNos

LEMMA InitTyped == Init => CandleTypeOK
<1> SUFFICES ASSUME Init PROVE CandleTypeOK
  OBVIOUS
<1>1. 0 \in 0..LastCandle /\ 0 \in 0..Lookback /\ 0 \in 0..MaxRetries
  BY CandleLoopAssumption
<1>2. /\ candles \in [CandleNos -> {Absent, Partial, Complete}]
      /\ decisions \in [CandleNos -> 0..Lookback]
      /\ checkpoint \in [Modes -> 0..LastCandle]
      /\ approvals \in [CandleNos -> 0..2]
  BY <1>1 DEF Init
<1> QED
  BY <1>1, <1>2 DEF Init, CandleTypeOK, Working, NoRegime

\* The rows counted for a candle stay within the bound.
LEMMA RecordedType ==
  ASSUME decisions \in [CandleNos -> 0..Lookback], NEW n \in CandleNos
  PROVE  Recorded(n) \in [CandleNos -> 0..Lookback]
BY CandleLoopAssumption DEF Recorded

\* Storing a candle keeps table candles well-formed.
LEMMA StoreType ==
  ASSUME CandleTypeOK, StoreCandle
  PROVE  CandleTypeOK'
<1>1. response \subseteq Nat /\ response # {}
  BY CandleNosAreNaturals DEF CandleTypeOK, StoreCandle
<1>2. Min(response) \in CandleNos
  BY <1>1, MinIsLeast DEF CandleTypeOK
<1>3. candles' \in [CandleNos -> {Absent, Partial, Complete}]
  BY <1>2 DEF CandleTypeOK, StoreCandle
<1>4. response' \subseteq CandleNos
  BY DEF CandleTypeOK, StoreCandle
<1> QED
  BY <1>3, <1>4 DEF CandleTypeOK, StoreCandle, outside, engine, Working

\* The oldest pending candle is a candle.
LEMMA OldestPending ==
  ASSUME CandleTypeOK, pending # {}
  PROVE  /\ Min(pending) \in pending /\ Min(pending) \in CandleNos
         /\ \A n \in pending : Min(pending) <= n
BY CandleNosAreNaturals, MinIsLeast DEF CandleTypeOK

\* The end of the process leaves nothing behind but the tables.
LEMMA GoneTyped ==
  ASSUME CandleTypeOK, ProcessGone, running' \in BOOLEAN
  PROVE  CandleTypeOK'
<1>1. /\ now' = now /\ view' = view
      /\ candles' = candles /\ decisions' = decisions
      /\ checkpoint' = checkpoint /\ signals' = signals /\ mode' = mode
      /\ approvals' = approvals /\ pc' = "off"
  BY DEF ProcessGone, outside, tables
<1>2. /\ active' = {} /\ attempt' = 0 /\ response' = {} /\ forming' = 0
      /\ pending' = {} /\ cur' = 0 /\ verdict' = NoRegime
  BY DEF ProcessGone, Idle
<1> QED
  BY <1>1, <1>2, CandleLoopAssumption DEF CandleTypeOK, Working

LEMMA NextTyped == CandleTypeOK /\ [Next]_vars => CandleTypeOK'
<1> SUFFICES ASSUME CandleTypeOK, [Next]_vars PROVE CandleTypeOK'
  OBVIOUS
<1> USE CandleLoopAssumption DEF outside, engine, tables, Working
<1>1. CASE CandleCloses
  BY <1>1 DEF CandleCloses, CandleTypeOK, work
<1>2. CASE Start
  BY <1>2 DEF Start, CandleTypeOK, work
<1>3. CASE Begin \/ StopSignal
  BY <1>3 DEF Begin, StopSignal, CandleTypeOK, work
<1>4. CASE Ends \/ Stops
  <2>1. ProcessGone
    BY <1>4 DEF Ends, Stops
  <2>2. running' \in BOOLEAN
    BY <2>1 DEF ProcessGone
  <2> QED
    BY <2>1, <2>2, GoneTyped
<1>5. CASE PollFails \/ FetchFails \/ PollDone
  BY <1>5 DEF PollFails, FetchFails, PollDone, Idle, CandleTypeOK
<1>6. CASE Poll \/ IngestDone \/ NoSignal \/ Reject
  BY <1>6 DEF Poll, IngestDone, NoSignal, Reject, CandleTypeOK, work
<1>7. CASE FetchKlines \/ Retry \/ StripForming \/ ListPending
  BY <1>7 DEF FetchKlines, Retry, StripForming, ListPending, CandleTypeOK
<1>8. CASE StoreCandle
  BY <1>8, StoreType
<1>9. CASE TooLittleHistory
  BY <1>9 DEF TooLittleHistory, CandleTypeOK
<1>10. CASE DetectRegime
  <2>1. Min(pending) \in CandleNos
    BY <1>10, OldestPending DEF DetectRegime
  <2>2. decisions' \in [CandleNos -> 0..Lookback]
    BY <1>10, <2>1, RecordedType DEF DetectRegime, CandleTypeOK
  <2> QED
    BY <1>10, <2>1, <2>2 DEF DetectRegime, CandleTypeOK
<1>11. CASE Stabilise
  <2>1. Raw(cur) \in Regime
    BY ClassifyType DEF Raw
  <2>2. verdict' \in Verdict
    BY <1>11, <2>1 DEF Stabilise, Stable, Verdict, Regime
  <2> QED
    BY <1>11, <2>2 DEF Stabilise, CandleTypeOK
<1>12. CASE NewSignal
  BY <1>12 DEF NewSignal, CandleTypeOK, work
<1>13. CASE Approve
  <2>1. approvals' \in [CandleNos -> 0..2] /\ active' \subseteq CandleNos
    BY <1>13 DEF Approve, CandleTypeOK
  <2> QED
    BY <1>13, <2>1 DEF Approve, CandleTypeOK, work
<1>14. CASE CandleFails
  BY <1>14 DEF CandleFails, CandleTypeOK
<1>15. CASE UpdateCheckpoint
  BY <1>15 DEF UpdateCheckpoint, CandleTypeOK, CandleNos
<1>16. CASE UNCHANGED vars
  BY <1>16 DEF vars, CandleTypeOK, work
<1> QED
  BY <1>1, <1>2, <1>4, <1>5, <1>6, <1>7, <1>8, <1>9, <1>10, <1>11, <1>12,
     <1>13, <1>14, <1>15, <1>16, <1>3 DEF Next, Progress, Decide

\* Every reachable state of the candle loop is well-typed.
THEOREM CandlesTyped == Spec => []CandleTypeOK
BY InitTyped, NextTyped, PTL DEF Spec

---------------------------------------------------------------------------
(* No candle at or below the checkpoint is processed.  That alone is not   *)
(* inductive: it holds because what a poll still has to do lies beyond the *)
(* checkpoint, because the candle in hand is the oldest of it, and because *)
(* a process that ended leaves nothing to do for a mode it did not run in. *)

Oldest == Working => pending # {} /\ cur = Min(pending)

WorkAhead ==
  /\ pc \in {"off", "starting"} => pending = {}
  /\ \A n \in pending : n > checkpoint[mode]
  /\ Oldest

LEMMA AheadSafe == CandleTypeOK /\ WorkAhead => NotAgain
BY OldestPending DEF WorkAhead, Oldest, Working, NotAgain

LEMMA AheadInit == Init => WorkAhead
BY DEF Init, WorkAhead, Oldest, Working

\* Moving the checkpoint to the oldest pending candle leaves the others ahead.
LEMMA CheckpointKeepsAhead ==
  ASSUME CandleTypeOK, WorkAhead, UpdateCheckpoint
  PROVE  WorkAhead'
<1>1. /\ pending # {} /\ cur = Min(pending)
      /\ checkpoint'[mode'] = cur
  BY DEF WorkAhead, Oldest, Working, UpdateCheckpoint, CandleTypeOK, engine
<1>2. \A n \in pending' : n > cur
  BY <1>1, OldestPending, CandleNosAreNaturals
     DEF UpdateCheckpoint, CandleTypeOK
<1> QED
  BY <1>1, <1>2 DEF WorkAhead, Oldest, Working, UpdateCheckpoint

LEMMA AheadNext == CandleTypeOK /\ WorkAhead /\ [Next]_vars => WorkAhead'
<1> SUFFICES ASSUME CandleTypeOK, WorkAhead, [Next]_vars PROVE WorkAhead'
  OBVIOUS
<1> USE DEF WorkAhead, Oldest, Working, outside, engine, tables
<1>1. CASE CandleCloses \/ Begin \/ StopSignal \/ Poll \/ IngestDone
  BY <1>1 DEF CandleCloses, Begin, StopSignal, Poll, IngestDone, work
<1>2. CASE Start
  BY <1>2 DEF Start, work
<1>3. CASE Ends \/ Stops \/ PollFails \/ FetchFails \/ PollDone
  BY <1>3 DEF Ends, Stops, ProcessGone, PollFails, FetchFails, PollDone, Idle
<1>4. CASE FetchKlines \/ Retry \/ StripForming
  BY <1>4 DEF FetchKlines, Retry, StripForming
<1>5. CASE StoreCandle
  BY <1>5 DEF StoreCandle
<1>6. CASE ListPending
  BY <1>6 DEF ListPending
<1>7. CASE TooLittleHistory \/ CandleFails
  BY <1>7 DEF TooLittleHistory, CandleFails
<1>8. CASE DetectRegime
  BY <1>8 DEF DetectRegime
<1>9. CASE Stabilise
  BY <1>9 DEF Stabilise
<1>10. CASE Decide
  BY <1>10 DEF Decide, NewSignal, NoSignal, Approve, Reject, work
<1>11. CASE UpdateCheckpoint
  BY <1>11, CheckpointKeepsAhead
<1>12. CASE UNCHANGED vars
  BY <1>12 DEF vars, work
<1> QED
  BY <1>1, <1>2, <1>3, <1>4, <1>5, <1>6, <1>7, <1>8, <1>9, <1>10, <1>11,
     <1>12 DEF Next, Progress

\* A candle at or below the checkpoint of the mode is never processed again:
\* for every stream, every number of modes on the database, and any sequence
\* of failures and restarts.
THEOREM ProcessedNotAgain == Spec => []NotAgain
<1>1. Init => CandleTypeOK /\ WorkAhead
  BY InitTyped, AheadInit
<1>2. CandleTypeOK /\ WorkAhead /\ [Next]_vars => (CandleTypeOK /\ WorkAhead)'
  BY NextTyped, AheadNext
<1> QED
  BY <1>1, <1>2, AheadSafe, PTL DEF Spec

---------------------------------------------------------------------------
(* Approvals.  A candle is approved right after its signal was put on      *)
(* record for the first time, and never when it was on record before.      *)

Decided ==
  /\ \A n \in CandleNos : approvals[n] > 0 => n \in signals
  /\ pc = "decide" => cur \in signals /\ approvals[cur] = 0

\* An approval adds one to a candle that had none.
LEMMA ApproveOnce ==
  ASSUME CandleTypeOK, Decided, ApprovedAtMostOnce, Approve
  PROVE  (Decided /\ ApprovedAtMostOnce)'
<1>1. cur \in CandleNos /\ cur \in signals /\ approvals[cur] = 0
  BY DEF CandleTypeOK, Working, Decided, Approve
<1>2. /\ \A n \in CandleNos : approvals'[n] = IF n = cur THEN 1 ELSE approvals[n]
      /\ signals' = signals /\ pc' = "checkpoint"
  BY <1>1 DEF Approve, CandleTypeOK, tables
<1> QED
  BY <1>1, <1>2 DEF Decided, ApprovedAtMostOnce

LEMMA DecidedNext ==
  ASSUME CandleTypeOK, Decided, ApprovedAtMostOnce, [Next]_vars
  PROVE  (Decided /\ ApprovedAtMostOnce)'
<1> USE DEF Decided, ApprovedAtMostOnce, outside, engine, tables
<1>1. CASE CandleCloses \/ Start \/ Begin \/ StopSignal \/ Poll \/ IngestDone
  BY <1>1 DEF CandleCloses, Start, Begin, StopSignal, Poll, IngestDone, work
<1>2. CASE Ends \/ Stops \/ PollFails \/ FetchFails \/ PollDone
  BY <1>2 DEF Ends, Stops, ProcessGone, PollFails, FetchFails, PollDone, Idle
<1>3. CASE FetchKlines \/ Retry \/ StripForming \/ StoreCandle
  BY <1>3 DEF FetchKlines, Retry, StripForming, StoreCandle
<1>4. CASE ListPending \/ TooLittleHistory \/ CandleFails
  BY <1>4 DEF ListPending, TooLittleHistory, CandleFails
<1>5. CASE DetectRegime \/ Stabilise \/ UpdateCheckpoint
  BY <1>5 DEF DetectRegime, Stabilise, UpdateCheckpoint
<1>6. CASE NewSignal
  <2>1. cur \in CandleNos /\ cur \notin signals /\ cur' = cur
    BY <1>6 DEF NewSignal, CandleTypeOK, Working, work
  <2>2. approvals[cur] = 0
    BY <2>1 DEF CandleTypeOK
  <2> QED
    BY <1>6, <2>1, <2>2 DEF NewSignal
<1>7. CASE NoSignal \/ Reject
  BY <1>7 DEF NoSignal, Reject, work
<1>8. CASE Approve
  BY <1>8, ApproveOnce
<1>9. CASE UNCHANGED vars
  BY <1>9 DEF vars, work
<1> QED
  BY <1>1, <1>2, <1>3, <1>4, <1>5, <1>6, <1>7, <1>8, <1>9
     DEF Next, Progress, Decide

\* A candle is approved at most once over all errors, restarts and modes, for
\* any stream, thresholds and number of modes on the database.
THEOREM ApprovedOnce == Spec => []ApprovedAtMostOnce
<1>1. Init => CandleTypeOK /\ Decided /\ ApprovedAtMostOnce
  BY InitTyped DEF Init, Decided, ApprovedAtMostOnce
<1>2. CandleTypeOK /\ Decided /\ ApprovedAtMostOnce /\ [Next]_vars
        => (CandleTypeOK /\ Decided /\ ApprovedAtMostOnce)'
  BY NextTyped, DecidedNext
<1> QED
  BY <1>1, <1>2, PTL DEF Spec

---------------------------------------------------------------------------
(* The market behind an approval.  The verdict in hand is the one the      *)
(* overlay made of the current candle, and a signal was only put on record *)
(* for a range held stable.                                                *)

Fits(n) == Quiet(view[n]) /\ Met(view[n]) >= 3

RangeInHand ==
  /\ pc = "evaluate" /\ verdict = "sideways_range" => Quiet(view[cur])
  /\ pc = "decide" => Fits(cur)

\* What the rules of detector and overlay say together about a stable range.
LEMMA StableRangeIsQuiet ==
  ASSUME NEW v \in View, NEW raw, raw = Classify(v), NEW persistent,
         Stable(raw, Confidence(raw, v), persistent) = "sideways_range"
  PROVE  Quiet(v)
<1>1. raw = "sideways_range" /\ ~Below(Confidence(raw, v), Thresholds.confident)
  BY ClassifyType, HeldRange
<1>2. ~Below(RangeConfidence(v), Thresholds.confident)
  BY <1>1 DEF Confidence
<1>3. ~Crash(v) /\ ~Chaos(v) /\ ~Bull(v) /\ ~Bear(v)
  BY <1>1 DEF Classify
<1> DEFINE width == Thresholds.max - Thresholds.min
           off   == Abs(2 * v.volatility - (Thresholds.min + Thresholds.max))
<1>4. /\ Thresholds.crash \in Int /\ Thresholds.high \in Int
      /\ Thresholds.confident \in Nat /\ width \in Int /\ off \in Int
  BY ThresholdsAssumption DEF View, Abs
<1>5. v.drawdown > Thresholds.crash /\ v.volatility < Thresholds.high
  BY <1>3, <1>4 DEF Crash, Chaos, View
<1>6. 100 * (width - off) >= Thresholds.confident * width
  <2>1. ~(100 * (width - off) < Thresholds.confident * width)
    BY <1>2 DEF Below, RangeConfidence
  <2> HIDE DEF width, off
  <2> QED
    BY <1>4, <2>1
<1>7. 100 * off <= (100 - Thresholds.confident) * width
  <2> HIDE DEF width, off
  <2> QED
    BY <1>4, <1>6
<1> QED
  BY <1>3, <1>5, <1>7 DEF Quiet, Bull, Bear

LEMMA ViewType ==
  ASSUME CandleTypeOK, NEW n \in CandleNos
  PROVE  view[n] \in View
BY CandleLoopAssumption DEF CandleTypeOK, CandleNos

\* Storing a verdict or a signal keeps the verdict in hand true of the candle.
LEMMA VerdictFits ==
  ASSUME CandleTypeOK, Stabilise
  PROVE  verdict' = "sideways_range" => Quiet(view[cur])
<1>1. cur \in CandleNos
  BY DEF CandleTypeOK, Working, Stabilise
<1>2. view[cur] \in View
  BY <1>1, ViewType
<1> QED
  BY <1>2, StableRangeIsQuiet DEF Stabilise, Raw

LEMMA SignalFits ==
  ASSUME CandleTypeOK, RangeInHand, NewSignal
  PROVE  Fits(cur)
<1>1. cur \in CandleNos
  BY DEF CandleTypeOK, Working, NewSignal
<1>2. /\ view[cur] \in View
      /\ verdict = "sideways_range" /\ Score(view[cur]) >= MinScore
  BY <1>1, ViewType DEF NewSignal, Signals
<1> QED
  BY <1>2, ThreeConditions DEF Fits, RangeInHand, NewSignal

LEMMA QuietNext ==
  ASSUME CandleTypeOK, RangeInHand, ApprovedInQuietRange, [Next]_vars
  PROVE  (RangeInHand /\ ApprovedInQuietRange)'
<1> USE DEF RangeInHand, ApprovedInQuietRange, Fits, outside, engine, tables
<1>1. CASE CandleCloses \/ Start \/ Begin \/ StopSignal \/ Poll \/ IngestDone
  BY <1>1 DEF CandleCloses, Start, Begin, StopSignal, Poll, IngestDone, work
<1>2. CASE Ends \/ Stops \/ PollFails \/ FetchFails \/ PollDone
  BY <1>2 DEF Ends, Stops, ProcessGone, PollFails, FetchFails, PollDone, Idle
<1>3. CASE FetchKlines \/ Retry \/ StripForming \/ StoreCandle
  BY <1>3 DEF FetchKlines, Retry, StripForming, StoreCandle
<1>4. CASE ListPending \/ TooLittleHistory \/ CandleFails
  BY <1>4 DEF ListPending, TooLittleHistory, CandleFails
<1>5. CASE DetectRegime \/ UpdateCheckpoint
  BY <1>5 DEF DetectRegime, UpdateCheckpoint
<1>6. CASE Stabilise
  BY <1>6, VerdictFits DEF Stabilise
<1>7. CASE NewSignal
  BY <1>7, SignalFits DEF NewSignal, work
<1>8. CASE NoSignal \/ Reject
  BY <1>8 DEF NoSignal, Reject, work
<1>9. CASE Approve
  <2>1. \A n \in CandleNos : n # cur => approvals'[n] = approvals[n]
    BY <1>9 DEF Approve, CandleTypeOK
  <2> QED
    BY <1>9, <2>1 DEF Approve
<1>10. CASE UNCHANGED vars
  BY <1>10 DEF vars, work
<1> QED
  BY <1>1, <1>2, <1>3, <1>4, <1>5, <1>6, <1>7, <1>8, <1>9, <1>10
     DEF Next, Progress, Decide

\* An approved candle came from a quiet market and met at least three of the
\* five conditions: for all thresholds, all indicator values and any history
\* of regimes, errors and restarts.
THEOREM ApprovedQuiet == Spec => []ApprovedInQuietRange
<1>1. Init => CandleTypeOK /\ RangeInHand /\ ApprovedInQuietRange
  BY InitTyped DEF Init, RangeInHand, ApprovedInQuietRange, NoRegime
<1>2. CandleTypeOK /\ RangeInHand /\ ApprovedInQuietRange /\ [Next]_vars
        => (CandleTypeOK /\ RangeInHand /\ ApprovedInQuietRange)'
  BY NextTyped, QuietNext
<1> QED
  BY <1>1, <1>2, PTL DEF Spec

---------------------------------------------------------------------------
(* The table has no recent hole.  What a request returned is a piece of    *)
(* the stream that reaches Limit candles back from the request, and it is  *)
(* stored oldest first: what is missing below a candle that is still to be *)
(* stored is either still to be stored itself or older than that.          *)

Contiguous ==
  /\ \A n \in response : n <= now + 1
  /\ \A g \in CandleNos, n \in response :
       g < n /\ g \notin response /\ ~Stored(g) => g + Limit <= now

\* A candle that was stored stays stored.
LEMMA StoreAdds ==
  ASSUME CandleTypeOK, StoreCandle
  PROVE  /\ Min(response) \in response /\ Min(response) \in CandleNos
         /\ \A n \in response : Min(response) <= n
         /\ \A n \in CandleNos : Stored(n)' <=> Stored(n) \/ n = Min(response)
<1>1. response \subseteq CandleNos /\ response # {}
  BY DEF CandleTypeOK, StoreCandle
<1>2. /\ Min(response) \in response /\ Min(response) \in CandleNos
      /\ \A n \in response : Min(response) <= n
  BY <1>1, CandleNosAreNaturals, MinIsLeast
<1>3. ASSUME NEW n \in CandleNos
      PROVE  Stored(n)' <=> Stored(n) \/ n = Min(response)
  BY <1>2 DEF StoreCandle, CandleTypeOK, Stored, Absent, Partial, Complete
<1> QED
  BY <1>2, <1>3

LEMMA ContiguousNext ==
  ASSUME CandleTypeOK, Contiguous, RecentHistoryComplete, [Next]_vars
  PROVE  (Contiguous /\ RecentHistoryComplete)'
<1> USE CandleLoopAssumption DEF Contiguous, RecentHistoryComplete, Stored,
        outside, engine, tables
<1>0. /\ now \in Nat /\ CandleNos \subseteq Nat /\ response \subseteq CandleNos
      /\ Limit \in Nat \ {0}
  BY DEF CandleTypeOK, CandleNos
<1>1. CASE CandleCloses
  <2>1. now' = now + 1 /\ response' = response /\ candles' = candles
    BY <1>1 DEF CandleCloses, work
  <2>2. \A g \in CandleNos : g + Limit <= now => g + Limit <= now'
    BY <1>0, <2>1
  <2>3. \A n \in response : n <= now' + 1
    BY <1>0, <2>1
  <2> QED
    BY <2>1, <2>2, <2>3
<1>2. CASE Start \/ Begin \/ StopSignal \/ Poll \/ IngestDone \/ NoSignal
           \/ Reject
  BY <1>2 DEF Start, Begin, StopSignal, Poll, IngestDone, NoSignal, Reject, work
<1>3. CASE Ends \/ Stops \/ PollFails \/ FetchFails \/ PollDone
  BY <1>3 DEF Ends, Stops, ProcessGone, PollFails, FetchFails, PollDone, Idle
<1>4. CASE FetchKlines
  <2>1. /\ response' = {n \in CandleNos : now + 1 - Limit <= n /\ n <= now + 1}
        /\ now' = now /\ candles' = candles
    BY <1>4 DEF FetchKlines
  <2>2. ASSUME NEW g \in CandleNos, NEW n \in response', g < n, g \notin response'
        PROVE  g + Limit <= now
    <3>1. g < now + 1 - Limit
      BY <1>0, <2>1, <2>2
    <3> QED
      BY <1>0, <3>1
  <2> QED
    BY <2>1, <2>2
<1>5. CASE StripForming
  <2>1. /\ response' \subseteq response /\ now' = now /\ candles' = candles
        /\ \A n \in response \ response' : n > now
    BY <1>5 DEF StripForming
  <2>2. ASSUME NEW g \in response \ response', NEW n \in response' PROVE ~(g < n)
    BY <1>0, <2>1
  <2> QED
    BY <2>1, <2>2
<1>6. CASE StoreCandle
  <2> DEFINE x == Min(response)
  <2>1. /\ x \in response /\ x \in CandleNos /\ \A n \in response : x <= n
        /\ \A n \in CandleNos : Stored(n)' <=> Stored(n) \/ n = x
    BY <1>6, StoreAdds
  <2>2. response' = response \ {x} /\ now' = now
    BY <1>6 DEF StoreCandle
  <2> HIDE DEF x, Stored
  <2>3. ASSUME NEW g \in CandleNos, g < x, ~Stored(g) PROVE g + Limit <= now
    <3>1. g \notin response
      BY <1>0, <2>1, <2>3
    <3> QED
      BY <2>1, <2>3, <3>1
  <2>4. RecentHistoryComplete'
    BY <2>1, <2>2, <2>3
  <2>5. Contiguous'
    BY <2>1, <2>2
  <2> QED
    BY <2>4, <2>5
<1>7. CASE Retry \/ ListPending \/ TooLittleHistory \/ DetectRegime \/ Stabilise
  BY <1>7 DEF Retry, ListPending, TooLittleHistory, DetectRegime, Stabilise
<1>8. CASE NewSignal \/ Approve \/ CandleFails \/ UpdateCheckpoint
  BY <1>8 DEF NewSignal, Approve, CandleFails, UpdateCheckpoint, work
<1>9. CASE UNCHANGED vars
  BY <1>9 DEF vars, work
<1> QED
  BY <1>1, <1>2, <1>3, <1>4, <1>5, <1>6, <1>7, <1>8, <1>9
     DEF Next, Progress, Decide

\* A hole in table candles is always older than the Limit candles a request
\* returns, whatever was cut short, for any limit and length of the stream.
THEOREM NoRecentHole == Spec => []RecentHistoryComplete
<1>1. Init => CandleTypeOK /\ Contiguous /\ RecentHistoryComplete
  BY InitTyped DEF Init, Contiguous, RecentHistoryComplete, Stored
<1>2. CandleTypeOK /\ Contiguous /\ RecentHistoryComplete /\ [Next]_vars
        => (CandleTypeOK /\ Contiguous /\ RecentHistoryComplete)'
  BY NextTyped, ContiguousNext
<1> QED
  BY <1>1, <1>2, PTL DEF Spec
=============================================================================
