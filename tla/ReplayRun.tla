----------------------------- MODULE ReplayRun -----------------------------
(***************************************************************************)
(* Replay mode: TradingEngine._run_replay with the ReplayClock, the        *)
(* SimulatedBroker and the risk engine.  The streams, one per symbol and   *)
(* timeframe, are replayed one after the other; the candles of a dataset   *)
(* are chosen as they are read.  One action is one candle: everything here *)
(* lives in one thread and in memory.                                      *)
(***************************************************************************)
EXTENDS RiskEngine, Sequences

CONSTANTS
  Streams,      \* sequence of <<symbol, timeframe>>, in configuration order
  Supported,    \* the streams a registered specialist gives signals on
  Horizon,      \* bound: times are 0..Horizon
  Prices,
  Slippage, Fee,   \* slippage_pct and fee_pct, as parts of Scale
  FillDiv          \* 1, or 2 with enable_partial_fills

ASSUME ReplayAssumption ==
  /\ Streams \in Seq(Symbols \X STRING) /\ Streams # << >>
  /\ Horizon \in Nat
  /\ Prices \subseteq Nat \ {0}
  /\ \A p \in Prices : Allocation % (p * FillDiv) = 0
  /\ Slippage \in Nat /\ Fee \in Nat /\ FillDiv \in Nat \ {0}

\* No specialist gives a signal or the signal is already in the database;
\* a signal on a good book; a signal on a stale, thin or wide one.
Kinds == {"quiet", "signal", "illiquid"}
Times == 0..Horizon
Ids   == (1..Len(Streams)) \X Times

VARIABLES
  stream,    \* index of the stream being replayed
  done,      \* close time of the last candle of it that was read, Never if none
  candle,    \* the candle being processed
  pc,        \* "advance", "process" or "ended"
  outcome,   \* of start(): "running", "complete", "raised" or "killed"
  status,    \* of the row in engine_runs
  zoned,     \* whether the dataset gives its times with a zone
  broker,    \* [Symbols -> Position]: _positions of the broker
  entries,   \* history: ids of the orders the broker filled
  markedAt,  \* history: [Symbols -> time of the candle behind marks]
  missed     \* history: the risk engine was not told of some filled order

loopVars == <<stream, done, candle, pc, outcome, status, zoned>>
history == <<entries, markedAt, missed>>
vars == <<clock, riskVars, loopVars, broker, history>>

NoCandle == [time |-> Never, price |-> 0, kind |-> "quiet"]
Sym(k) == Streams[k][1]

\* ReplayClock() starts at the time of the day; the dataset may lie anywhere.
Init ==
  /\ RiskInit
  /\ clock \in Times /\ zoned \in BOOLEAN
  /\ stream = 1 /\ done = Never /\ candle = NoCandle
  /\ pc = "advance" /\ outcome = "running" /\ status = "running"
  /\ broker = [s \in Symbols |-> Flat]
  /\ entries = {} /\ markedAt = [s \in Symbols |-> Never] /\ missed = FALSE

---------------------------------------------------------------------------
(* The loops over streams and candles.                                     *)

\* _shutdown runs in the finally clause of start().
Ends(how) ==
  /\ pc' = "ended" /\ outcome' = how
  /\ status' = "completed"
  /\ UNCHANGED <<clock, riskVars, stream, done, candle, zoned, broker, history>>

\* Mutant: the clock is set and nothing is compared.
CanAdvance_Rewinds(t) == ~zoned

\* The code compares the two times, which Python refuses when one has a zone.
CanAdvance(t) == ~zoned /\ t >= clock

Advance(t, price, kind) ==
  /\ pc = "advance" /\ t > done /\ CanAdvance(t)
  /\ kind # "quiet" => Streams[stream] \in Supported
  /\ clock' = t
  /\ candle' = [time |-> t, price |-> price, kind |-> kind]
  /\ done' = t
  /\ pc' = "process"
  /\ UNCHANGED <<riskVars, stream, outcome, status, zoned, broker, history>>

AdvanceRaises ==
  /\ pc = "advance"
  /\ \E t \in Times : t > done /\ ~CanAdvance(t)
  /\ Ends("raised")

NextStream ==
  /\ pc = "advance" /\ stream < Len(Streams)
  /\ stream' = stream + 1 /\ done' = Never
  /\ UNCHANGED <<clock, riskVars, candle, pc, outcome, status, zoned, broker, history>>

Complete ==
  /\ pc = "advance" /\ stream = Len(Streams)
  /\ Ends("complete")

Killed ==
  /\ pc # "ended"
  /\ pc' = "ended" /\ outcome' = "killed"
  /\ UNCHANGED <<clock, riskVars, stream, done, candle, status, zoned, broker, history>>

---------------------------------------------------------------------------
(* _process_candle_internal for the candle read.                           *)

cur  == Sym(stream)
id   == <<stream, candle.time>>

\* update_market_price comes before the signals are looked at.
Marks ==
  /\ marks' = Marked(cur, candle.price)
  /\ markedAt' = [markedAt EXCEPT ![cur] = candle.time]

CandleDone ==
  /\ pc' = "advance" /\ candle' = NoCandle
  /\ UNCHANGED <<clock, stream, done, outcome, status, zoned>>

\* Too little history, or an error before the price is known.
NoContext ==
  /\ pc = "process"
  /\ CandleDone
  /\ UNCHANGED <<riskVars, broker, history>>

Synced(positions) == held' = positions

NoEntry ==
  /\ pc = "process"
  /\ \/ candle.kind = "quiet"
     \/ ~Approves(cur, id, candle.price, candle.kind = "signal")
  /\ Marks /\ Synced(broker) /\ CandleDone
  /\ UNCHANGED <<activeIds, lastEntry, broker, entries, missed>>

\* Mutant: BUY and SELL swapped.
Bought_Sold(p, price) ==
  [qty |-> p.qty - PositionSize(price) \div FillDiv, cost |-> p.cost]

\* SimulatedBroker.submit_order and _update_position for a market BUY.  The
\* fee is taken on the quantity ordered, also when less is filled.
Bought(p, price) ==
  LET size     == PositionSize(price)
      fill     == size \div FillDiv
      executed == price * (Scale + Slippage)
  IN  [qty  |-> p.qty + fill,
       cost |-> p.cost + executed * (fill * Scale + size * Fee)]

Filled ==
  /\ broker' = [broker EXCEPT ![cur] = Bought(@, candle.price)]
  /\ entries' = entries \union {id}

Approved ==
  /\ pc = "process" /\ candle.kind # "quiet"
  /\ Approves(cur, id, candle.price, candle.kind = "signal")
  /\ Approval(cur, id)

Enter ==
  /\ Approved
  /\ Filled /\ Synced(broker')
  /\ Marks /\ CandleDone
  /\ UNCHANGED missed

\* Storing the rejection raises.
RejectRaises ==
  /\ pc = "process" /\ candle.kind # "quiet"
  /\ ~Approves(cur, id, candle.price, candle.kind = "signal")
  /\ Marks /\ CandleDone
  /\ UNCHANGED <<held, activeIds, lastEntry, broker, entries, missed>>

\* Storing the decision or the PENDING row raises: nothing is sent.
EnterRaisesBefore ==
  /\ Approved
  /\ Marks /\ CandleDone
  /\ UNCHANGED <<held, broker, entries, missed>>

\* Storing the answer raises: the order is filled, the risk engine not told.
EnterRaisesAfter ==
  /\ Approved
  /\ Filled
  /\ Marks /\ CandleDone
  /\ missed' = TRUE
  /\ UNCHANGED held

---------------------------------------------------------------------------
Next ==
  \/ \E t \in Times, p \in Prices, k \in Kinds : Advance(t, p, k)
  \/ AdvanceRaises \/ NextStream \/ Complete \/ Killed
  \/ NoContext \/ NoEntry \/ RejectRaises
  \/ Enter \/ EnterRaisesBefore \/ EnterRaisesAfter

Spec == Init /\ [][Next]_vars

---------------------------------------------------------------------------
\* Every variable holds a value of its kind.
ReplayTypeOK ==
  /\ clock \in Times
  /\ held \in [Symbols -> Position] /\ broker \in [Symbols -> Position]
  /\ marks \in [Symbols -> Prices \union {0}]
  /\ activeIds \subseteq Ids /\ entries \subseteq Ids
  /\ lastEntry \in [Symbols -> Times \union {Never}]
  /\ markedAt \in [Symbols -> Times \union {Never}]
  /\ stream \in 1..Len(Streams)
  /\ done \in Times \union {Never}
  /\ candle \in [time : Times, price : Prices, kind : Kinds] \union {NoCandle}
  /\ pc \in {"advance", "process", "ended"}
  /\ outcome \in {"running", "complete", "raised", "killed"}
  /\ status \in {"running", "completed"}
  /\ zoned \in BOOLEAN /\ missed \in BOOLEAN

EntriesIn(s) == {i \in entries : Sym(i[1]) = s}

\* What the broker holds in the symbols S, at the given prices.
Worth(positions, prices, S) ==
  SumFunction([s \in S |-> positions[s].qty * prices[s]])

\* RiskEngine.evaluate with _sync_positions_to_risk_engine: what the broker
\* really holds, at the prices last seen, is within both exposure limits
\* right after every order, however many orders, symbols and streams, as long
\* as no error kept a filled order from the risk engine.
ExposureWithinLimits ==
  [][ \A s \in Symbols : broker'[s].qty > broker[s].qty /\ ~missed =>
        /\ Worth(broker', marks', {s}) <= MaxSymbolExposure
        /\ Worth(broker', marks', OpenIn(broker')) <= MaxTotalExposure ]_vars

\* risk_engine.py:16, "Evaluate signals against position ... limits": they
\* hold of what the broker holds, not only of the snapshot they are checked
\* on, under the same condition.  Orders in one symbol make one position, so
\* a limit of one means one order, in whichever timeframe, and a higher limit
\* per symbol never binds.
PositionsWithinLimits ==
  ~missed =>
    /\ Cardinality(OpenIn(broker)) <= MaxOpenPositions
    /\ MaxPerSymbol <= 1 =>
         \A s \in Symbols : Cardinality(EntriesIn(s)) <= MaxPerSymbol

\* entry_cooldown_seconds: two orders in one symbol are never closer than the
\* cooldown, in whichever timeframes their signals came and whether or not
\* the candle of the first one ended in an error.
EntriesSpaced ==
  \A i, j \in entries :
    (i # j /\ Sym(i[1]) = Sym(j[1])) =>
      (i[2] - j[2] >= Cooldown \/ j[2] - i[2] >= Cooldown)

\* ReplayClock.advance_to: the streams come one after the other, and yet no
\* position is ever valued with a price from after the candle processed.
NoPriceFromTheFuture == \A s \in Symbols : markedAt[s] <= clock

---------------------------------------------------------------------------
(* A statement of the source that the code does not keep.                  *)

\* system_clock.py:43, "The clock is advanced manually by the replay
\* coordinator to the timestamp of each candle being processed": no candle of
\* a dataset ends the replay, one in the format of json_market_source.py:24
\* ("2026-07-01T00:00:00Z") included.
EveryCandleReached == outcome # "raised"
=============================================================================
