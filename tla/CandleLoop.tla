----------------------------- MODULE CandleLoop -----------------------------
(***************************************************************************)
(* The live loop over one symbol and timeframe: fetch the latest candles,  *)
(* store the ones that have closed, process in order those the checkpoint  *)
(* of this mode does not cover, through regime, strategy and risk, and     *)
(* move the checkpoint behind each one that was processed.  Candle n is    *)
(* the n-th of the stream; it has closed when n <= now, and now + 1 is the *)
(* one being formed.  The tables candles, regime_decisions and signals are *)
(* shared by the modes, engine_checkpoints has a row per mode.  An order   *)
(* that follows an approval is the subject of TestnetEngine.               *)
(***************************************************************************)
EXTENDS Specialist, FiniteSets, FiniteSetsExt

CONSTANTS
  LastCandle,   \* bound: the stream ends here
  Limit,        \* MarketDataConfig.historical_candle_limit
  MinHistory,   \* IndicatorConfig.minimum_history
  Lookback,     \* RegimeConfig.persistence_lookback
  MaxRetries,   \* MarketDataConfig.max_retries
  Modes,        \* the runtime modes used on one database
  Written,      \* the separator in MarketDataConfig.symbols
  Served,       \* external: separators under which the endpoint knows it
  Streams       \* markets: what the indicators say of each candle

ASSUME CandleLoopAssumption ==
  /\ Streams \subseteq [1..LastCandle -> View]
  /\ LastCandle \in Nat /\ MinHistory \in Nat /\ MaxRetries \in Nat
  /\ Written \in {"/", "-"}     \* META.supported_symbols
  /\ Limit \in Nat \ {0} /\ Lookback \in Nat \ {0}

CandleNos == 1..LastCandle
Absent  == "absent"
Partial == "partial"    \* stored while it was still being formed
Complete == "complete"
NoRegime == "none"

VARIABLES
  now,         \* candles closed so far
  view,        \* the market, one of Streams
  candles,     \* [CandleNos -> Absent, Partial or Complete]: table candles
  decisions,   \* [CandleNos -> Nat]: rows of regime_decisions, see Recorded
  checkpoint,  \* [Modes -> 0..LastCandle]: last_processed_candle, 0 if none
  signals,     \* candles with a row in table signals
  mode, pc,
  running,     \* _running of TradingEngine
  active,      \* candles in _active_signal_ids of the risk engine
  approvals,   \* [CandleNos -> 0..2]: observation, approvals of the candle
  attempt,     \* tries of the request that have failed
  response,    \* the candles fetched and not stored yet
  forming,     \* the last candle fetched if it was not closed then, else 0
  pending,     \* the candles this poll has still to process
  cur,         \* the candle being processed
  verdict      \* the regime the stability overlay made of it

tables == <<candles, decisions, checkpoint, signals>>
work   == <<attempt, response, forming, pending, cur, verdict>>
outside == <<now, view>>
engine  == <<mode, running, active, approvals>>
vars    == <<outside, tables, engine, pc, work>>

Stored(n) == candles[n] # Absent

Idle ==
  /\ attempt' = 0 /\ response' = {} /\ forming' = 0
  /\ pending' = {} /\ cur' = 0 /\ verdict' = NoRegime

Init ==
  /\ now = 0
  /\ view \in Streams
  /\ candles = [n \in CandleNos |-> Absent]
  /\ decisions = [n \in CandleNos |-> 0]
  /\ checkpoint = [m \in Modes |-> 0]
  /\ signals = {}
  /\ mode \in Modes /\ pc = "off" /\ running = FALSE
  /\ active = {} /\ approvals = [n \in CandleNos |-> 0]
  /\ attempt = 0 /\ response = {} /\ forming = 0
  /\ pending = {} /\ cur = 0 /\ verdict = NoRegime

CandleCloses ==
  /\ now < LastCandle
  /\ now' = now + 1
  /\ UNCHANGED <<view, tables, engine, pc, work>>

---------------------------------------------------------------------------
(* The process.                                                            *)

\* The process sets up its handlers for SIGINT and SIGTERM before start()
\* sets _running.
Start ==
  /\ pc = "off" /\ pc' = "starting"
  /\ mode' \in Modes
  /\ UNCHANGED <<outside, tables, running, active, approvals, work>>

\* start(): a stop that came before it is forgotten.
Begin ==
  /\ pc = "starting" /\ pc' = "idle"
  /\ running' = TRUE
  /\ UNCHANGED <<outside, tables, mode, active, approvals, work>>

\* The handler of SIGINT and SIGTERM.
StopSignal ==
  /\ pc # "off"
  /\ running' = FALSE
  /\ UNCHANGED <<outside, tables, mode, active, approvals, pc, work>>

\* What the process kept in memory is gone.
ProcessGone ==
  /\ pc' = "off" /\ running' = FALSE /\ active' = {} /\ Idle
  /\ UNCHANGED <<outside, tables, mode, approvals>>

\* Killed at any point, or refused by the reconciliation of testnet mode.
Ends == pc # "off" /\ ProcessGone

\* The loop looks at _running between two polls.
Stops == pc = "idle" /\ ~running /\ ProcessGone

\* The loop body raises: the rest of this poll is given up.
PollFails ==
  /\ pc \in {"ingest", "list", "checkpoint"}
  /\ pc' = "idle" /\ Idle
  /\ UNCHANGED <<outside, tables, engine>>

---------------------------------------------------------------------------
(* ingest_historical.                                                      *)

\* Mutant: the flag is not looked at.
Poll_AnyWay ==
  /\ pc = "idle"
  /\ pc' = "fetch"
  /\ UNCHANGED <<outside, tables, engine, work>>

Poll ==
  /\ pc = "idle" /\ running
  /\ pc' = "fetch"
  /\ UNCHANGED <<outside, tables, engine, work>>

\* A spelling of the symbol is told by what stands between the two assets:
\* "/" in display format, "-" inside the engine, "" at the exchange.
Internal == IF Written = "/" THEN "-" ELSE Written

normalize_symbol(sep) == IF sep = "/" THEN "" ELSE sep

\* The live loop hands on the internal spelling, and this is what is asked for.
SymbolKnown == normalize_symbol(Internal) \in Served

\* The latest Limit + 1 klines: the last of them is still being formed.
FetchKlines ==
  /\ pc = "fetch" /\ SymbolKnown
  /\ response' = {n \in CandleNos : now + 1 - Limit <= n /\ n <= now + 1}
  /\ forming' = IF now + 1 \in CandleNos THEN now + 1 ELSE 0
  /\ pc' = "strip"
  /\ UNCHANGED <<outside, tables, engine, attempt, pending, cur, verdict>>

\* Mutant: one try more than max_retries + 1.
Retry_OneMore ==
  /\ pc = "fetch" /\ attempt <= MaxRetries
  /\ attempt' = attempt + 1
  /\ UNCHANGED <<outside, tables, engine, pc, response, forming, pending, cur,
                 verdict>>

\* 429, 5xx, no connection, or no JSON: sleep and try again.
Retry ==
  /\ pc = "fetch" /\ attempt < MaxRetries
  /\ attempt' = attempt + 1
  /\ UNCHANGED <<outside, tables, engine, pc, response, forming, pending, cur,
                 verdict>>

\* The retries are used up, or the answer is one that is not retried, as the
\* 400 to a symbol the endpoint does not know.
FetchFails ==
  /\ pc = "fetch"
  /\ pc' = "idle" /\ Idle
  /\ UNCHANGED <<outside, tables, engine>>


\* _strip_forming_candle: the clock is read after the answer has arrived.
StripForming ==
  /\ pc = "strip"
  /\ response' = response \ {n \in response : n = Max(response) /\ n > now}
  /\ pc' = "ingest"
  /\ UNCHANGED <<outside, tables, engine, attempt, forming, pending, cur, verdict>>

\* Mutant: the newest candle is stored first.
StoreCandle_NewestFirst ==
  /\ pc = "ingest" /\ response # {}
  /\ LET n == Max(response)
     IN  /\ candles' = IF Stored(n) THEN candles ELSE
                [candles EXCEPT ![n] = IF n = forming THEN Partial ELSE Complete]
         /\ response' = response \ {n}
  /\ UNCHANGED <<outside, decisions, checkpoint, signals, engine, pc, attempt, forming,
                 pending, cur, verdict>>

\* One insert, committed on its own; a candle that is there stays as it is.
StoreCandle ==
  /\ pc = "ingest" /\ response # {}
  /\ LET n == Min(response)
     IN  /\ candles' = IF Stored(n) THEN candles ELSE
                [candles EXCEPT ![n] = IF n = forming THEN Partial ELSE Complete]
         /\ response' = response \ {n}
  /\ UNCHANGED <<outside, decisions, checkpoint, signals, engine, pc, attempt, forming,
                 pending, cur, verdict>>

IngestDone ==
  /\ pc = "ingest" /\ response = {}
  /\ pc' = "list"
  /\ UNCHANGED <<outside, tables, engine, work>>

---------------------------------------------------------------------------
(* get_pending_candles, and process_candle for each.                       *)

\* Mutant: the query starts at the checkpoint and not behind it.
ListPending_FromCheckpoint ==
  /\ pc = "list"
  /\ pending' = {n \in CandleNos : /\ Stored(n) /\ n <= now
                                    /\ n >= checkpoint[mode]}
  /\ pc' = "process"
  /\ UNCHANGED <<outside, tables, engine, attempt, response, forming, cur, verdict>>

\* Mutant: the next candle time is two candles on.
ListPending_SkipsOne ==
  /\ pc = "list"
  /\ pending' = {n \in CandleNos : /\ Stored(n) /\ n <= now
                                    /\ n > checkpoint[mode] + 1}
  /\ pc' = "process"
  /\ UNCHANGED <<outside, tables, engine, attempt, response, forming, cur, verdict>>

ListPending ==
  /\ pc = "list"
  /\ pending' = {n \in CandleNos : /\ Stored(n) /\ n <= now
                                    /\ n > checkpoint[mode]}
  /\ pc' = "process"
  /\ UNCHANGED <<outside, tables, engine, attempt, response, forming, cur, verdict>>

PollDone ==
  /\ pc = "process" /\ pending = {}
  /\ pc' = "idle" /\ Idle
  /\ UNCHANGED <<outside, tables, engine>>

EnoughHistory(n) == Cardinality({k \in 1..n : Stored(k)}) >= MinHistory

TooLittleHistory ==
  /\ pc = "process" /\ pending # {}
  /\ ~EnoughHistory(Min(pending))
  /\ pending' = pending \ {Min(pending)}
  /\ UNCHANGED <<outside, tables, engine, pc, attempt, response, forming, cur,
                 verdict>>

\* One more row for candle n.  The overlay reads Lookback rows, so more rows
\* of one candle than that make no difference and are not counted.
Recorded(n) == [decisions EXCEPT ![n] = IF @ < Lookback THEN @ + 1 ELSE @]

\* The raw regime is stored before the overlay reads the recent ones.
DetectRegime ==
  /\ pc = "process" /\ pending # {}
  /\ EnoughHistory(Min(pending))
  /\ cur' = Min(pending)
  /\ decisions' = Recorded(Min(pending))
  /\ pc' = "stabilise"
  /\ UNCHANGED <<outside, candles, checkpoint, signals, engine, attempt, response,
                 forming, pending, verdict>>

\* How many rows of candle n are among the last Lookback by timestamp.
InWindow(n) ==
  LET newer == MapThenSumSet(LAMBDA k : decisions[k],
                             {k \in CandleNos : k > n})
      room  == Max({0, Lookback - newer})
  IN  Min({decisions[n], room})

RowsInWindow(S) == MapThenSumSet(InWindow, S)

Raw(n) == Classify(view[n])

\* persistence_threshold is one half.
Persistent ==
  2 * RowsInWindow({n \in CandleNos : Raw(n) = Raw(cur)})
    >= RowsInWindow(CandleNos)

Stabilise ==
  /\ pc = "stabilise"
  /\ verdict' = Stable(Raw(cur), Confidence(Raw(cur), view[cur]), Persistent)
  /\ pc' = "evaluate"
  /\ UNCHANGED <<outside, tables, engine, attempt, response, forming, pending,
                 cur>>

---------------------------------------------------------------------------
(* Strategy, risk and checkpoint.                                          *)

\* Mutant: a signal that is on record is returned again.
NewSignal_AgainToo ==
  /\ pc = "evaluate" /\ Signals(verdict, view[cur])
  /\ signals' = signals \union {cur}
  /\ pc' = "decide"
  /\ UNCHANGED <<outside, candles, decisions, checkpoint, engine, work>>

\* The signal is committed before anything is decided about it.
NewSignal ==
  /\ pc = "evaluate" /\ Signals(verdict, view[cur]) /\ cur \notin signals
  /\ signals' = signals \union {cur}
  /\ pc' = "decide"
  /\ UNCHANGED <<outside, candles, decisions, checkpoint, engine, work>>

\* A rejection, or a signal on record: replaced by a rejection.
NoSignal ==
  /\ pc = "evaluate" /\ (Signals(verdict, view[cur]) => cur \in signals)
  /\ pc' = "checkpoint"
  /\ UNCHANGED <<outside, tables, engine, work>>

\* One and a half timeframes after its open time a candle is stale: only the
\* last that closed may be fresh.
Fresh(n) == n = now

Approve ==
  /\ pc = "decide" /\ Fresh(cur) /\ cur \notin active
  /\ active' = active \union {cur}
  /\ approvals' = [approvals EXCEPT ![cur] = IF @ < 2 THEN @ + 1 ELSE @]
  /\ pc' = "checkpoint"
  /\ UNCHANGED <<outside, tables, mode, running, work>>

\* Stale, or refused by one of the other checks of the risk engine.
Reject ==
  /\ pc = "decide"
  /\ pc' = "checkpoint"
  /\ UNCHANGED <<outside, tables, engine, work>>

\* Indicators, overlay, strategy or execution raise, be it behind an approval:
\* the error is logged and the loop goes on with the next candle.
CandleFails ==
  /\ pc \in {"process", "stabilise", "evaluate", "decide", "checkpoint"}
  /\ pending # {}
  /\ pending' = pending \ {Min(pending)}
  /\ pc' = "process" /\ cur' = 0 /\ verdict' = NoRegime
  /\ UNCHANGED <<outside, tables, engine, attempt, response, forming>>

UpdateCheckpoint ==
  /\ pc = "checkpoint"
  /\ checkpoint' = [checkpoint EXCEPT ![mode] = cur]
  /\ pending' = pending \ {cur}
  /\ pc' = "process" /\ cur' = 0 /\ verdict' = NoRegime
  /\ UNCHANGED <<outside, candles, decisions, signals, engine, attempt, response, forming>>

---------------------------------------------------------------------------
\* What may go wrong once and not the next time.
Failure == Retry \/ (SymbolKnown /\ FetchFails) \/ CandleFails \/ PollFails \/ Ends

Decide == NewSignal \/ NoSignal \/ Approve \/ Reject

Progress ==
  \/ Begin \/ Stops
  \/ Poll \/ FetchKlines \/ Retry \/ FetchFails \/ StripForming
  \/ StoreCandle \/ IngestDone \/ ListPending \/ PollDone
  \/ TooLittleHistory \/ DetectRegime \/ Stabilise \/ Decide
  \/ UpdateCheckpoint \/ CandleFails \/ PollFails

Next == CandleCloses \/ Start \/ StopSignal \/ Ends \/ Progress

Spec == Init /\ [][Next]_vars

\* A running process takes its next step: requests have timeouts, sleeps end.
FairSpec == Spec /\ WF_vars(Progress)

---------------------------------------------------------------------------
Working == pc \in {"stabilise", "evaluate", "decide", "checkpoint"}

\* Every variable holds a value of its kind.
CandleTypeOK ==
  /\ now \in 0..LastCandle /\ view \in Streams
  /\ candles \in [CandleNos -> {Absent, Partial, Complete}]
  /\ decisions \in [CandleNos -> 0..Lookback]
  /\ checkpoint \in [Modes -> 0..LastCandle]
  /\ signals \subseteq CandleNos
  /\ mode \in Modes /\ running \in BOOLEAN
  /\ active \subseteq CandleNos /\ approvals \in [CandleNos -> 0..2]
  /\ pc \in {"off", "starting", "idle", "fetch", "strip", "ingest", "list",
              "process", "stabilise", "evaluate", "decide", "checkpoint"}
  /\ attempt \in 0..MaxRetries
  /\ response \subseteq CandleNos
  /\ forming \in CandleNos \union {0}
  /\ pending \subseteq CandleNos
  /\ cur \in CandleNos \union {0}
  /\ Working => cur \in CandleNos
  /\ verdict \in Verdict \union {NoRegime}

\* candle_coordinator.py:4, "skips already-processed candles, and processes
\* missed candles chronologically": a candle at or below the checkpoint of the
\* mode never reaches the strategy again, after any failure or restart.
NotAgain == Working => cur > checkpoint[mode]

\* strategy_pipeline.py:46, "callers never receive an executable signal that
\* already exists": a candle is approved for an order at most once, although it
\* may be processed again after an error behind the approval, after a restart
\* that forgot the risk engine's memory, and by each mode.
ApprovedAtMostOnce == \A n \in CandleNos : approvals[n] <= 1

\* An approval comes only from a quiet market: no crash and no trend, with a
\* volatility so near the middle of its band that the confidence suffices, and
\* at least three of the five conditions the specialist lists.
Quiet(v) ==
  /\ v.drawdown > Thresholds.crash /\ v.volatility < Thresholds.high
  /\ ~(v.slope >= Thresholds.bull /\ v.rsi >= 50)
  /\ ~(v.slope <= Thresholds.bear /\ v.rsi <= 50)
  /\ 100 * Abs(2 * v.volatility - (Thresholds.min + Thresholds.max))
       <= (100 - Thresholds.confident) * (Thresholds.max - Thresholds.min)

ApprovedInQuietRange ==
  \A n \in CandleNos : approvals[n] > 0 => Quiet(view[n]) /\ Met(view[n]) >= 3

\* What ingest_historical alone guarantees of the history the indicators are
\* computed on: a hole can only be older than the Limit candles one request
\* returns, whichever inserts, requests or processes were cut short.
RecentHistoryComplete ==
  \A g, n \in CandleNos : g < n /\ ~Stored(g) /\ Stored(n) => g + Limit <= now

\* candle_coordinator.py:22, "Handles recovery after interruption": once
\* errors and crashes stop, the checkpoint reaches every candle in the table
\* that has the history it needs.
CatchesUp ==
  (<>[][~Failure]_vars) =>
    \A n \in CandleNos :
      (Stored(n) /\ EnoughHistory(n)) ~> (checkpoint[mode] >= n \/ pc = "off")


\* A stop signal that comes after start() ends the process, whatever requests,
\* retries and candles are under way.
StopEnds ==
  (~running /\ pc \notin {"off", "starting"}) ~> pc = "off"

---------------------------------------------------------------------------
(* Statements of the source that the code does not keep.                   *)

\* binance_market_data.py:124, "That candle must not enter immutable storage
\* because its OHLCV values are not final".
OnlyFinalCandles == \A n \in CandleNos : candles[n] # Partial

\* candle_coordinator.py:40, "Get candles that have completed but haven't been
\* processed yet": the checkpoint never moves past a stored candle that has
\* its history and was not processed.
NoCandleSkipped ==
  [][ \A m \in Modes : checkpoint'[m] # checkpoint[m] =>
        \A n \in checkpoint[m] + 1 .. checkpoint'[m] - 1 :
          ~(Stored(n) /\ EnoughHistory(n)) ]_vars

\* regimes.py:73, "candles to check for consistency": a regime is only held
\* stable when at least half of the last Lookback candles classified up to
\* this one had it.
HeldMeansHalf ==
  LET known  == {n \in 1..cur : decisions[n] > 0}
      latest == {n \in known : Cardinality({k \in known : k > n}) < Lookback}
  IN  verdict \in Regime \ (Safety \union {"uncertain_regime"}) =>
        2 * Cardinality({n \in latest : Raw(n) = Raw(cur)})
          >= Cardinality(latest)
=============================================================================
