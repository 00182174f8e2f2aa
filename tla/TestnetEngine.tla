--------------------------- MODULE TestnetEngine ---------------------------
(***************************************************************************)
(* The engine in testnet mode against the exchange: processes that start,  *)
(* reconcile, trade and end at any point, over one database and account.   *)
(***************************************************************************)
EXTENDS ExecutionPipeline

Init ==
  /\ EmptyDatabase
  /\ NoProcess
  /\ xorder = NoAnswer
  /\ xtrades = {}
  /\ xlog = [s \in Symbols |-> <<>>]
  /\ balance = Zero
  /\ deposits = Zero
  /\ inflight = {}
  /\ accepted = [i \in Ids |-> 0]

\* main and TradingEngine.start: memory is fresh, the database is not.
Start ==
  /\ pc = "off"
  /\ \E s \in Symbols : BeginSymbol(s, Symbols \ {s})
  /\ UNCHANGED <<dbVars, memVars, bookVars, wireVars>>

\* A signal: _run_live leaves its loop between two candles.
Stop == pc = "poll" /\ ProcessEnds

\* The process is killed, wherever it is.
Crash == pc # "off" /\ ProcessEnds

\* The operator starts over with another --db file.  No submission is on its
\* way any more: the exchange refuses a signed request older than recvWindow.
FreshDatabase ==
  /\ pc = "off" /\ inflight = {}
  /\ signals' = {} /\ orders' = NoRows /\ fills' = {}
  /\ position' = Zero /\ checkpoint' = Zero
  /\ UNCHANGED <<pc, memVars, recVars, bookVars, wireVars>>

EngineNext == ReconcileNext \/ PipelineNext

Next == \/ Start \/ Stop \/ Crash \/ FreshDatabase
        \/ EngineNext
        \/ ExchangeNext

Spec == Init /\ [][Next]_vars

\* Every request has a 30 s timeout, so a running engine takes its next step.
FairSpec == Spec /\ WF_vars(EngineNext)

---------------------------------------------------------------------------
Trading == pc \in TradingPc

\* standalone_run.py:133, reconciliation.py:93, execution_pipeline.py:218:
\* no order leaves the engine while the database knows an order whose outcome
\* it could not establish, in this run or in an earlier one.
UnknownBlocksSubmission ==
  pc \in {"intent", "post", "await"} =>
    \A i \in Ids : orders[i] \notin UnresolvedStatus

\* execution_pipeline.py:182, "Persist PENDING intent BEFORE transmission":
\* while the engine trades, every order it has on the wire or at the exchange
\* has a row, whatever crashes and new databases came before.
NoOrphanOrder ==
  Trading => \A i \in Signals :
    i \in inflight \/ xorder[i] # NoOrder => orders[i] # NoRow

\* The deterministic client id, the signals table and the key of the orders
\* table together: one signal never becomes two orders, across failed
\* candles, lost answers, restarts and an empty database.
PlacedAtMostOnce == \A i \in Signals : accepted[i] <= 1

\* reconciliation.py:450: the engine trades only on positions that the trades
\* in its own fills table account for to the last lot.
PositionsExplained ==
  Trading => \A s \in Symbols :
    position[s] = Cardinality({t \in fills : Sym(t[1]) = s})

Final == {"FILLED", "CANCELLED", "REJECTED", "EXPIRED"}

\* What SafeSubmission promises is kept: the columns of the orders table, the
\* wire and the account, seen through this mapping, only take its steps.
RecordOf(i) ==
  CASE orders[i] = NoRow              -> "absent"
    [] orders[i] \in Final            -> "final"
    [] orders[i] \in UnresolvedStatus -> "doubtful"
    [] OTHER                          -> "open"

Promise == INSTANCE SafeSubmission WITH
  Orders  <- Ids,
  Own     <- Signals,
  record  <- [i \in Ids |-> RecordOf(i)],
  live    <- inflight \union {i \in Ids : accepted[i] > 0},
  trading <- Trading

KeepsPromise == Promise!SSpec

\* reconciliation.py:57: an order the engine believes open when it begins to
\* trade is one the exchange knows; a PENDING row of a submission that never
\* arrived does not survive a startup.
TradingStartsSettled ==
  [][ pc = "load" /\ pc' = "poll" =>
        \A i \in Ids : orders[i] \in OpenStatus => xorder[i] # NoOrder ]_vars

\* The engine always comes back to its polling loop or ends: neither the
\* repairs nor the answers it waits for can hold it for ever.
NeverStuck == []<>(pc \in {"poll", "off"})

---------------------------------------------------------------------------
(* Statements of the source that the code does not keep.                   *)

\* execution_pipeline.py:218 "Order status UNKNOWN after submission --
\* blocking further orders until reconciliation": once a submission has been
\* sent and no answer established its outcome, the next one is not sent.
BlockedUntilReconciled ==
  pc = "post" => \A i \in Ids \ {cur} : orders[i] # "PENDING"

\* risk_engine.py:16 "Evaluate signals against position, exposure, loss, and
\* liquidity limits": with a filled order of the symbol in its own orders
\* table the engine approves no other one beyond max_positions_per_symbol.
\* (Nothing in this model sells, so a filled order is a position.)
PositionLimitHolds ==
  pc = "intent" =>
    Cardinality({i \in Ids : Sym(i) = Sym(cur) /\ orders[i] = "FILLED"})
      < MaxPerSymbol

\* reconciliation.py:181 "Repair recoverable order inconsistencies": when the
\* repairs are done no row of the symbol contradicts what was fetched.
MismatchRepaired ==
  pc = "repair" /\ todo = {} =>
    \A i \in Ids : ~StatusDiffers(i)
=============================================================================
