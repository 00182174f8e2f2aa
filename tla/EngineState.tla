---------------------------- MODULE EngineState ----------------------------
(***************************************************************************)
(* The state shared by the parts of the engine that run in testnet mode:   *)
(* the SQLite tables that survive a crash, the memory of the process, the  *)
(* working state of one startup reconciliation, and the exchange account.  *)
(*                                                                         *)
(* An order is named by its client order id.  The engine derives that id   *)
(* from the symbol and the candle of the signal, so <<s, n>> with n >= 1   *)
(* is the order of symbol s for its n-th candle; <<s, 0>> is an order      *)
(* somebody placed by hand on the same account.  Quantities are counted in *)
(* lots, one trade per lot; every order is a BUY, the only side the engine *)
(* ever sends.                                                             *)
(***************************************************************************)
EXTENDS Naturals, Sequences, FiniteSets, OrderStatus

CONSTANTS
  Symbols,          \* the configured symbols
  TradedSymbols,    \* the ones a registered specialist supports
  Candles,          \* the candles of a symbol that may give a signal
  Lots,             \* lots of an order; with 2 an order fills in two trades
  MaxOpenPositions, \* RiskEngineConfig.max_open_positions
  MaxPerSymbol,     \* RiskEngineConfig.max_positions_per_symbol
  RecentLimit,      \* how many orders get_recent_orders returns (50)
  RawUsed,          \* the statuses the exchange gives in this instance
  SharedSymbols,    \* the symbols somebody else also buys by hand
  MaxDeposits       \* bound: deposits per symbol that no trade explains

ASSUME EngineAssumption ==
  /\ TradedSymbols \subseteq Symbols
  /\ Candles \subseteq Nat \ {0}
  /\ Lots \in Nat \ {0}
  /\ MaxOpenPositions \in Nat \ {0}
  /\ MaxPerSymbol \in Nat
  /\ RecentLimit \in Nat
  /\ RawUsed \subseteq RawStatus
  /\ SharedSymbols \subseteq Symbols
  /\ MaxDeposits \in Nat

Signals == TradedSymbols \X Candles
Ids     == Symbols \X (Candles \union {0})
Trades  == Ids \X (1..Lots)     \* <<i, k>> is the trade of lot k of order i
Sym(i)  == i[1]
NoSym   == "no_symbol"
NoId    == <<NoSym, 0>>

VARIABLES
  (* tables of the database *)
  signals,      \* the ids in table signals
  orders,       \* [Ids -> LocalStatus or NoRow]: table orders
  fills,        \* the trades in table fills
  position,     \* [Symbols -> Nat]: quantity in table positions
  checkpoint,   \* [Symbols -> candle]: last_processed_candle, 0 before any
  (* memory of the process *)
  pc,           \* where the single thread of the engine is
  cur,          \* the signal being executed
  killSwitch,   \* RiskEngineConfig.kill_switch of this process
  activeIds,    \* RiskEngine._active_signal_ids
  riskPos,      \* the symbols in RiskEngine._positions
  (* startup_reconcile *)
  toReconcile,  \* configured symbols not yet reconciled
  rsym,         \* the symbol being reconciled
  snap,         \* the answers of the exchange still to be used
  todo,         \* ids of the mismatches still to repair
  unresolved,   \* is result.unresolved non-empty
  inventory,    \* inventory_qty: what the trades replayed so far explain
  (* the exchange account *)
  xorder,       \* [Ids -> RawStatus or NoOrder]
  xtrades,      \* the trades of the account
  xlog,         \* [Symbols -> Seq(Ids)]: orders in the order of placement
  balance,      \* [Symbols -> Nat]: base asset held, free and locked
  deposits,     \* [Symbols -> Nat]: deposits made so far (bound)
  inflight,     \* submissions sent and not yet processed by the exchange
  reply,        \* the answer to the submission the engine waits for
  accepted      \* [Ids -> Nat]: how often the exchange took the id (history)

dbVars    == <<signals, orders, fills, position, checkpoint>>
memVars   == <<cur, killSwitch, activeIds, riskPos>>
recVars   == <<toReconcile, rsym, snap, todo, unresolved, inventory>>
bookVars  == <<xorder, xtrades, xlog, balance, deposits, accepted>>
wireVars  == <<inflight, reply>>
vars      == <<dbVars, pc, memVars, recVars, bookVars, wireVars>>

FetchPc   == {"fetchOpen", "fetchRecent", "fetchTrades", "fetchAccount"}
RepairPc  == {"compare", "repair", "replayTrades", "recCheck"}
StartupPc == FetchPc \union RepairPc \union {"load"}
TradingPc == {"poll", "risk", "intent", "post", "await", "advance"}

HttpReject == "http_4xx"
NoReply    == "no_reply"

Answer    == [Ids -> RawStatus \union {NoOrder}]
NoAnswer  == [i \in Ids |-> NoOrder]
EmptySnap == [open |-> NoAnswer, recent |-> NoAnswer,
              trades |-> {}, balance |-> 0]
Snapshot  == [open : Answer, recent : Answer,
              trades : SUBSET Trades, balance : Nat]

NoRows == [i \in Ids |-> NoRow]
Zero   == [s \in Symbols |-> 0]

EmptyDatabase ==
  /\ signals = {} /\ orders = NoRows /\ fills = {}
  /\ position = Zero /\ checkpoint = Zero

\* The memory of a process that does not run.
NoProcess ==
  /\ pc = "off"
  /\ cur = NoId /\ killSwitch = FALSE /\ activeIds = {} /\ riskPos = {}
  /\ toReconcile = {} /\ rsym = NoSym /\ snap = EmptySnap /\ todo = {}
  /\ unresolved = FALSE /\ inventory = 0
  /\ reply = NoReply

\* The process ends, on its own account or not: what it held in memory, and
\* the connection on which it waited for an answer, are gone.
ProcessEnds ==
  /\ pc' = "off"
  /\ cur' = NoId /\ killSwitch' = FALSE /\ activeIds' = {} /\ riskPos' = {}
  /\ toReconcile' = {} /\ rsym' = NoSym /\ snap' = EmptySnap /\ todo' = {}
  /\ unresolved' = FALSE /\ inventory' = 0
  /\ reply' = NoReply
  /\ UNCHANGED <<dbVars, bookVars, inflight>>

DbType ==
  /\ signals \subseteq Signals
  /\ orders \in [Ids -> LocalStatus \union {NoRow}]
  /\ fills \subseteq Trades
  /\ position \in [Symbols -> Nat]
  /\ checkpoint \in [Symbols -> Candles \union {0}]

MemType ==
  /\ cur \in Signals \union {NoId}
  /\ killSwitch \in BOOLEAN
  /\ activeIds \subseteq Signals
  /\ riskPos \subseteq Symbols

RecType ==
  /\ toReconcile \subseteq Symbols
  /\ rsym \in Symbols \union {NoSym}
  /\ snap \in Snapshot
  /\ todo \subseteq Ids
  /\ unresolved \in BOOLEAN
  /\ inventory \in Nat

BookType ==
  /\ xorder \in [Ids -> RawStatus \union {NoOrder}]
  /\ xtrades \subseteq Trades
  /\ xlog \in [Symbols -> Seq(Ids)]
  /\ balance \in [Symbols -> Nat]
  /\ deposits \in [Symbols -> Nat]
  /\ accepted \in [Ids -> Nat]

WireType ==
  /\ inflight \subseteq Signals
  /\ reply \in RawStatus \union {HttpReject, NoReply}

\* While a candle is processed there is a signal, and while a symbol is
\* reconciled there is a symbol.
ControlType ==
  /\ pc \in StartupPc \union TradingPc \union {"off"}
  /\ (pc \in TradingPc \ {"poll"} => cur \in Signals)
  /\ (pc \in FetchPc \union RepairPc => rsym \in Symbols)

\* Every variable holds a value of its kind.
TypeOK == DbType /\ MemType /\ RecType /\ BookType /\ WireType /\ ControlType
=============================================================================
