----------------------------- MODULE RiskEngine -----------------------------
(***************************************************************************)
(* The chain of checks between a signal and an order.  Only BUY orders are *)
(* ever placed, so a position is a quantity and what it cost, and one      *)
(* specialist is registered, so the cooldown key is the symbol.  Money is  *)
(* counted in whole units; a cost carries the slippage and the fee of the  *)
(* broker and is counted in units of 1 / Scale^2.                          *)
(***************************************************************************)
EXTENDS Integers, FiniteSets, FiniteSetsExt

CONSTANTS
  Symbols,
  MaxOpenPositions, MaxPerSymbol,
  Allocation,          \* initial_balance_usdt * position_size_pct
  MaxSymbolExposure,   \* initial_balance_usdt * max_exposure_per_symbol_pct
  MaxTotalExposure,    \* initial_balance_usdt * max_total_exposure_pct
  MaxDailyLoss,        \* initial_balance_usdt * max_daily_loss_pct
  MaxDrawdown,         \* initial_balance_usdt * max_drawdown_pct
  Cooldown,            \* entry_cooldown_seconds
  KillSwitch,          \* RiskEngineConfig.kill_switch
  Scale

ASSUME RiskAssumption ==
  /\ MaxOpenPositions \in Nat \ {0} /\ MaxPerSymbol \in Nat
  /\ Allocation \in Nat \ {0} /\ Scale \in Nat \ {0}
  /\ MaxSymbolExposure \in Nat /\ MaxTotalExposure \in Nat
  /\ MaxDailyLoss \in Nat /\ MaxDrawdown \in Nat /\ Cooldown \in Nat
  /\ KillSwitch \in BOOLEAN

VARIABLES
  clock,       \* the clock given to the engine
  held,        \* [Symbols -> Position]: the snapshot of the open positions
  marks,       \* [Symbols -> Nat]: _market_prices, 0 where there is none
  activeIds,   \* ids of the signals approved
  lastEntry    \* [Symbols -> time or Never]: _last_entry_time

riskVars == <<held, marks, activeIds, lastEntry>>

Never == -1
Flat == [qty |-> 0, cost |-> 0]
Position == [qty : Nat, cost : Nat]
OpenIn(positions) == {s \in Symbols : positions[s].qty > 0}

RiskInit ==
  /\ held = [s \in Symbols |-> Flat]
  /\ marks = [s \in Symbols |-> 0]
  /\ activeIds = {}
  /\ lastEntry = [s \in Symbols |-> Never]

---------------------------------------------------------------------------

PositionSize(price) == Allocation \div price

Marked(s, price) == [marks EXCEPT ![s] = price]

\* Mutant: a position counts with what it cost and not with its mark price.
Exposure_AtCost(S, m) ==
  SumFunction([s \in S |-> held[s].cost \div (Scale * Scale)])

\* _mark_to_market_exposure of the open positions in the symbols S.
Exposure(S, m) == SumFunction([s \in S |-> held[s].qty * m[s]])

Unrealized(m) ==
  Exposure(OpenIn(held), m) * Scale * Scale
    - SumFunction([s \in OpenIn(held) |-> held[s].cost])

\* update_daily_pnl has no caller, so _daily_pnl keeps its initial value.
DailyPnl == 0

\* Mutant: one position more than the limit.
PositionsOK_OneMore(s) ==
  /\ Cardinality(OpenIn(held)) <= MaxOpenPositions
  /\ (IF s \in OpenIn(held) THEN 1 ELSE 0) < MaxPerSymbol

PositionsOK(s) ==
  /\ Cardinality(OpenIn(held)) < MaxOpenPositions
  /\ (IF s \in OpenIn(held) THEN 1 ELSE 0) < MaxPerSymbol

\* An open position without a mark price blocks every entry.
MarksKnown(m) == \A s \in OpenIn(held) : m[s] > 0

ExposureOK(s, m) ==
  LET proposed == m[s] * PositionSize(m[s])
  IN  /\ Exposure(OpenIn(held) \intersect {s}, m) + proposed
           <= MaxSymbolExposure
      /\ Exposure(OpenIn(held), m) + proposed <= MaxTotalExposure

LossesOK(m) ==
  /\ ~(DailyPnl < 0 /\ -DailyPnl >= MaxDailyLoss)
  /\ -Unrealized(m) <= MaxDrawdown * Scale * Scale

CooledDown(s) == lastEntry[s] # Never => clock - lastEntry[s] >= Cooldown

\* All checks pass.  Which of them fails first only decides the reason that
\* is stored.  liquid stands for freshness, spread, depth and slippage.
Approves(s, id, price, liquid) ==
  LET m == Marked(s, price)
  IN  /\ ~KillSwitch
      /\ id \notin activeIds
      /\ PositionsOK(s)
      /\ PositionSize(price) > 0
      /\ MarksKnown(m) /\ ExposureOK(s, m) /\ LossesOK(m)
      /\ CooledDown(s)
      /\ liquid

\* Mutant: the time of the entry is not kept.
Approval_NoEntryTime(s, id) ==
  /\ activeIds' = activeIds \union {id}
  /\ UNCHANGED lastEntry

\* What an approval leaves behind, whatever becomes of the order.
Approval(s, id) ==
  /\ activeIds' = activeIds \union {id}
  /\ lastEntry' = [lastEntry EXCEPT ![s] = clock]
=============================================================================
