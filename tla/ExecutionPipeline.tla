-------------------------- MODULE ExecutionPipeline --------------------------
(***************************************************************************)
(* One candle of the live loop, from the signal of the specialist to the   *)
(* checkpoint: signal persisted, risk decision, PENDING row, POST, row     *)
(* updated from the answer, kill switch on UNKNOWN, checkpoint moved.      *)
(***************************************************************************)
EXTENDS StartupReconciliation

\* _sync_positions_to_risk_engine reads table positions, which nothing but
\* the startup reconciliation writes.
OpenPositions == {s \in Symbols : position[s] > 0}

LoadPositions ==
  /\ pc = "load"
  /\ riskPos' = OpenPositions
  /\ pc' = "poll"
  /\ UNCHANGED <<dbVars, cur, killSwitch, activeIds, recVars, bookVars, wireVars>>

---------------------------------------------------------------------------

Pending(i) == i[2] > checkpoint[Sym(i)]

\* The specialist gives a signal the database does not hold: it is stored.
NewSignal(i) ==
  /\ pc = "poll" /\ Pending(i) /\ i \notin signals
  /\ signals' = signals \union {i}
  /\ cur' = i
  /\ pc' = "risk"
  /\ UNCHANGED <<orders, fills, position, checkpoint, killSwitch, activeIds,
                 riskPos, recVars, bookVars, wireVars>>

\* No signal on this candle, or one turned into a duplicate rejection.
NoSignal(i) ==
  /\ pc = "poll" /\ Pending(i)
  /\ cur' = i
  /\ pc' = "advance"
  /\ UNCHANGED <<dbVars, killSwitch, activeIds, riskPos, recVars, bookVars,
                 wireVars>>

---------------------------------------------------------------------------
(* validate_freshness and RiskEngine.evaluate.                             *)

SymbolPositions(s) == IF s \in riskPos THEN 1 ELSE 0

WithinLimits(i) ==
  /\ Cardinality(riskPos) < MaxOpenPositions
  /\ SymbolPositions(Sym(i)) < MaxPerSymbol

Approve ==
  /\ pc = "risk"
  /\ ~killSwitch
  /\ cur \notin activeIds
  /\ WithinLimits(cur)
  /\ activeIds' = activeIds \union {cur}
  /\ pc' = "intent"
  /\ UNCHANGED <<dbVars, cur, killSwitch, riskPos, recVars, bookVars, wireVars>>

\* Some check fails.  Freshness, exposure, cooldown, spread, depth and
\* slippage depend on the market and may fail in any state.
Reject ==
  /\ pc = "risk"
  /\ pc' = "advance"
  /\ UNCHANGED <<dbVars, memVars, recVars, bookVars, wireVars>>

---------------------------------------------------------------------------
(* _submit_order.                                                          *)

\* Mutant: the row is left to be written when the answer is there.
InsertIntent_AfterAnswer ==
  /\ pc = "intent" /\ orders[cur] = NoRow
  /\ pc' = "post"
  /\ UNCHANGED <<dbVars, memVars, recVars, bookVars, wireVars>>

InsertIntent ==
  /\ pc = "intent" /\ orders[cur] = NoRow
  /\ orders' = [orders EXCEPT ![cur] = "PENDING"]
  /\ pc' = "post"
  /\ UNCHANGED <<signals, fills, position, checkpoint, memVars, recVars,
                 bookVars, wireVars>>

\* Mutant: the result of insert_order is not looked at.
DuplicateOrderBlocked_Ignored ==
  /\ pc = "intent" /\ orders[cur] # NoRow
  /\ pc' = "post"
  /\ UNCHANGED <<dbVars, memVars, recVars, bookVars, wireVars>>

\* The primary key of table orders refuses a second row.
DuplicateOrderBlocked ==
  /\ pc = "intent" /\ orders[cur] # NoRow
  /\ pc' = "advance"
  /\ UNCHANGED <<dbVars, memVars, recVars, bookVars, wireVars>>

Transmit ==
  /\ pc = "post"
  /\ inflight' = inflight \union {cur}
  /\ reply' = NoReply
  /\ pc' = "await"
  /\ UNCHANGED <<dbVars, memVars, recVars, bookVars>>

\* Mutant: UNKNOWN is recorded and the kill switch is left alone.
Settle_NoKillSwitch(status) ==
  /\ pc = "await"
  /\ orders' = [orders EXCEPT ![cur] = status]
  /\ riskPos' = OpenPositions
  /\ reply' = NoReply
  /\ pc' = "advance"
  /\ UNCHANGED <<signals, fills, position, checkpoint, cur, killSwitch,
                 activeIds, recVars, bookVars, inflight>>

\* What submit_order returns: the row is updated, UNKNOWN engages the kill
\* switch, and the positions of the risk engine are read again.
Settle(status) ==
  /\ pc = "await"
  /\ orders' = [orders EXCEPT ![cur] = status]
  /\ killSwitch' = (killSwitch \/ status = "UNKNOWN")
  /\ riskPos' = OpenPositions
  /\ reply' = NoReply
  /\ pc' = "advance"
  /\ UNCHANGED <<signals, fills, position, checkpoint, cur, activeIds,
                 recVars, bookVars, inflight>>

SettleReply ==
  /\ reply # NoReply
  /\ Settle(IF reply = HttpReject THEN "REJECTED" ELSE StoredStatus(reply))

\* HTTP 5xx or 429, or URLError: the order may or may not be placed.
SettleAmbiguous == Settle("UNKNOWN")

\* Anything else that is raised while a candle is processed (a socket
\* timeout while reading the answer, an answer that is not JSON, an SQLite
\* error) is logged and the candle is given up, its checkpoint unmoved.
PipelineError ==
  /\ pc \in {"risk", "intent", "await", "advance"}
  /\ cur' = NoId
  /\ reply' = NoReply
  /\ pc' = "poll"
  /\ UNCHANGED <<dbVars, killSwitch, activeIds, riskPos, recVars, bookVars, inflight>>

AdvanceCheckpoint ==
  /\ pc = "advance"
  /\ checkpoint' = [checkpoint EXCEPT ![Sym(cur)] = cur[2]]
  /\ cur' = NoId
  /\ pc' = "poll"
  /\ UNCHANGED <<signals, orders, fills, position, killSwitch, activeIds,
                 riskPos, recVars, bookVars, wireVars>>

PipelineNext ==
  \/ LoadPositions
  \/ \E i \in Signals : NewSignal(i) \/ NoSignal(i)
  \/ Approve \/ Reject
  \/ InsertIntent \/ DuplicateOrderBlocked \/ Transmit
  \/ SettleReply \/ SettleAmbiguous \/ PipelineError
  \/ AdvanceCheckpoint
=============================================================================
