-------------------------- MODULE SubmissionProofs --------------------------
(***************************************************************************)
(* No order leaves the engine while the database holds an order of unknown *)
(* outcome: UnknownBlocksSubmission, for every value of the constants.     *)
(*                                                                         *)
(* The property speaks of three program points only and is not inductive.  *)
(* DoubtConfined says how far a doubtful row can have come: during startup *)
(* it belongs to a symbol that has not passed yet, and during trading it   *)
(* is there only with the kill switch engaged and no order being sent.     *)
(*                                                                         *)
(* The second part proves PositionsExplained: a position the engine trades *)
(* on is the number of trades its own fills table has for the symbol.      *)
(***************************************************************************)
EXTENDS TestnetEngineProofs, FiniteSetTheorems

Resolved(i) == orders[i] \notin UnresolvedStatus

NotPassed(s) == s \in toReconcile \/ s = rsym

DoubtConfined ==
  /\ pc \in FetchPc \union RepairPc =>
       \A i \in Ids : NotPassed(Sym(i)) \/ Resolved(i)
  /\ pc = "load" => \A i \in Ids : Resolved(i)
  /\ pc \in TradingPc =>
       \/ \A i \in Ids : Resolved(i)
       \/ killSwitch /\ pc \in {"poll", "risk", "advance"}

\* The engine is in one phase at a time.
LEMMA Phases ==
  /\ FetchPc \intersect RepairPc = {}
  /\ (FetchPc \union RepairPc) \intersect TradingPc = {}
  /\ "load" \notin FetchPc \union RepairPc \union TradingPc
  /\ "off" \notin FetchPc \union RepairPc \union TradingPc
  /\ {"poll", "risk", "intent", "post", "await", "advance"} = TradingPc
  /\ {"fetchOpen", "fetchRecent", "fetchTrades", "fetchAccount", "compare",
      "repair", "replayTrades", "recCheck"} = FetchPc \union RepairPc
BY DEF FetchPc, RepairPc, TradingPc

LEMMA ProcessEndsConfined == ProcessEnds => DoubtConfined'
BY Phases DEF ProcessEnds, DoubtConfined

\* A step that touches neither rows nor control keeps doubt where it is.
LEMMA ConfinedSame ==
  DoubtConfined /\ UNCHANGED <<orders, pc, killSwitch, toReconcile, rsym>>
    => DoubtConfined'
BY DEF DoubtConfined, NotPassed, Resolved

\* Beginning with symbol s keeps doubt confined when what is left over is
\* resolved.
LEMMA BeginConfined ==
  ASSUME NEW s, NEW rest, BeginSymbol(s, rest), orders' = orders,
         \A i \in Ids : Sym(i) \in rest \/ Sym(i) = s \/ Resolved(i)
  PROVE  DoubtConfined'
BY Phases DEF BeginSymbol, DoubtConfined, NotPassed, Resolved

\* A step within the reconciliation of a symbol that changes at most rows of
\* that symbol.
LEMMA WithinSymbol ==
  ASSUME DoubtConfined,
         pc \in FetchPc \union RepairPc, pc' \in FetchPc \union RepairPc,
         UNCHANGED <<toReconcile, rsym>>,
         \A i \in Ids : Sym(i) # rsym => orders'[i] = orders[i]
  PROVE  DoubtConfined'
<1>1. ASSUME NEW i \in Ids PROVE NotPassed(Sym(i))' \/ Resolved(i)'
  BY DEF DoubtConfined, NotPassed, Resolved
<1>2. pc' \notin TradingPc /\ pc' # "load"
  BY Phases
<1>3. QED BY <1>1, <1>2 DEF DoubtConfined

LEMMA ReconcileConfined ==
  TypeOK /\ DoubtConfined /\ ReconcileNext => DoubtConfined'
<1> SUFFICES ASSUME TypeOK, DoubtConfined, ReconcileNext, ~ProcessEnds
             PROVE  DoubtConfined'
  BY ProcessEndsConfined
<1>1. CASE FetchOpenOrders \/ FetchRecentOrders \/ FetchTrades \/ FetchAccount
  BY <1>1, WithinSymbol, Phases
     DEF FetchOpenOrders, FetchRecentOrders, FetchTrades, FetchAccount, dbVars
<1>2. CASE CompareOrders \/ RepairsDone
  BY <1>2, WithinSymbol, Phases DEF CompareOrders, RepairsDone, dbVars
<1>3. ASSUME NEW i \in Ids, MarkUnknown(i) PROVE DoubtConfined'
  <2>1. Sym(i) = rsym /\ orders \in [Ids -> LocalStatus \union {NoRow}]
    BY <1>3 DEF MarkUnknown, MissingOnExchange, LocallyOpen, OfSymbol, TypeOK, DbType
  <2>2. \A j \in Ids : Sym(j) # rsym => orders'[j] = orders[j]
    BY <1>3, <2>1 DEF MarkUnknown
  <2>3. QED BY <1>3, <2>2, WithinSymbol, Phases DEF MarkUnknown
<1>4. ASSUME NEW i \in Ids, AdoptFromExchange(i) PROVE DoubtConfined'
  <2>1. Sym(i) = rsym /\ orders \in [Ids -> LocalStatus \union {NoRow}]
    BY <1>4 DEF AdoptFromExchange, MissingLocally, OfSymbol, TypeOK, DbType
  <2>2. \A j \in Ids : Sym(j) # rsym => orders'[j] = orders[j]
    BY <1>4, <2>1 DEF AdoptFromExchange
  <2>3. QED BY <1>4, <2>2, WithinSymbol, Phases DEF AdoptFromExchange
<1>5. ASSUME NEW i \in Ids, LeaveStatusMismatch(i) PROVE DoubtConfined'
  BY <1>5, WithinSymbol, Phases DEF LeaveStatusMismatch, dbVars
<1>6. ASSUME NEW t \in Trades, ReplayTrade(t) PROVE DoubtConfined'
  BY <1>6, WithinSymbol, Phases DEF ReplayTrade
<1>7. CASE UpsertPosition
  BY <1>7, WithinSymbol, Phases DEF UpsertPosition, recVars
<1>8. CASE SymbolPasses
  <2>1. \A i \in Ids : Sym(i) \in toReconcile \/ Resolved(i)
    BY <1>8, Phases
       DEF SymbolPasses, Blocked, OfSymbol, DoubtConfined, NotPassed, Resolved
  <2>2. orders' = orders
    BY <1>8 DEF SymbolPasses, dbVars
  <2>3. CASE \E s \in toReconcile : BeginSymbol(s, toReconcile \ {s})
    <3>1. PICK s \in toReconcile : BeginSymbol(s, toReconcile \ {s})
      BY <2>3
    <3>2. \A i \in Ids : \/ Sym(i) \in toReconcile \ {s} \/ Sym(i) = s
                         \/ Resolved(i)
      BY <2>1
    <3>3. QED BY <2>2, <3>1, <3>2, BeginConfined
  <2>4. CASE ~ \E s \in toReconcile : BeginSymbol(s, toReconcile \ {s})
    <3>1. pc' = "load" /\ toReconcile = {}
      BY <1>8, <2>4 DEF SymbolPasses
    <3>2. \A i \in Ids : Resolved(i)'
      BY <2>1, <2>2, <3>1 DEF Resolved
    <3>3. QED BY <3>1, <3>2, Phases DEF DoubtConfined
  <2>5. QED BY <2>3, <2>4
<1>9. QED
  BY <1>1, <1>2, <1>3, <1>4, <1>5, <1>6, <1>7, <1>8
     DEF ReconcileNext, FetchFails, BalanceUnexplained, SymbolBlocked

LEMMA PipelineConfined ==
  TypeOK /\ DoubtConfined /\ PipelineNext => DoubtConfined'
<1> SUFFICES ASSUME TypeOK, DoubtConfined, PipelineNext PROVE DoubtConfined'
  OBVIOUS
<1>1. ASSUME pc' \in TradingPc,
             \/ \A i \in Ids : Resolved(i)'
             \/ killSwitch' /\ pc' \in {"poll", "risk", "advance"}
      PROVE  DoubtConfined'
  BY <1>1, Phases DEF DoubtConfined
<1>2. CASE LoadPositions
  BY <1>1, <1>2, Phases DEF LoadPositions, DoubtConfined, Resolved, dbVars
<1>3. ASSUME NEW i \in Signals, NewSignal(i) \/ NoSignal(i) PROVE DoubtConfined'
  BY <1>1, <1>3, Phases DEF NewSignal, NoSignal, DoubtConfined, Resolved, dbVars
<1>4. CASE Approve
  BY <1>1, <1>4, Phases DEF Approve, DoubtConfined, Resolved, dbVars
<1>5. CASE Reject \/ DuplicateOrderBlocked
  BY <1>1, <1>5, Phases
     DEF Reject, DuplicateOrderBlocked, DoubtConfined, Resolved, dbVars, memVars
<1>6. CASE InsertIntent
  <2>1. \A i \in Ids : Resolved(i)
    BY <1>6, Phases DEF InsertIntent, DoubtConfined
  <2>2. \A i \in Ids : Resolved(i)'
    BY <1>6, <2>1
       DEF InsertIntent, Resolved, UnresolvedStatus, TypeOK, DbType
  <2>3. QED BY <1>1, <1>6, <2>2, Phases DEF InsertIntent
<1>7. CASE Transmit
  BY <1>1, <1>7, Phases DEF Transmit, DoubtConfined, Resolved, dbVars
<1>8. ASSUME NEW status, status # "PENDING_RECONCILIATION", Settle(status)
      PROVE  DoubtConfined'
  <2>1. \A i \in Ids : Resolved(i)
    BY <1>8, Phases DEF Settle, DoubtConfined
  <2>2. CASE status = "UNKNOWN"
    BY <1>1, <1>8, <2>2, Phases DEF Settle
  <2>3. CASE status # "UNKNOWN"
    <3>1. \A i \in Ids : Resolved(i)'
      BY <1>8, <2>1, <2>3
         DEF Settle, Resolved, UnresolvedStatus, TypeOK, DbType
    <3>2. QED BY <1>1, <1>8, <3>1, Phases DEF Settle
  <2>4. QED BY <2>2, <2>3
<1>9. CASE SettleReply \/ SettleAmbiguous
  BY <1>8, <1>9, StoredStatusType DEF SettleReply, SettleAmbiguous
<1>10. CASE PipelineError
  BY <1>1, <1>10, Phases DEF PipelineError, DoubtConfined, Resolved, dbVars
<1>11. CASE AdvanceCheckpoint
  BY <1>1, <1>11, Phases DEF AdvanceCheckpoint, DoubtConfined, Resolved
<1>12. QED
  BY <1>2, <1>3, <1>4, <1>5, <1>6, <1>7, <1>9, <1>10, <1>11 DEF PipelineNext

LEMMA NextConfined ==
  TypeOK /\ DoubtConfined /\ [Next]_vars => DoubtConfined'
<1> SUFFICES ASSUME TypeOK, DoubtConfined, [Next]_vars PROVE DoubtConfined'
  OBVIOUS
<1>1. CASE Start
  <2>1. PICK s \in Symbols : BeginSymbol(s, Symbols \ {s})
    BY <1>1 DEF Start
  <2>2. \A i \in Ids : \/ Sym(i) \in Symbols \ {s} \/ Sym(i) = s \/ Resolved(i)
    BY OrderNames
  <2>3. orders' = orders
    BY <1>1 DEF Start, dbVars
  <2>4. QED BY <2>1, <2>2, <2>3, BeginConfined
<1>2. CASE Stop \/ Crash
  BY <1>2, ProcessEndsConfined DEF Stop, Crash
<1>3. CASE FreshDatabase
  BY <1>3, Phases DEF FreshDatabase, DoubtConfined
<1>4. CASE EngineNext
  BY <1>4, ReconcileConfined, PipelineConfined DEF EngineNext
<1>5. CASE ExchangeNext
  BY <1>5, ExchangeFrame, ConfinedSame DEF dbVars, memVars, recVars
<1>6. CASE UNCHANGED vars
  BY <1>6, ConfinedSame DEF vars, dbVars, memVars, recVars
<1>7. QED BY <1>1, <1>2, <1>3, <1>4, <1>5, <1>6 DEF Next

\* No order is prepared, sent or awaited while any row of the database is
\* UNKNOWN or PENDING_RECONCILIATION: for any number of symbols, candles and
\* lots, any limits, any behaviour of the exchange, across lost answers,
\* failed candles, crashes at any point and changes of the database file.
THEOREM UnknownNeverSends == Spec => []UnknownBlocksSubmission
<1>1. Init => DoubtConfined
  BY Phases DEF Init, NoProcess, DoubtConfined
<1>2. TypeOK /\ DoubtConfined /\ [Next]_vars => DoubtConfined'
  BY NextConfined
<1>3. DoubtConfined => UnknownBlocksSubmission
  BY Phases DEF DoubtConfined, Resolved, UnknownBlocksSubmission
<1>4. QED BY <1>1, <1>2, <1>3, TypeCorrect, PTL DEF Spec

---------------------------------------------------------------------------
(* Positions and fills.                                                    *)

FillsOf(s) == {t \in fills : Sym(t[1]) = s}

Explained(s) == position[s] = Cardinality(FillsOf(s))

\* The trades the startup still holds, between the request and the upsert.
HoldsTrades == pc \in {"fetchAccount", "compare", "repair", "replayTrades"}

\* The fills table has no trade the account does not have.
FillsReal ==
  /\ IsFiniteSet(xtrades)
  /\ fills \subseteq xtrades

\* What was counted and what is still to be replayed make up what the table
\* will have: a trade that an earlier run stored already is counted again,
\* but stored once.
CountRight ==
  /\ pc \in {"fetchOpen", "fetchRecent", "fetchTrades"} => inventory = 0
  /\ HoldsTrades =>
       /\ snap.trades \subseteq xtrades
       /\ \A t \in snap.trades : Sym(t[1]) = rsym
       /\ inventory + Cardinality(snap.trades)
            = Cardinality(FillsOf(rsym) \union snap.trades)

PassedExplained ==
  /\ pc \in FetchPc \union RepairPc =>
       \A s \in Symbols : ~NotPassed(s) => Explained(s)
  /\ pc = "recCheck" => Explained(rsym)
  /\ pc \in {"load"} \union TradingPc => \A s \in Symbols : Explained(s)

ExplainedInv == FillsReal /\ CountRight /\ PassedExplained

\* A step of the startup that replays nothing and passes no symbol.
LEMMA SameSymbol ==
  ASSUME ExplainedInv, pc \in FetchPc \union RepairPc,
         pc' \in FetchPc \union RepairPc, pc' # "recCheck",
         UNCHANGED <<fills, position, toReconcile, rsym, xtrades>>
  PROVE  FillsReal' /\ PassedExplained'
<1>1. \A s \in Symbols : NotPassed(s)' = NotPassed(s) /\ Explained(s)' = Explained(s)
  BY DEF NotPassed, Explained, FillsOf
<1> QED
  BY <1>1, Phases DEF ExplainedInv, FillsReal, PassedExplained

\* A step outside the startup, or out of it, that leaves both tables alone.
LEMMA TablesSame ==
  ASSUME ExplainedInv, UNCHANGED <<fills, position, xtrades>>,
         pc' \in TradingPc => pc \in {"load"} \union TradingPc,
         pc' \in TradingPc \union {"off"}
  PROVE  ExplainedInv'
<1>1. \A s \in Symbols : Explained(s)' = Explained(s)
  BY DEF Explained, FillsOf
<1>2. pc' \notin FetchPc \union RepairPc /\ pc' # "load"
  BY Phases
<1>3. CountRight' /\ PassedExplained'
  BY <1>1, <1>2, Phases
     DEF ExplainedInv, CountRight, PassedExplained, HoldsTrades, FetchPc, RepairPc
<1> QED
  BY <1>3 DEF ExplainedInv, FillsReal

LEMMA EndExplained == ExplainedInv /\ ProcessEnds => ExplainedInv'
<1> SUFFICES ASSUME ExplainedInv, ProcessEnds PROVE ExplainedInv'
  OBVIOUS
<1>1. pc' = "off" /\ UNCHANGED <<fills, position, xtrades>>
  BY DEF ProcessEnds, dbVars, bookVars
<1> QED
  BY <1>1, TablesSame, Phases

\* The startup turns to symbol s: the others have passed or are still to come.
LEMMA BeginExplained ==
  ASSUME NEW s, NEW rest, BeginSymbol(s, rest), FillsReal,
         UNCHANGED <<fills, position, xtrades>>,
         \A r \in Symbols : r \in rest \/ r = s \/ Explained(r)
  PROVE  ExplainedInv'
<1>1. pc' = "fetchOpen" /\ rsym' = s /\ toReconcile' = rest /\ inventory' = 0
  BY DEF BeginSymbol
<1>2. \A r \in Symbols : Explained(r)' = Explained(r)
  BY DEF Explained, FillsOf
<1>3. CountRight' /\ PassedExplained'
  BY <1>1, <1>2, Phases
     DEF CountRight, PassedExplained, HoldsTrades, NotPassed, TradingPc
<1> QED
  BY <1>3 DEF ExplainedInv, FillsReal

LEMMA ReconcileExplained ==
  ASSUME TypeOK, ExplainedInv, ReconcileNext
  PROVE  ExplainedInv'
<1> SUFFICES ASSUME ~ProcessEnds PROVE ExplainedInv'
  BY EndExplained
<1>1. xtrades' = xtrades
  BY ReconcileFrame DEF bookVars
<1>2. snap \in Snapshot /\ inventory \in Nat /\ fills \subseteq Trades
  BY DEF TypeOK, RecType, DbType
<1>3. CASE FetchOpenOrders \/ FetchRecentOrders
  <2>1. /\ pc \in {"fetchOpen", "fetchRecent"}
        /\ pc' \in {"fetchRecent", "fetchTrades"}
        /\ UNCHANGED <<fills, position, toReconcile, rsym, inventory>>
    BY <1>3 DEF FetchOpenOrders, FetchRecentOrders, dbVars
  <2>2. CountRight'
    BY <2>1 DEF ExplainedInv, CountRight, HoldsTrades
  <2> QED
    BY <1>1, <2>1, <2>2, SameSymbol, Phases DEF ExplainedInv
<1>4. CASE FetchTrades
  <2>1. /\ pc = "fetchTrades" /\ pc' = "fetchAccount"
        /\ UNCHANGED <<fills, position, toReconcile, rsym, inventory>>
        /\ snap'.trades = {t \in xtrades : Sym(t[1]) = rsym}
    BY <1>2, <1>4 DEF FetchTrades, dbVars, Snapshot, OfSymbol
  <2>2. FillsOf(rsym) \union snap'.trades = snap'.trades /\ inventory = 0
    BY <2>1 DEF ExplainedInv, FillsReal, FillsOf, CountRight
  <2>3. Cardinality(snap'.trades) \in Nat
    <3>1. IsFiniteSet(xtrades) /\ snap'.trades \subseteq xtrades
      BY <2>1 DEF ExplainedInv, FillsReal
    <3> QED
      BY <3>1, FS_Subset, FS_CardinalityType
  <2>4. CountRight'
    <3>1. (FillsOf(rsym) \union snap.trades)' = snap'.trades
      BY <2>1, <2>2 DEF FillsOf
    <3>2. inventory' + Cardinality(snap'.trades) = Cardinality(snap'.trades)
      BY <2>1, <2>2, <2>3
    <3> QED
      BY <1>1, <2>1, <3>1, <3>2 DEF CountRight, HoldsTrades
  <2> QED
    BY <1>1, <2>1, <2>4, SameSymbol, Phases DEF ExplainedInv
<1>5. CASE \/ FetchAccount \/ CompareOrders \/ RepairsDone
           \/ \E i \in Ids : \/ MarkUnknown(i) \/ AdoptFromExchange(i)
                             \/ LeaveStatusMismatch(i)
  <2>1. /\ HoldsTrades /\ HoldsTrades' /\ pc' # "recCheck"
        /\ UNCHANGED <<fills, position, toReconcile, rsym, inventory>>
        /\ snap'.trades = snap.trades
    BY <1>2, <1>5 DEF FetchAccount, CompareOrders, RepairsDone, MarkUnknown,
                AdoptFromExchange, LeaveStatusMismatch, dbVars, HoldsTrades,
                Snapshot
  <2>2. CountRight'
    BY <1>1, <2>1 DEF ExplainedInv, CountRight, HoldsTrades, FillsOf
  <2> QED
    BY <1>1, <2>1, <2>2, SameSymbol, Phases DEF ExplainedInv, HoldsTrades
<1>6. ASSUME NEW t \in Trades, ReplayTrade(t) PROVE ExplainedInv'
  <2>1. /\ pc = "replayTrades" /\ pc' = pc /\ t \in snap.trades
        /\ snap'.trades = snap.trades \ {t} /\ fills' = fills \union {t}
        /\ inventory' = inventory + 1
        /\ UNCHANGED <<position, toReconcile, rsym>>
    BY <1>2, <1>6 DEF ReplayTrade, Snapshot
  <2>2. /\ snap.trades \subseteq xtrades /\ Sym(t[1]) = rsym
        /\ \A u \in snap.trades : Sym(u[1]) = rsym
        /\ inventory + Cardinality(snap.trades)
             = Cardinality(FillsOf(rsym) \union snap.trades)
    BY <2>1 DEF ExplainedInv, CountRight, HoldsTrades
  <2>3. FillsReal'
    BY <1>1, <2>1, <2>2 DEF ExplainedInv, FillsReal
  <2>4. (FillsOf(rsym) \union snap.trades)' = FillsOf(rsym) \union snap.trades
    BY <2>1, <2>2 DEF FillsOf
  <2>5. /\ Cardinality(snap.trades) \in Nat
        /\ Cardinality(snap.trades \ {t}) = Cardinality(snap.trades) - 1
    <3>1. IsFiniteSet(snap.trades)
      BY <2>2, FS_Subset DEF ExplainedInv, FillsReal
    <3> QED
      BY <2>1, <3>1, FS_RemoveElement, FS_CardinalityType
  <2>6. CountRight'
    <3>1. inventory' + Cardinality(snap'.trades)
            = Cardinality(FillsOf(rsym) \union snap.trades)
      BY <1>2, <2>1, <2>2, <2>5
    <3> QED
      BY <1>1, <2>1, <2>2, <2>4, <3>1 DEF CountRight, HoldsTrades
  <2>7. \A s \in Symbols : ~NotPassed(s)' => ~NotPassed(s) /\ s # rsym
    BY <2>1 DEF NotPassed
  <2>8. \A s \in Symbols \ {rsym} : Explained(s)' = Explained(s)
    BY <2>1, <2>2 DEF Explained, FillsOf
  <2>9. PassedExplained'
    BY <2>1, <2>7, <2>8, Phases DEF ExplainedInv, PassedExplained
  <2> QED
    BY <2>3, <2>6, <2>9 DEF ExplainedInv
<1>7. CASE UpsertPosition
  <2>1. /\ pc = "replayTrades" /\ pc' = "recCheck" /\ snap.trades = {}
        /\ inventory = snap.balance
        /\ position' = [position EXCEPT ![rsym] = snap.balance]
        /\ UNCHANGED <<fills, toReconcile, rsym>>
    BY <1>7 DEF UpsertPosition, BalanceExplained, recVars
  <2>2. position \in [Symbols -> Nat] /\ rsym \in Symbols
    BY <2>1, Phases DEF TypeOK, DbType, ControlType
  <2>3. inventory = Cardinality(FillsOf(rsym))
    <3>1. Cardinality(snap.trades) = 0
      BY <2>1, FS_EmptySet
    <3>2. FillsOf(rsym) \union snap.trades = FillsOf(rsym)
      BY <2>1
    <3> QED
      BY <1>2, <2>1, <3>1, <3>2 DEF ExplainedInv, CountRight, HoldsTrades
  <2>4. Explained(rsym)'
    BY <2>1, <2>2, <2>3 DEF Explained, FillsOf
  <2>5. \A s \in Symbols \ {rsym} : Explained(s)' = Explained(s)
    BY <2>1, <2>2 DEF Explained, FillsOf
  <2>6. PassedExplained'
    BY <2>1, <2>4, <2>5, Phases DEF ExplainedInv, PassedExplained, NotPassed
  <2> QED
    BY <1>1, <2>1, <2>6 DEF ExplainedInv, FillsReal, CountRight, HoldsTrades
<1>8. CASE SymbolPasses
  <2>1. pc = "recCheck" /\ UNCHANGED <<fills, position, xtrades>>
    BY <1>1, <1>8 DEF SymbolPasses, dbVars
  <2>2. \A s \in Symbols : s \in toReconcile \/ Explained(s)
    BY <2>1, Phases DEF ExplainedInv, PassedExplained, NotPassed
  <2>3. CASE \E s \in toReconcile : BeginSymbol(s, toReconcile \ {s})
    <3>1. PICK s \in toReconcile : BeginSymbol(s, toReconcile \ {s})
      BY <2>3
    <3> QED
      BY <2>1, <2>2, <3>1, BeginExplained DEF ExplainedInv
  <2>4. CASE ~ \E s \in toReconcile : BeginSymbol(s, toReconcile \ {s})
    <3>1. pc' = "load" /\ toReconcile = {}
      BY <1>8, <2>4 DEF SymbolPasses
    <3>2. \A s \in Symbols : Explained(s)'
      BY <2>1, <2>2, <3>1 DEF Explained, FillsOf
    <3> QED
      BY <2>1, <3>1, <3>2, Phases
         DEF ExplainedInv, FillsReal, CountRight, HoldsTrades, PassedExplained
  <2> QED
    BY <2>3, <2>4
<1> QED
  BY <1>3, <1>4, <1>5, <1>6, <1>7, <1>8
     DEF ReconcileNext, FetchFails, BalanceUnexplained, SymbolBlocked

\* The account only gains trades, finitely many at a time.
LEMMA ExchangeExplained ==
  ASSUME TypeOK, ExplainedInv, ExchangeNext
  PROVE  ExplainedInv'
<1>1. UNCHANGED <<fills, position, pc, recVars>>
  BY ExchangeFrame DEF dbVars
<1>2. ASSUME NEW i, NEW raw, NEW n \in 0..Lots, Place(i, raw, n)
      PROVE  IsFiniteSet(xtrades') /\ xtrades \subseteq xtrades'
  <2>1. IsFiniteSet({i})
    BY FS_Singleton
  <2>2. IsFiniteSet(1..n)
    BY FS_Interval
  <2>3. IsFiniteSet({i} \X (1..n))
    BY <2>1, <2>2, FS_Product
  <2> QED
    BY <1>2, <2>3, FS_Union DEF Place, ExplainedInv, FillsReal
<1>3. IsFiniteSet(xtrades') /\ xtrades \subseteq xtrades'
  <2>1. CASE \E i \in Signals : ExchangeAccepts(i)
    BY <1>2, <2>1 DEF ExchangeAccepts
  <2>2. CASE \E s \in SharedSymbols : OrderByHand(s)
    BY <1>2, <2>2 DEF OrderByHand
  <2>3. CASE \E i \in Ids : ExchangeFills(i)
    <3>1. PICK t : xtrades' = xtrades \union {t}
      BY <2>3 DEF ExchangeFills
    <3> QED
      BY <3>1, FS_AddElement DEF ExplainedInv, FillsReal
  <2>4. CASE \/ \E i \in Signals : ExchangeRefuses(i) \/ SubmissionLost(i)
             \/ \E i \in Ids : ExchangeCloses(i)
             \/ \E s \in Symbols : Deposit(s)
    BY <2>4 DEF ExchangeRefuses, SubmissionLost, ExchangeCloses, Deposit,
                bookVars, ExplainedInv, FillsReal
  <2> QED
    BY <2>1, <2>2, <2>3, <2>4 DEF ExchangeNext
<1> QED
  BY <1>1, <1>3
     DEF recVars, ExplainedInv, FillsReal, CountRight, HoldsTrades,
         PassedExplained, NotPassed, Explained, FillsOf

LEMMA NextExplained ==
  TypeOK /\ ExplainedInv /\ [Next]_vars => ExplainedInv'
<1> SUFFICES ASSUME TypeOK, ExplainedInv, [Next]_vars PROVE ExplainedInv'
  OBVIOUS
<1>1. CASE Start
  <2>1. PICK s \in Symbols : BeginSymbol(s, Symbols \ {s})
    BY <1>1 DEF Start
  <2>2. UNCHANGED <<fills, position, xtrades>>
    BY <1>1 DEF Start, dbVars, bookVars
  <2> QED
    BY <2>1, <2>2, BeginExplained DEF ExplainedInv
<1>2. CASE Stop \/ Crash
  BY <1>2, EndExplained DEF Stop, Crash
<1>3. CASE FreshDatabase
  BY <1>3, Phases
     DEF FreshDatabase, bookVars, ExplainedInv, FillsReal, CountRight,
         HoldsTrades, PassedExplained
<1>4. CASE EngineNext
  <2>1. CASE PipelineNext
    <3>1. /\ UNCHANGED <<fills, position, xtrades>>
          /\ pc \in {"load"} \union TradingPc /\ pc' \in TradingPc
      BY <2>1, Phases
         DEF PipelineNext, LoadPositions, NewSignal, NoSignal, Approve, Reject,
             InsertIntent, DuplicateOrderBlocked, Transmit, SettleReply,
             SettleAmbiguous, Settle, PipelineError, AdvanceCheckpoint, dbVars,
             bookVars
    <3> QED
      BY <3>1, TablesSame
  <2> QED
    BY <1>4, <2>1, ReconcileExplained DEF EngineNext
<1>5. CASE ExchangeNext
  BY <1>5, ExchangeExplained
<1>6. CASE UNCHANGED vars
  BY <1>6
     DEF vars, dbVars, recVars, bookVars, ExplainedInv, FillsReal, CountRight,
         HoldsTrades, PassedExplained, NotPassed, Explained, FillsOf
<1> QED
  BY <1>1, <1>2, <1>3, <1>4, <1>5, <1>6 DEF Next

\* While the engine trades, every position is the number of trades its own
\* fills table holds for the symbol, for any number of symbols, orders and
\* restarts, and although the startup counts a balance and a list of trades
\* that were fetched one after the other (reconciliation.py:450).
THEOREM PositionsAccounted == Spec => []PositionsExplained
<1>1. Init => ExplainedInv
  <2> SUFFICES ASSUME Init PROVE ExplainedInv
    OBVIOUS
  <2>1. pc = "off" /\ fills = {} /\ xtrades = {}
    BY DEF Init, NoProcess, EmptyDatabase
  <2> QED
    BY <2>1, Phases, FS_EmptySet
       DEF ExplainedInv, FillsReal, CountRight, HoldsTrades, PassedExplained
<1>2. ExplainedInv => PositionsExplained
  BY DEF ExplainedInv, PassedExplained, PositionsExplained, Trading, Explained,
         FillsOf
<1>3. TypeOK /\ ExplainedInv /\ [Next]_vars => ExplainedInv'
  BY NextExplained
<1> QED
  BY <1>1, <1>2, <1>3, TypeCorrect, PTL DEF Spec
=============================================================================
