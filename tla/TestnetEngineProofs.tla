------------------------ MODULE TestnetEngineProofs ------------------------
(***************************************************************************)
(* Theorems about TestnetEngine, for every value of its constants.         *)
(***************************************************************************)
EXTENDS TestnetEngine, TLAPS

---------------------------------------------------------------------------
(* Names of orders and statuses.                                           *)

\* A signal names an order, and the symbol of an order is configured.
LEMMA OrderNames ==
  /\ Signals \subseteq Ids
  /\ \A i \in Ids : Sym(i) \in Symbols
  /\ \A s \in Symbols : <<s, 0>> \in Ids /\ Sym(<<s, 0>>) = s
  /\ \A i \in Signals : i[2] \in Candles
BY EngineAssumption DEF Signals, Ids, Sym

\* What is stored for a raw status is a status of the enum, and the only
\* unresolved one it can be is UNKNOWN.
LEMMA StoredStatusType ==
  ASSUME NEW raw
  PROVE  /\ StoredStatus(raw) \in LocalStatus
         /\ StoredStatus(raw) # "PENDING_RECONCILIATION"
<1>1. CASE raw \in {"NEW", "PARTIALLY_FILLED", "FILLED", "CANCELED",
                    "REJECTED", "EXPIRED"}
  BY <1>1 DEF StoredStatus, MapStatus, NoStatus, LocalStatus
<1>2. CASE raw \notin {"NEW", "PARTIALLY_FILLED", "FILLED", "CANCELED",
                       "REJECTED", "EXPIRED"}
  BY <1>2 DEF StoredStatus, MapStatus, NoStatus, LocalStatus
<1>3. QED BY <1>1, <1>2

LEMMA EmptySnapType == EmptySnap \in Snapshot /\ NoAnswer \in Answer
BY DEF EmptySnap, NoAnswer, Snapshot, Answer, NoOrder

---------------------------------------------------------------------------
(* Frames: what the steps of the exchange and the end of a process leave   *)
(* alone.                                                                  *)

LEMMA ExchangeFrame ==
  ExchangeNext => UNCHANGED <<dbVars, pc, memVars, recVars>>
BY DEF ExchangeNext, ExchangeAccepts, ExchangeRefuses, SubmissionLost,
       ExchangeFills, ExchangeCloses, OrderByHand, Deposit

---------------------------------------------------------------------------
(* Type correctness.                                                       *)

LEMMA DbSame == DbType /\ UNCHANGED dbVars => DbType'
BY DEF DbType, dbVars

LEMMA MemSame == MemType /\ UNCHANGED memVars => MemType'
BY DEF MemType, memVars

LEMMA RecSame == RecType /\ UNCHANGED recVars => RecType'
BY DEF RecType, recVars

LEMMA BookSame == BookType /\ UNCHANGED bookVars => BookType'
BY DEF BookType, bookVars

LEMMA WireSame == WireType /\ UNCHANGED wireVars => WireType'
BY DEF WireType, wireVars

LEMMA ControlSame ==
  ControlType /\ UNCHANGED <<pc, memVars, recVars>> => ControlType'
BY DEF ControlType, memVars, recVars

LEMMA InitType == Init => TypeOK
<1> SUFFICES ASSUME Init PROVE TypeOK
  OBVIOUS
<1> USE DEF Init
<1>1. DbType
  BY DEF EmptyDatabase, DbType, NoRows, Zero
<1>2. MemType
  BY DEF NoProcess, MemType
<1>3. RecType
  BY EmptySnapType DEF NoProcess, RecType
<1>4. BookType
  BY EmptySnapType DEF BookType, Zero, Answer
<1>5. WireType
  BY DEF NoProcess, WireType
<1>6. ControlType
  BY DEF NoProcess, ControlType, FetchPc, RepairPc, TradingPc
<1>7. QED BY <1>1, <1>2, <1>3, <1>4, <1>5, <1>6 DEF TypeOK

LEMMA ProcessEndsType == TypeOK /\ ProcessEnds => TypeOK'
<1> SUFFICES ASSUME TypeOK, ProcessEnds PROVE TypeOK'
  OBVIOUS
<1> USE DEF ProcessEnds, TypeOK
<1>1. DbType'
  BY DbSame
<1>2. MemType'
  BY DEF MemType
<1>3. RecType'
  BY EmptySnapType DEF RecType
<1>4. BookType'
  BY BookSame
<1>5. WireType'
  BY DEF WireType
<1>6. ControlType'
  BY DEF ControlType, FetchPc, RepairPc, TradingPc
<1>7. QED BY <1>1, <1>2, <1>3, <1>4, <1>5, <1>6

LEMMA PlaceType ==
  ASSUME BookType, NEW i \in Ids, NEW raw \in RawUsed, NEW n \in 0..Lots,
         Place(i, raw, n)
  PROVE  BookType'
<1> USE OrderNames, EngineAssumption DEF Place, BookType
<1>1. xorder' \in [Ids -> RawStatus \union {NoOrder}]
  OBVIOUS
<1>2. xtrades' \subseteq Trades
  <2>1. 1..n \subseteq 1..Lots
    OBVIOUS
  <2>2. {i} \X (1..n) \subseteq Trades
    BY <2>1 DEF Trades
  <2>3. QED BY <2>2
<1>3. xlog' \in [Symbols -> Seq(Ids)]
  OBVIOUS
<1>4. balance' \in [Symbols -> Nat]
  OBVIOUS
<1>5. deposits' \in [Symbols -> Nat] /\ accepted' \in [Ids -> Nat]
  OBVIOUS
<1>6. QED BY <1>1, <1>2, <1>3, <1>4, <1>5

LEMMA AnswersType ==
  ASSUME WireType, NEW i, NEW r \in RawStatus \union {HttpReject}, Answers(i, r)
  PROVE  reply' \in RawStatus \union {HttpReject, NoReply}
BY DEF Answers, WireType

LEMMA ExchangeType == TypeOK /\ ExchangeNext => TypeOK'
<1> SUFFICES ASSUME TypeOK, ExchangeNext PROVE TypeOK'
  OBVIOUS
<1>1. DbType' /\ MemType' /\ RecType' /\ ControlType'
  BY ExchangeFrame, DbSame, MemSame, RecSame, ControlSame DEF TypeOK
<1>2. ASSUME NEW i \in Signals, ExchangeAccepts(i)
      PROVE  BookType' /\ WireType'
  <2>1. PICK raw \in RawUsed, n \in 0..Lots : Place(i, raw, n) /\ Answers(i, raw)
    BY <1>2 DEF ExchangeAccepts
  <2>2. raw \in RawStatus
    BY EngineAssumption
  <2>3. BookType'
    BY <2>1, PlaceType, OrderNames DEF TypeOK
  <2>4. WireType'
    BY <1>2, <2>1, <2>2, AnswersType DEF ExchangeAccepts, WireType, TypeOK
  <2>5. QED BY <2>3, <2>4
<1>3. ASSUME NEW i \in Signals, ExchangeRefuses(i)
      PROVE  BookType' /\ WireType'
  BY <1>3, BookSame, AnswersType DEF ExchangeRefuses, WireType, TypeOK
<1>4. ASSUME NEW i \in Signals, SubmissionLost(i)
      PROVE  BookType' /\ WireType'
  BY <1>4, BookSame DEF SubmissionLost, WireType, TypeOK
<1>5. ASSUME NEW i \in Ids, ExchangeFills(i)
      PROVE  BookType' /\ WireType'
  <2>1. BookType'
    BY <1>5, OrderNames DEF ExchangeFills, BookType, TypeOK, Trades, RawStatus
  <2>2. QED BY <1>5, <2>1, WireSame DEF ExchangeFills, TypeOK
<1>6. ASSUME NEW i \in Ids, ExchangeCloses(i)
      PROVE  BookType' /\ WireType'
  <2>1. BookType'
    BY <1>6, EngineAssumption DEF ExchangeCloses, BookType, TypeOK
  <2>2. QED BY <1>6, <2>1, WireSame DEF ExchangeCloses, TypeOK
<1>7. ASSUME NEW s \in SharedSymbols, OrderByHand(s)
      PROVE  BookType' /\ WireType'
  <2>1. PICK raw \in RawUsed, n \in 0..Lots : Place(<<s, 0>>, raw, n)
    BY <1>7 DEF OrderByHand
  <2>2. BookType'
    BY <2>1, PlaceType, OrderNames, EngineAssumption DEF TypeOK
  <2>3. QED BY <1>7, <2>2, WireSame DEF OrderByHand, TypeOK
<1>8. ASSUME NEW s \in Symbols, Deposit(s)
      PROVE  BookType' /\ WireType'
  <2>1. BookType'
    BY <1>8 DEF Deposit, BookType, TypeOK
  <2>2. QED BY <1>8, <2>1, WireSame DEF Deposit, TypeOK
<1>9. BookType' /\ WireType'
  BY <1>2, <1>3, <1>4, <1>5, <1>6, <1>7, <1>8 DEF ExchangeNext
<1>10. QED BY <1>1, <1>9 DEF TypeOK

LEMMA RecentSubset ==
  ASSUME BookType, NEW s \in Symbols
  PROVE  RecentIds(s) \subseteq Ids
<1>1. xlog[s] \in Seq(Ids)
  BY DEF BookType
<1>2. \A k \in 1..Len(xlog[s]) : xlog[s][k] \in Ids
  BY <1>1
<1>3. QED BY <1>2 DEF RecentIds

\* A step of the reconciliation leaves the exchange alone, and either ends the
\* process or leaves alone the memory of the trading loop and two tables.
LEMMA ReconcileFrame ==
  ReconcileNext =>
    \/ ProcessEnds
    \/ UNCHANGED <<memVars, bookVars, wireVars, signals, checkpoint>>
<1> USE DEF dbVars
<1>1. FetchOpenOrders \/ FetchRecentOrders \/ FetchTrades \/ FetchAccount
        \/ CompareOrders \/ RepairsDone
      => UNCHANGED <<memVars, bookVars, wireVars, signals, checkpoint>>
  BY DEF FetchOpenOrders, FetchRecentOrders, FetchTrades, FetchAccount,
         CompareOrders, RepairsDone
<1>2. FetchFails \/ BalanceUnexplained \/ SymbolBlocked => ProcessEnds
  BY DEF FetchFails, BalanceUnexplained, SymbolBlocked
<1>3. ASSUME NEW i \in Ids
      PROVE  MarkUnknown(i) \/ AdoptFromExchange(i) \/ LeaveStatusMismatch(i)
             => UNCHANGED <<memVars, bookVars, wireVars, signals, checkpoint>>
  BY DEF MarkUnknown, AdoptFromExchange, LeaveStatusMismatch
<1>4. ASSUME NEW t \in Trades
      PROVE  ReplayTrade(t)
             => UNCHANGED <<memVars, bookVars, wireVars, signals, checkpoint>>
  BY DEF ReplayTrade
<1>5. UpsertPosition \/ SymbolPasses
      => UNCHANGED <<memVars, bookVars, wireVars, signals, checkpoint>>
  BY DEF UpsertPosition, SymbolPasses
<1>6. QED BY <1>1, <1>2, <1>3, <1>4, <1>5 DEF ReconcileNext

\* BeginSymbol sets the working state of a new symbol.
LEMMA BeginSymbolType ==
  ASSUME NEW s \in Symbols, NEW rest \in SUBSET Symbols, BeginSymbol(s, rest)
  PROVE  RecType' /\ (cur' = cur => ControlType')
<1>1. RecType'
  BY EmptySnapType DEF BeginSymbol, RecType
<1>2. ControlType'
  BY DEF BeginSymbol, ControlType, FetchPc, RepairPc, StartupPc, TradingPc
<1>3. QED BY <1>1, <1>2

LEMMA ReconcileType == TypeOK /\ ReconcileNext => TypeOK'
<1> SUFFICES ASSUME TypeOK, ReconcileNext, ~ProcessEnds PROVE TypeOK'
  BY ProcessEndsType
<1> USE DEF TypeOK
<1>1. MemType' /\ BookType' /\ WireType'
  BY ReconcileFrame, MemSame, BookSame, WireSame
<1>2. cur' = cur
  BY ReconcileFrame DEF memVars
<1>a. ASSUME pc \in FetchPc \union RepairPc, rsym' = rsym,
             pc' \in FetchPc \union RepairPc
      PROVE  ControlType'
  BY <1>a DEF ControlType, FetchPc, RepairPc, StartupPc, TradingPc
<1>3. ASSUME FetchOpenOrders PROVE DbType' /\ RecType' /\ ControlType'
  <2>1. DbType'
    BY <1>3, DbSame DEF FetchOpenOrders
  <2>2. snap' \in Snapshot
    BY <1>3 DEF FetchOpenOrders, RecType, BookType, Snapshot, Answer
  <2>3. RecType'
    BY <1>3, <2>2 DEF FetchOpenOrders, RecType
  <2>4. QED BY <1>3, <1>a, <2>1, <2>3 DEF FetchOpenOrders, FetchPc, RepairPc
<1>4. ASSUME FetchRecentOrders PROVE DbType' /\ RecType' /\ ControlType'
  <2>1. DbType'
    BY <1>4, DbSame DEF FetchRecentOrders
  <2>2. snap' \in Snapshot
    BY <1>4 DEF FetchRecentOrders, RecType, BookType, Snapshot, Answer
  <2>3. RecType'
    BY <1>4, <2>2 DEF FetchRecentOrders, RecType
  <2>4. QED BY <1>4, <1>a, <2>1, <2>3 DEF FetchRecentOrders, FetchPc, RepairPc
<1>5. ASSUME FetchTrades PROVE DbType' /\ RecType' /\ ControlType'
  <2>1. DbType'
    BY <1>5, DbSame DEF FetchTrades
  <2>2. snap' \in Snapshot
    BY <1>5 DEF FetchTrades, RecType, BookType, Snapshot
  <2>3. RecType'
    BY <1>5, <2>2 DEF FetchTrades, RecType
  <2>4. QED BY <1>5, <1>a, <2>1, <2>3 DEF FetchTrades, FetchPc, RepairPc
<1>6. ASSUME FetchAccount PROVE DbType' /\ RecType' /\ ControlType'
  <2>1. DbType'
    BY <1>6, DbSame DEF FetchAccount
  <2>2. rsym \in Symbols
    BY <1>6 DEF FetchAccount, ControlType, FetchPc, RepairPc
  <2>3. snap' \in Snapshot
    BY <1>6, <2>2 DEF FetchAccount, RecType, BookType, Snapshot
  <2>4. RecType'
    BY <1>6, <2>3 DEF FetchAccount, RecType
  <2>5. QED BY <1>6, <1>a, <2>1, <2>4 DEF FetchAccount, FetchPc, RepairPc
<1>7. ASSUME CompareOrders PROVE DbType' /\ RecType' /\ ControlType'
  <2>1. DbType'
    BY <1>7, DbSame DEF CompareOrders
  <2>2. RecType'
    BY <1>7 DEF CompareOrders, RecType
  <2>3. QED BY <1>7, <1>a, <2>1, <2>2 DEF CompareOrders, FetchPc, RepairPc
<1>8. ASSUME NEW i \in Ids, MarkUnknown(i) PROVE DbType' /\ RecType' /\ ControlType'
  <2>1. DbType'
    BY <1>8 DEF MarkUnknown, DbType, LocalStatus
  <2>2. RecType'
    BY <1>8 DEF MarkUnknown, RecType
  <2>3. QED BY <1>8, <1>a, <2>1, <2>2 DEF MarkUnknown, FetchPc, RepairPc
<1>9. ASSUME NEW i \in Ids, AdoptFromExchange(i) PROVE DbType' /\ RecType' /\ ControlType'
  <2>1. DbType'
    BY <1>9, StoredStatusType DEF AdoptFromExchange, DbType
  <2>2. RecType'
    BY <1>9 DEF AdoptFromExchange, RecType
  <2>3. QED BY <1>9, <1>a, <2>1, <2>2 DEF AdoptFromExchange, FetchPc, RepairPc
<1>10. ASSUME NEW i \in Ids, LeaveStatusMismatch(i) PROVE DbType' /\ RecType' /\ ControlType'
  <2>1. DbType'
    BY <1>10, DbSame DEF LeaveStatusMismatch
  <2>2. RecType'
    BY <1>10 DEF LeaveStatusMismatch, RecType
  <2>3. QED BY <1>10, <1>a, <2>1, <2>2 DEF LeaveStatusMismatch, FetchPc, RepairPc
<1>11. ASSUME RepairsDone PROVE DbType' /\ RecType' /\ ControlType'
  <2>1. DbType'
    BY <1>11, DbSame DEF RepairsDone
  <2>2. snap' \in Snapshot
    BY <1>11, EmptySnapType DEF RepairsDone, RecType, Snapshot
  <2>3. RecType'
    BY <1>11, <2>2 DEF RepairsDone, RecType
  <2>4. QED BY <1>11, <1>a, <2>1, <2>3 DEF RepairsDone, FetchPc, RepairPc
<1>12. ASSUME NEW t \in Trades, ReplayTrade(t) PROVE DbType' /\ RecType' /\ ControlType'
  <2>1. DbType'
    BY <1>12 DEF ReplayTrade, DbType
  <2>2. snap' \in Snapshot
    BY <1>12 DEF ReplayTrade, RecType, Snapshot
  <2>3. RecType'
    BY <1>12, <2>2 DEF ReplayTrade, RecType
  <2>4. QED BY <1>12, <1>a, <2>1, <2>3 DEF ReplayTrade, FetchPc, RepairPc
<1>13. ASSUME UpsertPosition PROVE DbType' /\ RecType' /\ ControlType'
  <2>1. DbType'
    BY <1>13 DEF UpsertPosition, DbType, RecType, Snapshot
  <2>2. RecType'
    BY <1>13, RecSame DEF UpsertPosition
  <2>3. QED BY <1>13, <1>a, <2>1, <2>2 DEF UpsertPosition, FetchPc, RepairPc, recVars
<1>14. ASSUME SymbolPasses PROVE DbType' /\ RecType' /\ ControlType'
  <2>1. DbType'
    BY <1>14, DbSame DEF SymbolPasses
  <2>2. CASE \E s \in toReconcile : BeginSymbol(s, toReconcile \ {s})
    <3>1. PICK s \in toReconcile : BeginSymbol(s, toReconcile \ {s})
      BY <2>2
    <3>2. s \in Symbols /\ toReconcile \ {s} \in SUBSET Symbols
      BY DEF RecType
    <3>3. QED BY <1>2, <2>1, <3>1, <3>2, BeginSymbolType
  <2>3. CASE ~ \E s \in toReconcile : BeginSymbol(s, toReconcile \ {s})
    <3>1. /\ pc' = "load" /\ UNCHANGED toReconcile
          /\ rsym' = NoSym /\ snap' = EmptySnap /\ todo' = {}
          /\ unresolved' = FALSE /\ inventory' = 0
      BY <1>14, <2>3 DEF SymbolPasses
    <3>2. RecType'
      BY <3>1, EmptySnapType DEF RecType
    <3>3. ControlType'
      BY <3>1 DEF ControlType, FetchPc, RepairPc, StartupPc, TradingPc
    <3>4. QED BY <2>1, <3>2, <3>3
  <2>4. QED BY <2>2, <2>3
<1>15. DbType' /\ RecType' /\ ControlType'
  BY <1>3, <1>4, <1>5, <1>6, <1>7, <1>8, <1>9, <1>10, <1>11, <1>12, <1>13, <1>14
     DEF ReconcileNext, FetchFails, BalanceUnexplained, SymbolBlocked
<1>16. QED BY <1>1, <1>15

LEMMA PipelineType == TypeOK /\ PipelineNext => TypeOK'
<1> SUFFICES ASSUME TypeOK, PipelineNext PROVE TypeOK'
  OBVIOUS
<1> USE DEF TypeOK
<1>1. BookType'
  BY BookSame
     DEF PipelineNext, LoadPositions, NewSignal, NoSignal, Approve, Reject,
         InsertIntent, DuplicateOrderBlocked, Transmit, SettleReply,
         SettleAmbiguous, Settle, PipelineError, AdvanceCheckpoint
<1>2. RecType'
  BY RecSame
     DEF PipelineNext, LoadPositions, NewSignal, NoSignal, Approve, Reject,
         InsertIntent, DuplicateOrderBlocked, Transmit, SettleReply,
         SettleAmbiguous, Settle, PipelineError, AdvanceCheckpoint
<1> HIDE DEF TypeOK
<1>a. ASSUME pc' = "poll" \/ (pc' \in TradingPc /\ cur' \in Signals)
      PROVE  ControlType'
  BY <1>a DEF ControlType, FetchPc, RepairPc, TradingPc
<1>b. pc \in TradingPc \ {"poll"} => cur \in Signals
  BY DEF TypeOK, ControlType
<1>3. ASSUME LoadPositions PROVE DbType' /\ MemType' /\ WireType' /\ ControlType'
  <2>1. DbType' /\ WireType'
    BY <1>3, DbSame, WireSame DEF LoadPositions, TypeOK
  <2>2. MemType'
    BY <1>3 DEF LoadPositions, OpenPositions, TypeOK, MemType
  <2>3. QED BY <1>3, <1>a, <2>1, <2>2 DEF LoadPositions
<1>4. ASSUME NEW i \in Signals, NewSignal(i)
      PROVE  DbType' /\ MemType' /\ WireType' /\ ControlType'
  <2>1. DbType' /\ MemType'
    BY <1>4 DEF NewSignal, TypeOK, DbType, MemType
  <2>2. WireType'
    BY <1>4, WireSame DEF NewSignal, TypeOK
  <2>3. QED BY <1>4, <1>a, <2>1, <2>2 DEF NewSignal, TradingPc
<1>5. ASSUME NEW i \in Signals, NoSignal(i)
      PROVE  DbType' /\ MemType' /\ WireType' /\ ControlType'
  <2>1. DbType' /\ WireType'
    BY <1>5, DbSame, WireSame DEF NoSignal, TypeOK
  <2>2. MemType'
    BY <1>5 DEF NoSignal, TypeOK, MemType
  <2>3. QED BY <1>5, <1>a, <2>1, <2>2 DEF NoSignal, TradingPc
<1>6. ASSUME Approve PROVE DbType' /\ MemType' /\ WireType' /\ ControlType'
  <2>1. DbType' /\ WireType'
    BY <1>6, DbSame, WireSame DEF Approve, TypeOK
  <2>2. cur \in Signals
    BY <1>6, <1>b DEF Approve, TradingPc
  <2>3. MemType'
    BY <1>6, <2>2 DEF Approve, TypeOK, MemType
  <2>4. QED BY <1>6, <1>a, <2>1, <2>2, <2>3 DEF Approve, TradingPc
<1>7. ASSUME Reject \/ DuplicateOrderBlocked
      PROVE  DbType' /\ MemType' /\ WireType' /\ ControlType'
  <2>1. DbType' /\ MemType' /\ WireType'
    BY <1>7, DbSame, MemSame, WireSame DEF Reject, DuplicateOrderBlocked, TypeOK
  <2>2. cur' \in Signals
    BY <1>7, <1>b DEF Reject, DuplicateOrderBlocked, TradingPc, memVars
  <2>3. QED BY <1>7, <1>a, <2>1, <2>2 DEF Reject, DuplicateOrderBlocked, TradingPc
<1>8. ASSUME InsertIntent PROVE DbType' /\ MemType' /\ WireType' /\ ControlType'
  <2>1. DbType'
    BY <1>8 DEF InsertIntent, TypeOK, DbType, LocalStatus
  <2>2. MemType' /\ WireType'
    BY <1>8, MemSame, WireSame DEF InsertIntent, TypeOK
  <2>3. cur' \in Signals
    BY <1>8, <1>b DEF InsertIntent, TradingPc, memVars
  <2>4. QED BY <1>8, <1>a, <2>1, <2>2, <2>3 DEF InsertIntent, TradingPc
<1>9. ASSUME Transmit PROVE DbType' /\ MemType' /\ WireType' /\ ControlType'
  <2>1. cur \in Signals /\ cur' = cur
    BY <1>9, <1>b DEF Transmit, TradingPc, memVars
  <2>2. DbType' /\ MemType'
    BY <1>9, DbSame, MemSame DEF Transmit, TypeOK
  <2>3. WireType'
    BY <1>9, <2>1 DEF Transmit, TypeOK, WireType
  <2>4. QED BY <1>9, <1>a, <2>1, <2>2, <2>3 DEF Transmit, TradingPc
<1>10. ASSUME NEW status \in LocalStatus, Settle(status)
       PROVE  DbType' /\ MemType' /\ WireType' /\ ControlType'
  <2>1. cur \in Signals /\ cur' = cur
    BY <1>10, <1>b DEF Settle, TradingPc
  <2>2. DbType'
    BY <1>10 DEF Settle, TypeOK, DbType
  <2>3. MemType'
    BY <1>10 DEF Settle, OpenPositions, TypeOK, MemType
  <2>4. WireType'
    BY <1>10 DEF Settle, TypeOK, WireType
  <2>5. QED BY <1>10, <1>a, <2>1, <2>2, <2>3, <2>4 DEF Settle, TradingPc
<1>11. ASSUME SettleReply \/ SettleAmbiguous
       PROVE  DbType' /\ MemType' /\ WireType' /\ ControlType'
  <2>1. "REJECTED" \in LocalStatus /\ "UNKNOWN" \in LocalStatus
    BY DEF LocalStatus
  <2>2. StoredStatus(reply) \in LocalStatus
    BY StoredStatusType
  <2>3. QED BY <1>10, <1>11, <2>1, <2>2 DEF SettleReply, SettleAmbiguous
<1>12. ASSUME PipelineError PROVE DbType' /\ MemType' /\ WireType' /\ ControlType'
  <2>1. DbType'
    BY <1>12, DbSame DEF PipelineError, TypeOK
  <2>2. MemType' /\ WireType'
    BY <1>12 DEF PipelineError, TypeOK, MemType, WireType
  <2>3. QED BY <1>12, <1>a, <2>1, <2>2 DEF PipelineError
<1>13. ASSUME AdvanceCheckpoint PROVE DbType' /\ MemType' /\ WireType' /\ ControlType'
  <2>1. cur \in Signals
    BY <1>13, <1>b DEF AdvanceCheckpoint, TradingPc
  <2>2. DbType'
    BY <1>13, <2>1, OrderNames DEF AdvanceCheckpoint, TypeOK, DbType
  <2>3. MemType'
    BY <1>13 DEF AdvanceCheckpoint, TypeOK, MemType
  <2>4. WireType'
    BY <1>13, WireSame DEF AdvanceCheckpoint, TypeOK
  <2>5. QED BY <1>13, <1>a, <2>2, <2>3, <2>4 DEF AdvanceCheckpoint
<1>14. DbType' /\ MemType' /\ WireType' /\ ControlType'
  BY <1>3, <1>4, <1>5, <1>6, <1>7, <1>8, <1>9, <1>11, <1>12, <1>13
     DEF PipelineNext
<1>15. QED BY <1>1, <1>2, <1>14 DEF TypeOK

LEMMA NextType == TypeOK /\ [Next]_vars => TypeOK'
<1> SUFFICES ASSUME TypeOK, [Next]_vars PROVE TypeOK'
  OBVIOUS
<1>1. CASE Start
  <2>1. PICK s \in Symbols : BeginSymbol(s, Symbols \ {s})
    BY <1>1 DEF Start
  <2>2. Symbols \ {s} \in SUBSET Symbols
    OBVIOUS
  <2>3. cur' = cur
    BY <1>1 DEF Start, memVars
  <2>4. RecType' /\ ControlType'
    BY <2>1, <2>2, <2>3, BeginSymbolType
  <2>5. DbType' /\ MemType' /\ BookType' /\ WireType'
    BY <1>1, DbSame, MemSame, BookSame, WireSame DEF Start, TypeOK
  <2>6. QED BY <2>4, <2>5 DEF TypeOK
<1>2. CASE Stop \/ Crash
  BY <1>2, ProcessEndsType DEF Stop, Crash
<1>3. CASE FreshDatabase
  <2>1. DbType'
    BY <1>3 DEF FreshDatabase, DbType, NoRows, Zero
  <2>2. MemType' /\ RecType' /\ BookType' /\ WireType' /\ ControlType'
    BY <1>3, MemSame, RecSame, BookSame, WireSame, ControlSame
       DEF FreshDatabase, TypeOK
  <2>3. QED BY <2>1, <2>2 DEF TypeOK
<1>4. CASE EngineNext
  BY <1>4, ReconcileType, PipelineType DEF EngineNext
<1>5. CASE ExchangeNext
  BY <1>5, ExchangeType
<1>6. CASE UNCHANGED vars
  BY <1>6, DbSame, MemSame, RecSame, BookSame, WireSame, ControlSame
     DEF vars, TypeOK
<1>7. QED BY <1>1, <1>2, <1>3, <1>4, <1>5, <1>6 DEF Next

\* Whatever the symbols, candles, limits and statuses are, every variable
\* always holds a value of its kind: no handler stores a status outside the
\* enum, and no order or signal is handled that was not evaluated.
THEOREM TypeCorrect == Spec => []TypeOK
<1>1. Init => TypeOK
  BY InitType
<1>2. TypeOK /\ [Next]_vars => TypeOK'
  BY NextType
<1>3. QED BY <1>1, <1>2, PTL DEF Spec

=============================================================================
