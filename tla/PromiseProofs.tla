--------------------------- MODULE PromiseProofs ---------------------------
(***************************************************************************)
(* TestnetEngine keeps what SafeSubmission promises (KeepsPromise), and    *)
(* begins to trade only with open orders the exchange knows                *)
(* (TradingStartsSettled).                                                 *)
(*                                                                         *)
(* The answers of a startup are a moment old when they are used.  What     *)
(* makes them good enough is that some facts about an order do not change  *)
(* any more: one that is known stays known, and one that has ended stays   *)
(* ended.                                                                  *)
(***************************************************************************)
EXTENDS PlacementProofs

\* What a step of the exchange does to its orders: at most one gets another
\* status, one that was on the wire, that was open or that others place.
LEMMA ExchangeStep ==
  ASSUME TypeOK, ExchangeNext
  PROVE  \/ xorder' = xorder
         \/ \E i \in Ids, raw \in RawStatus :
              /\ xorder' = [xorder EXCEPT ![i] = raw]
              /\ \/ i \in inflight
                 \/ xorder[i] \in OpenOnExchange
                 \/ xorder[i] = NoOrder /\ i \notin Signals
<1> DEFINE Goal == \E i \in Ids, raw \in RawStatus :
              /\ xorder' = [xorder EXCEPT ![i] = raw]
              /\ \/ i \in inflight
                 \/ xorder[i] \in OpenOnExchange
                 \/ xorder[i] = NoOrder /\ i \notin Signals
<1>1. ASSUME NEW i \in Signals, ExchangeAccepts(i) PROVE Goal
  <2>1. i \in Ids /\ i \in inflight
    BY <1>1, OrderNames DEF ExchangeAccepts
  <2>2. PICK raw \in RawUsed, n \in 0..Lots : Place(i, raw, n)
    BY <1>1 DEF ExchangeAccepts
  <2>3. raw \in RawStatus /\ xorder' = [xorder EXCEPT ![i] = raw]
    BY <2>2, EngineAssumption DEF Place
  <2> QED
    BY <2>1, <2>3
<1>2. ASSUME NEW i \in Ids, ExchangeFills(i) PROVE Goal
  <2>1. xorder[i] \in OpenOnExchange
    BY <1>2 DEF ExchangeFills
  <2>2. \E raw \in RawStatus : xorder' = [xorder EXCEPT ![i] = raw]
    BY <1>2 DEF ExchangeFills, RawStatus
  <2> QED
    BY <2>1, <2>2
<1>3. ASSUME NEW i \in Ids, ExchangeCloses(i) PROVE Goal
  BY <1>3, EngineAssumption DEF ExchangeCloses
<1>4. ASSUME NEW s \in SharedSymbols, OrderByHand(s) PROVE Goal
  <2>1. <<s, 0>> \in Ids /\ <<s, 0>> \notin Signals /\ xorder[<<s, 0>>] = NoOrder
    BY <1>4, OrderNames, EngineAssumption DEF Signals, OrderByHand
  <2>2. PICK raw \in RawUsed, n \in 0..Lots : Place(<<s, 0>>, raw, n)
    BY <1>4 DEF OrderByHand
  <2>3. raw \in RawStatus /\ xorder' = [xorder EXCEPT ![<<s, 0>>] = raw]
    BY <2>2, EngineAssumption DEF Place
  <2> QED
    BY <2>1, <2>3
<1>5. ASSUME \/ \E i \in Signals : ExchangeRefuses(i) \/ SubmissionLost(i)
             \/ \E s \in Symbols : Deposit(s)
      PROVE  xorder' = xorder
  BY <1>5 DEF ExchangeRefuses, SubmissionLost, Deposit, bookVars
<1> QED
  BY <1>1, <1>2, <1>3, <1>4, <1>5 DEF ExchangeNext

\* The engine itself never changes an order of the exchange.
LEMMA OthersLeaveOrders ==
  [Next]_vars /\ ~ExchangeNext => xorder' = xorder
<1> SUFFICES ASSUME [Next]_vars, ~ExchangeNext PROVE xorder' = xorder
  OBVIOUS
<1>1. ProcessEnds => xorder' = xorder
  BY DEF ProcessEnds, bookVars
<1>2. ReconcileNext => xorder' = xorder
  BY <1>1, ReconcileFrame DEF bookVars
<1>3. PipelineNext => xorder' = xorder
  BY DEF PipelineNext, LoadPositions, NewSignal, NoSignal, Approve, Reject,
         InsertIntent, DuplicateOrderBlocked, Transmit, SettleReply,
         SettleAmbiguous, Settle, PipelineError, AdvanceCheckpoint, bookVars
<1> QED
  BY <1>1, <1>2, <1>3
     DEF Next, Start, Stop, Crash, FreshDatabase, EngineNext, vars, bookVars

LEMMA KnownStaysKnown ==
  ASSUME TypeOK, [Next]_vars, NEW i \in Ids, xorder[i] # NoOrder
  PROVE  xorder'[i] # NoOrder
<1>1. CASE ExchangeNext
  BY <1>1, ExchangeStep DEF NoOrder, RawStatus, TypeOK, BookType
<1> QED
  BY <1>1, OthersLeaveOrders

---------------------------------------------------------------------------
(* TradingStartsSettled.                                                   *)

SnapKnown ==
  \A i \in Ids : snap.open[i] # NoOrder \/ snap.recent[i] # NoOrder
                   => xorder[i] # NoOrder

\* The startup has come past order i.
Checked(i) ==
  \/ pc = "load"
  \/ pc \in FetchPc \union RepairPc /\ ~NotPassed(Sym(i))
  \/ Sym(i) = rsym /\ pc = "repair" /\ i \notin todo
  \/ Sym(i) = rsym /\ pc \in {"replayTrades", "recCheck"}

SettledRows ==
  \A i \in Ids : Checked(i) /\ orders[i] \in OpenStatus /\ Resolved(i)
                   => xorder[i] # NoOrder

SettledInv == SnapKnown /\ SettledRows

\* A step that leaves rows and answers alone and checks no further order.
LEMMA SettledSame ==
  ASSUME TypeOK, SettledInv, [Next]_vars, UNCHANGED <<orders, snap>>,
         \A i \in Ids : Checked(i)' => Checked(i)
  PROVE  SettledInv'
BY KnownStaysKnown DEF SettledInv, SnapKnown, SettledRows, Resolved

\* Without a process there are no answers, and nothing is checked.
LEMMA SettledWithout ==
  ASSUME snap' = EmptySnap, \A i \in Ids : ~Checked(i)'
  PROVE  SettledInv'
BY DEF SettledInv, SnapKnown, SettledRows, EmptySnap, NoAnswer

LEMMA EndSettled == ProcessEnds => SettledInv'
BY SettledWithout DEF ProcessEnds, Checked, FetchPc, RepairPc

\* An answer that is true of the exchange when it is taken.
LEMMA ReconcileSettled ==
  ASSUME TypeOK, SettledInv, ReconcileNext
  PROVE  SettledInv'
<1> SUFFICES ASSUME ~ProcessEnds PROVE SettledInv'
  BY EndSettled
<1>1. xorder' = xorder /\ [Next]_vars
  BY ReconcileFrame DEF bookVars, Next, EngineNext
<1>2. /\ orders \in [Ids -> LocalStatus \union {NoRow}]
      /\ snap \in Snapshot
  BY DEF TypeOK, DbType, RecType
<1>3. CASE FetchOpenOrders \/ FetchRecentOrders
  <2>1. /\ UNCHANGED <<orders, toReconcile, rsym>>
        /\ pc \in FetchPc /\ pc' \in FetchPc
    BY <1>3 DEF FetchOpenOrders, FetchRecentOrders, dbVars, FetchPc
  <2>2. \A i \in Ids : Checked(i)' => Checked(i)
    BY <2>1 DEF Checked, NotPassed, FetchPc
  <2>3. SnapKnown'
    <3>1. CASE FetchOpenOrders
      <4>1. /\ \A i \in Ids : snap'.open[i] # NoOrder => xorder[i] # NoOrder
            /\ snap'.recent = snap.recent
        BY <1>2, <3>1 DEF FetchOpenOrders, Snapshot
      <4> QED
        BY <1>1, <4>1 DEF SettledInv, SnapKnown
    <3>2. CASE FetchRecentOrders
      <4>1. /\ \A i \in Ids : snap'.recent[i] # NoOrder => xorder[i] # NoOrder
            /\ snap'.open = snap.open
        BY <1>2, <3>2 DEF FetchRecentOrders, Snapshot
      <4> QED
        BY <1>1, <4>1 DEF SettledInv, SnapKnown
    <3> QED
      BY <1>3, <3>1, <3>2
  <2> QED
    BY <1>1, <2>1, <2>2, <2>3 DEF SettledInv, SettledRows, Resolved
<1>4. CASE FetchTrades \/ FetchAccount \/ UpsertPosition
             \/ \E t \in Trades : ReplayTrade(t)
  <2>1. /\ UNCHANGED <<orders, toReconcile, rsym, todo>>
        /\ snap'.open = snap.open /\ snap'.recent = snap.recent
    BY <1>2, <1>4
       DEF FetchTrades, FetchAccount, UpsertPosition, ReplayTrade, dbVars,
           recVars, Snapshot
  <2>2. \A i \in Ids : Checked(i)' => Checked(i)
    BY <1>4, <2>1
       DEF FetchTrades, FetchAccount, UpsertPosition, ReplayTrade, Checked,
           NotPassed, FetchPc, RepairPc
  <2> QED
    BY <1>1, <2>1, <2>2 DEF SettledInv, SnapKnown, SettledRows, Resolved
<1>5. CASE CompareOrders
  <2>1. /\ UNCHANGED <<orders, toReconcile, rsym, snap>>
        /\ pc = "compare" /\ pc' = "repair"
        /\ todo' = {i \in Ids : MissingOnExchange(i) \/ MissingLocally(i)
                                   \/ StatusDiffers(i)}
    BY <1>5 DEF CompareOrders, dbVars
  <2>2. ASSUME NEW i \in Ids, Checked(i)', orders[i] \in OpenStatus, Resolved(i)
        PROVE  xorder[i] # NoOrder
    <3>1. CASE Checked(i)
      BY <2>2, <3>1 DEF SettledInv, SettledRows
    <3>2. CASE ~Checked(i)
      <4>1. Sym(i) = rsym /\ i \notin todo'
        BY <2>1, <2>2, <3>2 DEF Checked, NotPassed, RepairPc
      <4>2. Merged(i) # NoOrder
        BY <2>1, <2>2, <4>1 DEF MissingOnExchange, LocallyOpen, OfSymbol
      <4> QED
        BY <4>2 DEF Merged, SettledInv, SnapKnown
    <3> QED
      BY <3>1, <3>2
  <2> QED
    BY <1>1, <2>1, <2>2 DEF SettledInv, SnapKnown, SettledRows, Resolved
<1>6. ASSUME NEW i \in Ids,
             MarkUnknown(i) \/ AdoptFromExchange(i) \/ LeaveStatusMismatch(i)
      PROVE  SettledInv'
  <2>1. /\ pc = "repair" /\ pc' = "repair" /\ todo' = todo \ {i}
        /\ UNCHANGED <<snap, toReconcile, rsym>>
        /\ \A j \in Ids \ {i} : orders'[j] = orders[j]
    BY <1>2, <1>6 DEF MarkUnknown, AdoptFromExchange, LeaveStatusMismatch, dbVars
  <2>2. \A j \in Ids \ {i} : Checked(j)' => Checked(j)
    BY <2>1 DEF Checked, NotPassed
  <2>3. orders'[i] \in OpenStatus /\ Resolved(i)' => xorder[i] # NoOrder
    <3>1. CASE MarkUnknown(i)
      BY <1>2, <3>1 DEF MarkUnknown, Resolved, UnresolvedStatus
    <3>2. CASE AdoptFromExchange(i)
      BY <3>2 DEF AdoptFromExchange, MissingLocally, Merged, SettledInv, SnapKnown
    <3>3. CASE LeaveStatusMismatch(i)
      BY <3>3 DEF LeaveStatusMismatch, StatusDiffers, Merged, SettledInv, SnapKnown
    <3> QED
      BY <1>6, <3>1, <3>2, <3>3
  <2> QED
    BY <1>1, <2>1, <2>2, <2>3 DEF SettledInv, SnapKnown, SettledRows, Resolved
<1>7. CASE RepairsDone
  <2>1. /\ UNCHANGED <<orders, toReconcile, rsym>>
        /\ pc = "repair" /\ pc' = "replayTrades" /\ todo = {}
        /\ snap'.open = NoAnswer /\ snap'.recent = NoAnswer
    BY <1>2, <1>7 DEF RepairsDone, dbVars, Snapshot
  <2>2. \A i \in Ids : Checked(i)' => Checked(i)
    BY <2>1 DEF Checked, NotPassed, RepairPc
  <2> QED
    BY <1>1, <2>1, <2>2 DEF SettledInv, SnapKnown, SettledRows, Resolved, NoAnswer
<1>8. CASE SymbolPasses
  <2>1. pc = "recCheck" /\ orders' = orders /\ snap' = EmptySnap
    BY <1>8 DEF SymbolPasses, BeginSymbol, dbVars
  <2>2. \A i \in Ids : Checked(i)' => Checked(i)
    <3>1. CASE \E s \in toReconcile : BeginSymbol(s, toReconcile \ {s})
      BY <2>1, <3>1 DEF BeginSymbol, Checked, NotPassed, FetchPc, RepairPc
    <3>2. CASE ~ \E s \in toReconcile : BeginSymbol(s, toReconcile \ {s})
      BY <1>8, <2>1, <3>2 DEF SymbolPasses, Checked, NotPassed, RepairPc
    <3> QED
      BY <3>1, <3>2
  <2> QED
    BY <1>1, <2>1, <2>2
       DEF SettledInv, SnapKnown, SettledRows, Resolved, EmptySnap, NoAnswer
<1> QED
  BY <1>3, <1>4, <1>5, <1>6, <1>7, <1>8
     DEF ReconcileNext, FetchFails, BalanceUnexplained, SymbolBlocked

LEMMA NextSettled ==
  ASSUME TypeOK, SettledInv, [Next]_vars
  PROVE  SettledInv'
<1>1. CASE Start
  <2>1. PICK s \in Symbols : BeginSymbol(s, Symbols \ {s})
    BY <1>1 DEF Start
  <2>2. /\ pc' = "fetchOpen" /\ rsym' = s /\ toReconcile' = Symbols \ {s}
        /\ snap' = EmptySnap
    BY <2>1 DEF BeginSymbol
  <2>3. \A i \in Ids : ~Checked(i)'
    BY <2>2, OrderNames DEF Checked, NotPassed
  <2> QED
    BY <2>2, <2>3, SettledWithout
<1>2. CASE Stop \/ Crash
  BY <1>2, EndSettled DEF Stop, Crash
<1>3. CASE FreshDatabase
  BY <1>3 DEF FreshDatabase, SettledInv, SnapKnown, SettledRows, recVars,
              bookVars, NoRows, NoRow, OpenStatus
<1>4. CASE ReconcileNext
  BY <1>4, ReconcileSettled
<1>5. CASE PipelineNext
  <2>1. snap' = snap /\ pc' \in TradingPc
    BY <1>5 DEF PipelineNext, LoadPositions, NewSignal, NoSignal, Approve, Reject,
         InsertIntent, DuplicateOrderBlocked, Transmit, SettleReply,
         SettleAmbiguous, Settle, PipelineError, AdvanceCheckpoint, recVars,
         TradingPc
  <2>2. \A i \in Ids : ~Checked(i)'
    BY <2>1 DEF Checked, TradingPc, FetchPc, RepairPc
  <2>3. SnapKnown'
    BY <2>1, KnownStaysKnown DEF SettledInv, SnapKnown
  <2> QED
    BY <2>2, <2>3 DEF SettledInv, SettledRows
<1>6. CASE ExchangeNext \/ UNCHANGED vars
  BY <1>6, ExchangeFrame, SettledSame
     DEF vars, dbVars, recVars, Checked, NotPassed
<1> QED
  BY <1>1, <1>2, <1>3, <1>4, <1>5, <1>6 DEF Next, EngineNext

\* Every order the engine believes open when it begins to trade is one the
\* exchange knows (reconciliation.py:57): for any number of symbols and orders
\* and any list limits, whatever happened between the four requests.
THEOREM StartsSettled == Spec => TradingStartsSettled
<1>1. Init => SettledInv
  <2> SUFFICES ASSUME Init PROVE SettledInv
    OBVIOUS
  <2>1. snap = EmptySnap /\ pc = "off"
    BY DEF Init, NoProcess
  <2>2. \A i \in Ids : ~Checked(i)
    BY <2>1 DEF Checked, FetchPc, RepairPc
  <2> QED
    BY <2>1, <2>2 DEF SettledInv, SnapKnown, SettledRows, EmptySnap, NoAnswer
<1>2. TypeOK /\ SettledInv /\ [Next]_vars => SettledInv'
  BY NextSettled
<1>3. DoubtConfined /\ SettledInv /\ pc = "load" =>
        \A i \in Ids : orders[i] \in OpenStatus => xorder[i] # NoOrder
  BY DEF DoubtConfined, SettledInv, SettledRows, Checked
<1>4. Spec => []DoubtConfined
  <2>1. Init => DoubtConfined
    BY Phases DEF Init, NoProcess, DoubtConfined
  <2>2. TypeOK /\ DoubtConfined /\ [Next]_vars => DoubtConfined'
    BY NextConfined
  <2> QED
    BY <2>1, <2>2, TypeCorrect, PTL DEF Spec
<1>5. DoubtConfined /\ SettledInv =>
        (pc = "load" /\ pc' = "poll" =>
           \A i \in Ids : orders[i] \in OpenStatus => xorder[i] # NoOrder)
  BY <1>3
<1>6. Spec => []SettledInv
  BY <1>1, <1>2, TypeCorrect, PTL DEF Spec
<1> QED
  BY <1>4, <1>5, <1>6, PTL DEF TradingStartsSettled

---------------------------------------------------------------------------
(* What is final.                                                          *)

ClosedFinal == {"FILLED", "CANCELED", "REJECTED", "EXPIRED"}

\* No step of the exchange touches the order any more.
Fated(i) == \/ xorder[i] \in ClosedFinal
            \/ xorder[i] = NoOrder /\ i \in Signals /\ i \notin inflight

\* The open list has open orders only, and an order the recent list shows as
\* ended has ended.
SnapFinal ==
  \A i \in Ids : /\ snap.open[i] \in OpenOnExchange \union {NoOrder}
                 /\ snap.recent[i] \in ClosedFinal => xorder[i] \in ClosedFinal

\* The answers of this startup are still to be compared with the row of i.
ToCompare(i) ==
  pc \in FetchPc \union {"compare"} \/ (pc = "repair" /\ i \in todo)

FinalRows ==
  \A i \in Ids : orders[i] \in Final =>
    /\ Fated(i)
    /\ ToCompare(i) => /\ snap.open[i] = NoOrder
                       /\ snap.recent[i] \in ClosedFinal \union {NoOrder}

\* The answer the engine has received is what became of its order.
AnswerFinal ==
  pc = "await" /\ reply # NoReply =>
    /\ reply = HttpReject => Fated(cur)
    /\ reply \in ClosedFinal => xorder[cur] \in ClosedFinal

FinalInv == SnapFinal /\ FinalRows /\ AnswerFinal

LEMMA Statuses ==
  /\ \A raw \in RawStatus : MapStatus(raw) \in Final <=> raw \in ClosedFinal
  /\ \A raw : StoredStatus(raw) \in Final => raw \in ClosedFinal
  /\ \A raw \in ClosedFinal : StoredStatus(raw) \in Final
  /\ NoRow \notin Final /\ "PENDING" \notin Final /\ "UNKNOWN" \notin Final
  /\ ClosedFinal \intersect OpenOnExchange = {}
  /\ NoOrder \notin ClosedFinal \union OpenOnExchange
  /\ NoRow \notin OpenStatus /\ Final \intersect OpenStatus = {}
  /\ UnresolvedStatus \subseteq OpenStatus
  /\ HttpReject \notin RawStatus /\ NoReply \notin RawStatus
  /\ HttpReject # NoReply /\ ClosedFinal \subseteq RawStatus
BY DEF MapStatus, StoredStatus, Final, ClosedFinal, NoRow, NoStatus, RawStatus,
       NoOrder, OpenOnExchange, OpenStatus, UnresolvedStatus, HttpReject, NoReply

\* An order that has ended stays as it is.
LEMMA ExchangeKeepsFate ==
  ASSUME TypeOK, AccountKept, ExchangeNext, NEW i \in Ids, Fated(i)
  PROVE  xorder'[i] = xorder[i] /\ Fated(i)'
<1>1. i \notin inflight /\ xorder[i] \notin OpenOnExchange
  <2>1. CASE xorder[i] \in ClosedFinal
    <3>1. accepted[i] > 0
      BY <2>1, Statuses DEF AccountKept
    <3>2. i \notin inflight
      BY <3>1 DEF AccountKept
    <3> QED
      BY <2>1, <3>2, Statuses
  <2>2. CASE xorder[i] = NoOrder /\ i \in Signals /\ i \notin inflight
    BY <2>2, Statuses
  <2> QED
    BY <2>1, <2>2 DEF Fated
<1>2. xorder[i] = NoOrder => i \in Signals
  BY Statuses DEF Fated
<1>3. xorder'[i] = xorder[i]
  BY <1>1, <1>2, ExchangeStep DEF TypeOK, BookType
<1>4. inflight' \subseteq inflight
  BY ExchangeTakes
<1> QED
  BY <1>1, <1>3, <1>4 DEF Fated

\* The answer to the submission of the order the engine waits for.
LEMMA ExchangeAnswers ==
  ASSUME TypeOK, AccountKept, ExchangeNext, pc = "await", reply' # reply
  PROVE  /\ reply' = HttpReject => Fated(cur)'
         /\ reply' \in ClosedFinal => xorder'[cur] \in ClosedFinal
<1>1. ASSUME NEW i \in Signals, ExchangeAccepts(i)
      PROVE  reply' # HttpReject /\ xorder'[cur] = reply'
  <2>1. PICK raw \in RawUsed, n \in 0..Lots : Place(i, raw, n) /\ Answers(i, raw)
    BY <1>1 DEF ExchangeAccepts
  <2>2. i = cur /\ reply' = raw
    BY <2>1 DEF Answers
  <2>3. raw \in RawStatus
    BY EngineAssumption
  <2> QED
    BY <2>1, <2>2, <2>3, Statuses, OrderNames DEF Place, TypeOK, BookType
<1>2. ASSUME NEW i \in Signals, ExchangeRefuses(i)
      PROVE  reply' = HttpReject /\ Fated(cur)'
  <2>1. i = cur /\ reply' = HttpReject
    BY <1>2 DEF ExchangeRefuses, Answers
  <2>2. /\ i \in inflight /\ i \in Ids /\ inflight' = inflight \ {i}
        /\ xorder' = xorder /\ cur' = cur
    BY <1>2, OrderNames DEF ExchangeRefuses, bookVars, memVars
  <2>3. xorder[i] = NoOrder
    BY <2>2 DEF AccountKept
  <2> QED
    BY <2>1, <2>2, <2>3 DEF Fated
<1>3. ASSUME \/ \E i \in Signals : SubmissionLost(i)
             \/ \E i \in Ids : ExchangeFills(i) \/ ExchangeCloses(i)
             \/ \E s \in SharedSymbols : OrderByHand(s)
             \/ \E s \in Symbols : Deposit(s)
      PROVE  FALSE
  BY <1>3 DEF SubmissionLost, ExchangeFills, ExchangeCloses, OrderByHand,
              Deposit, wireVars
<1> QED
  BY <1>1, <1>2, <1>3, Statuses DEF ExchangeNext

LEMMA ExchangeKeepsFinal ==
  ASSUME TypeOK, AccountKept, FinalInv, ExchangeNext
  PROVE  FinalInv'
<1>1. UNCHANGED <<orders, pc, cur, snap, todo>>
  BY ExchangeFrame DEF dbVars, memVars, recVars
<1>2. SnapFinal'
  BY <1>1, ExchangeKeepsFate DEF FinalInv, SnapFinal, Fated
<1>3. FinalRows'
  BY <1>1, ExchangeKeepsFate DEF FinalInv, FinalRows, ToCompare
<1>4. AnswerFinal'
  <2> SUFFICES ASSUME pc = "await", reply' # NoReply
               PROVE  /\ reply' = HttpReject => Fated(cur)'
                      /\ reply' \in ClosedFinal => xorder'[cur] \in ClosedFinal
    BY <1>1 DEF AnswerFinal
  <2>1. cur \in Ids
    BY OrderNames DEF TypeOK, ControlType, TradingPc
  <2>2. CASE reply' = reply
    BY <1>1, <2>1, <2>2, ExchangeKeepsFate DEF FinalInv, AnswerFinal, Fated
  <2>3. CASE reply' # reply
    BY <2>3, ExchangeAnswers
  <2> QED
    BY <2>2, <2>3
<1> QED
  BY <1>2, <1>3, <1>4 DEF FinalInv

LEMMA EndKeepsFinal == FinalInv /\ ProcessEnds => FinalInv'
<1> SUFFICES ASSUME FinalInv, ProcessEnds PROVE FinalInv'
  OBVIOUS
<1>1. /\ pc' = "off" /\ snap' = EmptySnap
      /\ UNCHANGED <<orders, xorder, inflight>>
  BY DEF ProcessEnds, dbVars, bookVars
<1>2. SnapFinal' /\ AnswerFinal'
  BY <1>1, Statuses DEF SnapFinal, AnswerFinal, EmptySnap, NoAnswer
<1>3. FinalRows'
  BY <1>1 DEF FinalInv, FinalRows, ToCompare, Fated, FetchPc
<1> QED
  BY <1>2, <1>3 DEF FinalInv

\* A step that leaves the exchange, the answers and the rows that are final
\* alone and has no further row compared.
LEMMA FinalSame ==
  ASSUME FinalInv, UNCHANGED <<xorder, inflight>>, pc' # "await",
         snap'.open = snap.open, snap'.recent = snap.recent,
         \A i \in Ids : orders'[i] \in Final => orders[i] \in Final,
         \A i \in Ids : ToCompare(i)' => ToCompare(i)
  PROVE  FinalInv'
<1>1. SnapFinal' /\ AnswerFinal'
  BY DEF FinalInv, SnapFinal, AnswerFinal
<1>2. FinalRows'
  BY DEF FinalInv, FinalRows, Fated
<1> QED
  BY <1>1, <1>2 DEF FinalInv

\* No row is to be compared, and the ones that are final now were so before or
\* belong to orders that have ended.
LEMMA FinalUncompared ==
  ASSUME FinalInv, UNCHANGED <<xorder, inflight>>, SnapFinal', AnswerFinal',
         \A i \in Ids : ~ToCompare(i)' \/ snap' = EmptySnap,
         \A i \in Ids : orders'[i] \in Final => orders[i] \in Final \/ Fated(i)
  PROVE  FinalInv'
BY DEF FinalInv, FinalRows, Fated, EmptySnap, NoAnswer

LEMMA ReconcileKeepsFinal ==
  ASSUME TypeOK, FinalInv, ReconcileNext
  PROVE  FinalInv'
<1> SUFFICES ASSUME ~ProcessEnds PROVE FinalInv'
  BY EndKeepsFinal
<1>1. UNCHANGED <<xorder, inflight>>
  BY ReconcileFrame DEF bookVars, wireVars
<1>2. /\ orders \in [Ids -> LocalStatus \union {NoRow}]
      /\ snap \in Snapshot
      /\ xorder \in [Ids -> RawStatus \union {NoOrder}]
  BY DEF TypeOK, DbType, RecType, BookType
<1>3. CASE FetchOpenOrders
  <2>1. /\ pc = "fetchOpen" /\ pc' = "fetchRecent" /\ orders' = orders
        /\ snap'.recent = snap.recent
        /\ \A i \in Ids : snap'.open[i] =
              IF OfSymbol(i) /\ xorder[i] \in OpenOnExchange THEN xorder[i]
              ELSE NoOrder
    BY <1>2, <1>3 DEF FetchOpenOrders, Snapshot, dbVars
  <2>2. SnapFinal' /\ AnswerFinal'
    BY <1>1, <2>1 DEF FinalInv, SnapFinal, AnswerFinal
  <2>3. FinalRows'
    BY <1>1, <2>1, Statuses DEF FinalInv, FinalRows, Fated, ToCompare, FetchPc
  <2> QED
    BY <2>2, <2>3 DEF FinalInv
<1>4. CASE FetchRecentOrders
  <2>1. /\ pc = "fetchRecent" /\ pc' = "fetchTrades" /\ orders' = orders
        /\ snap'.open = snap.open
        /\ \A i \in Ids : snap'.recent[i] \in {xorder[i], NoOrder}
    BY <1>2, <1>4 DEF FetchRecentOrders, Snapshot, dbVars
  <2>2. SnapFinal' /\ AnswerFinal'
    BY <1>1, <2>1, Statuses DEF FinalInv, SnapFinal, AnswerFinal
  <2>3. FinalRows'
    BY <1>1, <2>1 DEF FinalInv, FinalRows, Fated, ToCompare, FetchPc
  <2> QED
    BY <2>2, <2>3 DEF FinalInv
<1>5. CASE FetchTrades \/ FetchAccount \/ CompareOrders
             \/ \E i \in Ids : LeaveStatusMismatch(i)
  <2>1. /\ orders' = orders /\ pc' # "await"
        /\ snap'.open = snap.open /\ snap'.recent = snap.recent
    BY <1>2, <1>5 DEF FetchTrades, FetchAccount, CompareOrders,
                      LeaveStatusMismatch, Snapshot, dbVars
  <2>2. \A i \in Ids : ToCompare(i)' => ToCompare(i)
    BY <1>5 DEF FetchTrades, FetchAccount, CompareOrders, LeaveStatusMismatch,
                ToCompare, FetchPc
  <2> QED
    BY <1>1, <2>1, <2>2, FinalSame
<1>6. ASSUME NEW i \in Ids, MarkUnknown(i) PROVE FinalInv'
  <2>1. /\ pc = "repair" /\ pc' = "repair" /\ snap' = snap
        /\ todo' = todo \ {i} /\ orders' = [orders EXCEPT ![i] = "UNKNOWN"]
    BY <1>6 DEF MarkUnknown
  <2>2. \A j \in Ids : orders'[j] \in Final => orders[j] \in Final
    BY <1>2, <2>1, Statuses
  <2>3. \A j \in Ids : ToCompare(j)' => ToCompare(j)
    BY <2>1 DEF ToCompare, FetchPc
  <2> QED
    BY <1>1, <2>1, <2>2, <2>3, FinalSame
<1>7. ASSUME NEW i \in Ids, AdoptFromExchange(i) PROVE FinalInv'
  <2>1. /\ pc = "repair" /\ pc' = "repair" /\ snap' = snap
        /\ todo' = todo \ {i}
        /\ orders' = [orders EXCEPT ![i] = StoredStatus(Found(i))]
    BY <1>7 DEF AdoptFromExchange
  <2>2. SnapFinal' /\ AnswerFinal'
    BY <1>1, <2>1 DEF FinalInv, SnapFinal, AnswerFinal
  <2>3. orders'[i] \in Final => Fated(i)
    <3>1. orders'[i] \in Final => Found(i) \in ClosedFinal
      BY <1>2, <2>1, Statuses
    <3> QED
      BY <3>1, Statuses DEF Found, FinalInv, SnapFinal, Fated
  <2>4. \A j \in Ids \ {i} : orders'[j] = orders[j]
    BY <1>2, <2>1
  <2>5. ~ToCompare(i)' /\ \A j \in Ids : ToCompare(j)' => ToCompare(j)
    BY <2>1 DEF ToCompare, FetchPc
  <2>6. FinalRows'
    BY <1>1, <2>1, <2>3, <2>4, <2>5 DEF FinalInv, FinalRows, Fated
  <2> QED
    BY <2>2, <2>6 DEF FinalInv
<1>8. CASE RepairsDone \/ UpsertPosition \/ SymbolPasses
             \/ \E t \in Trades : ReplayTrade(t)
  <2>1. orders' = orders /\ pc' # "await"
    BY <1>8 DEF RepairsDone, UpsertPosition, SymbolPasses, ReplayTrade,
                BeginSymbol, dbVars
  <2>2. \/ snap'.open = NoAnswer /\ snap'.recent = NoAnswer
        \/ snap'.open = snap.open /\ snap'.recent = snap.recent
    <3>1. CASE RepairsDone
      BY <1>2, <3>1 DEF RepairsDone, Snapshot
    <3>2. CASE UpsertPosition
      BY <3>2 DEF UpsertPosition, recVars
    <3>3. CASE SymbolPasses
      BY <3>3 DEF SymbolPasses, BeginSymbol, EmptySnap
    <3>4. CASE \E t \in Trades : ReplayTrade(t)
      BY <1>2, <3>4 DEF ReplayTrade, Snapshot
    <3> QED
      BY <1>8, <3>1, <3>2, <3>3, <3>4
  <2>3. SnapFinal' /\ AnswerFinal'
    BY <1>1, <2>1, <2>2, Statuses
       DEF FinalInv, SnapFinal, AnswerFinal, NoAnswer
  <2>4. \A i \in Ids : ~ToCompare(i)' \/ snap' = EmptySnap
    BY <1>8 DEF RepairsDone, UpsertPosition, SymbolPasses, ReplayTrade,
                BeginSymbol, ToCompare, FetchPc
  <2> QED
    BY <1>1, <2>1, <2>3, <2>4, FinalUncompared
<1> QED
  BY <1>3, <1>4, <1>5, <1>6, <1>7, <1>8
     DEF ReconcileNext, FetchFails, BalanceUnexplained, SymbolBlocked

LEMMA PipelineKeepsFinal ==
  ASSUME TypeOK, RowsReturn, FinalInv, PipelineNext
  PROVE  FinalInv'
<1>1. snap' = snap /\ xorder' = xorder /\ pc' \in TradingPc
  BY DEF PipelineNext, LoadPositions, NewSignal, NoSignal, Approve, Reject,
         InsertIntent, DuplicateOrderBlocked, Transmit, SettleReply,
         SettleAmbiguous, Settle, PipelineError, AdvanceCheckpoint, recVars,
         bookVars, TradingPc
<1>2. \A i \in Ids : ~ToCompare(i)'
  BY <1>1 DEF ToCompare, TradingPc, FetchPc
<1>3. SnapFinal'
  BY <1>1 DEF FinalInv, SnapFinal
<1>4. orders \in [Ids -> LocalStatus \union {NoRow}]
  BY DEF TypeOK, DbType
<1>5. CASE Transmit
  <2>1. /\ pc = "post" /\ inflight' = inflight \union {cur}
        /\ orders' = orders /\ reply' = NoReply
    BY <1>5 DEF Transmit, dbVars
  <2>2. orders[cur] \notin Final
    BY <2>1, Statuses DEF RowsReturn
  <2>3. FinalRows'
    BY <1>1, <1>2, <2>1, <2>2 DEF FinalInv, FinalRows, Fated
  <2> QED
    BY <1>3, <2>1, <2>3 DEF FinalInv, AnswerFinal
<1>6. CASE ~Transmit
  <2>1. inflight' = inflight /\ pc' # "await"
    BY <1>6 DEF PipelineNext, LoadPositions, NewSignal, NoSignal, Approve,
         Reject, InsertIntent, DuplicateOrderBlocked, SettleReply,
         SettleAmbiguous, Settle, PipelineError, AdvanceCheckpoint, wireVars
  <2>2. ASSUME NEW i \in Ids, orders'[i] \in Final
        PROVE  orders[i] \in Final \/ Fated(i)
    <3>1. CASE orders' = orders
      BY <2>2, <3>1
    <3>2. CASE InsertIntent
      BY <1>4, <2>2, <3>2, Statuses DEF InsertIntent
    <3>3. CASE SettleAmbiguous
      BY <1>4, <2>2, <3>3, Statuses DEF SettleAmbiguous, Settle
    <3>4. CASE SettleReply
      <4>1. /\ pc = "await" /\ reply # NoReply
            /\ orders' = [orders EXCEPT ![cur] =
                  IF reply = HttpReject THEN "REJECTED" ELSE StoredStatus(reply)]
        BY <3>4 DEF SettleReply, Settle
      <4>2. CASE i = cur
        BY <1>4, <2>2, <4>1, <4>2, Statuses DEF FinalInv, AnswerFinal, Fated
      <4>3. CASE i # cur
        BY <1>4, <2>2, <4>1, <4>3
      <4> QED
        BY <4>2, <4>3
    <3>5. \/ orders' = orders \/ InsertIntent \/ SettleReply \/ SettleAmbiguous
      BY <1>6 DEF PipelineNext, LoadPositions, NewSignal, NoSignal, Approve,
         Reject, DuplicateOrderBlocked, PipelineError, AdvanceCheckpoint, dbVars
    <3> QED
      BY <3>1, <3>2, <3>3, <3>4, <3>5
  <2>3. AnswerFinal'
    BY <2>1 DEF AnswerFinal
  <2> QED
    BY <1>1, <1>2, <1>3, <2>1, <2>2, <2>3, FinalUncompared
<1> QED
  BY <1>5, <1>6

LEMMA NextKeepsFinal ==
  ASSUME TypeOK, PlacedInv, FinalInv, [Next]_vars
  PROVE  FinalInv'
<1>1. CASE Start
  <2>1. PICK s \in Symbols : BeginSymbol(s, Symbols \ {s})
    BY <1>1 DEF Start
  <2>2. pc' = "fetchOpen" /\ snap' = EmptySnap
    BY <2>1 DEF BeginSymbol
  <2>3. UNCHANGED <<orders, xorder, inflight>>
    BY <1>1 DEF Start, dbVars, bookVars, wireVars
  <2>4. SnapFinal' /\ AnswerFinal'
    BY <2>2, <2>3, Statuses DEF SnapFinal, AnswerFinal, EmptySnap, NoAnswer
  <2> QED
    BY <2>2, <2>3, <2>4, FinalUncompared
<1>2. CASE Stop \/ Crash
  BY <1>2, EndKeepsFinal DEF Stop, Crash
<1>3. CASE FreshDatabase
  <2>1. /\ pc = "off" /\ pc' = "off" /\ orders' = NoRows
        /\ UNCHANGED <<xorder, inflight, snap, todo>>
    BY <1>3 DEF FreshDatabase, recVars, bookVars, wireVars
  <2>2. \A i \in Ids : orders'[i] \notin Final
    BY <2>1, Statuses DEF NoRows
  <2>3. \A i \in Ids : ToCompare(i)' => ToCompare(i)
    BY <2>1 DEF ToCompare
  <2> QED
    BY <2>1, <2>2, <2>3, FinalSame
<1>4. CASE EngineNext
  BY <1>4, ReconcileKeepsFinal, PipelineKeepsFinal DEF EngineNext, PlacedInv
<1>5. CASE ExchangeNext
  BY <1>5, ExchangeKeepsFinal DEF PlacedInv
<1>6. CASE UNCHANGED vars
  BY <1>6 DEF vars, dbVars, memVars, recVars, bookVars, wireVars, FinalInv,
              SnapFinal, FinalRows, AnswerFinal, Fated, ToCompare
<1> QED
  BY <1>1, <1>2, <1>3, <1>4, <1>5, <1>6 DEF Next

LEMMA InitFinal == Init => FinalInv
<1> SUFFICES ASSUME Init PROVE FinalInv
  OBVIOUS
<1>1. orders = NoRows /\ snap = EmptySnap /\ pc = "off"
  BY DEF Init, EmptyDatabase, NoProcess
<1> QED
  BY <1>1, Statuses DEF FinalInv, SnapFinal, FinalRows, AnswerFinal, NoRows,
                        EmptySnap, NoAnswer

---------------------------------------------------------------------------
(* The refinement, step by step.                                           *)

Live == inflight \union {i \in Ids : accepted[i] > 0}

LEMMA RecordIs ==
  ASSUME NEW i
  PROVE  /\ orders[i] = NoRow => RecordOf(i) = "absent"
         /\ orders[i] \in Final => RecordOf(i) = "final"
         /\ orders[i] \in UnresolvedStatus => RecordOf(i) = "doubtful"
         /\ orders[i] \notin Final \union UnresolvedStatus \union {NoRow}
              => RecordOf(i) = "open"
BY Statuses DEF RecordOf, UnresolvedStatus, Final, NoRow

LEMMA RecordBecomes ==
  ASSUME NEW i
  PROVE  /\ orders'[i] = NoRow => RecordOf(i)' = "absent"
         /\ orders'[i] \in Final => RecordOf(i)' = "final"
         /\ orders'[i] \in UnresolvedStatus => RecordOf(i)' = "doubtful"
         /\ orders'[i] \notin Final \union UnresolvedStatus \union {NoRow}
              => RecordOf(i)' = "open"
BY Statuses DEF RecordOf, UnresolvedStatus, Final, NoRow

\* A row that is there is open, doubtful or final.
LEMMA RowKinds ==
  ASSUME NEW i, orders'[i] # NoRow
  PROVE  RecordOf(i)' \in {"open", "doubtful", "final"}
BY RecordBecomes

\* One row changes.
LEMMA RecordStep ==
  ASSUME NEW j \in Ids, NEW status, orders' = [orders EXCEPT ![j] = status],
         orders \in [Ids -> LocalStatus \union {NoRow}]
  PROVE  [i \in Ids |-> RecordOf(i)]'
           = [[i \in Ids |-> RecordOf(i)] EXCEPT ![j] = RecordOf(j)']
<1>1. ASSUME NEW i \in Ids, i # j PROVE RecordOf(i)' = RecordOf(i)
  BY <1>1 DEF RecordOf
<1> QED
  BY <1>1

LEMMA NoDoubtMaps ==
  (\A i \in Ids : Resolved(i)) => Promise!NoDoubt
BY Statuses, RecordIs DEF Promise!NoDoubt, Resolved

LEMMA StutterMaps ==
  ASSUME UNCHANGED orders, Live' = Live, Trading' <=> Trading
  PROVE  UNCHANGED Promise!svars
BY DEF Promise!svars, Live, RecordOf, Trading

LEMMA EndMaps == ProcessEnds => [Promise!SNext]_(Promise!svars)
<1> SUFFICES ASSUME ProcessEnds
             PROVE  Promise!SNext \/ UNCHANGED Promise!svars
  OBVIOUS
<1>1. UNCHANGED orders /\ Live' = Live /\ ~Trading'
  BY DEF ProcessEnds, dbVars, bookVars, Live, Trading, TradingPc
<1>2. CASE Trading
  BY <1>1, <1>2 DEF Promise!SNext, Promise!EndTrading, Live, RecordOf
<1>3. CASE ~Trading
  BY <1>1, <1>3, StutterMaps
<1> QED
  BY <1>2, <1>3

LEMMA ReconcileMaps ==
  ASSUME TypeOK, FinalInv, ReconcileNext
  PROVE  [Promise!SNext]_(Promise!svars)
<1> SUFFICES ASSUME ~ProcessEnds
             PROVE  Promise!SNext \/ UNCHANGED Promise!svars
  BY EndMaps
<1>1. Live' = Live
  BY ReconcileFrame DEF bookVars, wireVars, Live
<1>2. ~Trading /\ ~Trading'
  BY DEF ReconcileNext, FetchOpenOrders, FetchRecentOrders, FetchTrades,
         FetchAccount, FetchFails, CompareOrders, MarkUnknown,
         AdoptFromExchange, LeaveStatusMismatch, RepairsDone, ReplayTrade,
         UpsertPosition, BalanceUnexplained, SymbolPasses, SymbolBlocked,
         BeginSymbol, ProcessEnds, Trading, TradingPc, FetchPc
<1>3. orders \in [Ids -> LocalStatus \union {NoRow}]
  BY DEF TypeOK, DbType
<1>4. ASSUME NEW i \in Ids, NEW status \in LocalStatus,
             orders' = [orders EXCEPT ![i] = status],
             orders[i] \in Final => status \in Final
      PROVE  Promise!SNext
  <2>1. orders'[i] = status /\ status # NoRow
    BY <1>3, <1>4 DEF LocalStatus, NoRow
  <2>2. RecordOf(i)' \in {"open", "doubtful", "final"}
    BY <2>1, RowKinds
  <2>3. RecordOf(i) = "final" => RecordOf(i)' = "final"
    BY <1>4, <2>1, RecordIs, RecordBecomes
  <2>4. PICK r \in {"open", "doubtful", "final"} : r = RecordOf(i)'
    BY <2>2
  <2>5. [j \in Ids |-> RecordOf(j)]'
          = [[j \in Ids |-> RecordOf(j)] EXCEPT ![i] = r]
    BY <1>3, <1>4, <2>4, RecordStep
  <2>6. [j \in Ids |-> RecordOf(j)][i] = "final" => r = "final"
    BY <2>3, <2>4
  <2>7. UNCHANGED <<inflight \cup {j \in Ids : accepted[j] > 0}, Trading>>
    BY <1>1, <1>2 DEF Live, Trading
  <2>8. Promise!Reconcile(i)
    BY <1>2, <2>5, <2>6, <2>7 DEF Promise!Reconcile
  <2> QED
    BY <2>8 DEF Promise!SNext
<1>5. ASSUME NEW i \in Ids, MarkUnknown(i) PROVE Promise!SNext
  BY <1>4, <1>5, Statuses
     DEF MarkUnknown, MissingOnExchange, LocallyOpen, LocalStatus
<1>6. ASSUME NEW i \in Ids, AdoptFromExchange(i) PROVE Promise!SNext
  <2>1. ToCompare(i) /\ Merged(i) # NoOrder
    BY <1>6 DEF AdoptFromExchange, MissingLocally, ToCompare
  <2>2. orders[i] \in Final => Found(i) \in ClosedFinal
    BY <2>1 DEF FinalInv, FinalRows, Found, Merged
  <2> QED
    BY <1>4, <1>6, <2>2, Statuses, StoredStatusType DEF AdoptFromExchange
<1>7. ASSUME orders' = orders PROVE UNCHANGED Promise!svars
  BY <1>1, <1>2, <1>7, StutterMaps
<1>8. \/ orders' = orders
      \/ \E i \in Ids : MarkUnknown(i) \/ AdoptFromExchange(i)
  BY DEF ReconcileNext, FetchOpenOrders, FetchRecentOrders, FetchTrades,
         FetchAccount, FetchFails, CompareOrders, LeaveStatusMismatch,
         RepairsDone, ReplayTrade, UpsertPosition, BalanceUnexplained,
         SymbolPasses, SymbolBlocked, dbVars
<1> QED
  BY <1>5, <1>6, <1>7, <1>8

LEMMA PipelineMaps ==
  ASSUME TypeOK, DoubtConfined, PlacedInv, PipelineNext
  PROVE  [Promise!SNext]_(Promise!svars)
<1> SUFFICES Promise!SNext \/ UNCHANGED Promise!svars
  OBVIOUS
<1>1. orders \in [Ids -> LocalStatus \union {NoRow}]
  BY DEF TypeOK, DbType
<1>2. cur \in Signals \/ pc \notin {"intent", "post", "await"}
  BY DEF TypeOK, ControlType, TradingPc
<1>3. CASE LoadPositions
  <2>1. /\ pc = "load" /\ UNCHANGED orders /\ Live' = Live
        /\ ~Trading /\ Trading'
    BY <1>3 DEF LoadPositions, dbVars, bookVars, wireVars, Live, Trading, TradingPc
  <2>2. Promise!NoDoubt
    BY <2>1, NoDoubtMaps DEF DoubtConfined
  <2>3. \A i \in Signals \intersect Live : orders[i] # NoRow
    BY <2>1 DEF PlacedInv, RowsReturn, HasRow, Live
  <2>4. \A i \in Signals \intersect Live : RecordOf(i) # "absent"
    BY <2>3, RecordIs
  <2> QED
    BY <2>1, <2>2, <2>4, OrderNames
       DEF Promise!SNext, Promise!BeginTrading, Live, RecordOf
<1>4. CASE InsertIntent
  <2>1. /\ pc = "intent" /\ Live' = Live /\ Trading /\ Trading'
        /\ orders[cur] = NoRow /\ orders' = [orders EXCEPT ![cur] = "PENDING"]
    BY <1>4 DEF InsertIntent, bookVars, wireVars, Live, Trading, TradingPc
  <2>2. cur \in Ids /\ cur \in Signals
    BY <1>2, <2>1, OrderNames
  <2>3. Promise!NoDoubt
    BY <2>1, NoDoubtMaps DEF DoubtConfined, TradingPc
  <2>4. RecordOf(cur) = "absent"
    BY <2>1, RecordIs
  <2>5. orders'[cur] = "PENDING"
    BY <1>1, <2>1, <2>2
  <2>6. [i \in Ids |-> RecordOf(i)]'
          = [[i \in Ids |-> RecordOf(i)] EXCEPT ![cur] = "open"]
    <3>1. PICK o \in Ids : o = cur
      BY <2>2
    <3>2. RecordOf(o)' = "open"
      BY <2>5, <3>1, RecordBecomes, Statuses DEF UnresolvedStatus, NoRow
    <3> QED
      BY <1>1, <2>1, <3>1, <3>2, RecordStep
  <2>7. Promise!Intend(cur)
    BY <2>1, <2>2, <2>3, <2>4, <2>6 DEF Promise!Intend, Live
  <2> QED
    BY <2>2, <2>7 DEF Promise!SNext
<1>5. CASE Transmit
  <2>1. /\ pc = "post" /\ orders' = orders /\ Live' = Live \union {cur}
        /\ Trading /\ Trading'
    BY <1>5 DEF Transmit, dbVars, bookVars, Live, Trading, TradingPc
  <2>2. PICK o \in Ids : o = cur
    BY <1>2, <2>1, OrderNames
  <2>3. Promise!NoDoubt
    BY <2>1, NoDoubtMaps DEF DoubtConfined, TradingPc
  <2>4. orders[o] = "PENDING" /\ o \notin Live
    BY <2>1, <2>2 DEF PlacedInv, RowsReturn, Live
  <2>5. RecordOf(o) = "open"
    BY <2>4, RecordIs, Statuses DEF UnresolvedStatus, NoRow
  <2>6. Promise!Send(o)
    BY <2>1, <2>2, <2>3, <2>4, <2>5 DEF Promise!Send, Live, RecordOf, Trading
  <2> QED
    BY <2>6 DEF Promise!SNext
<1>6. ASSUME NEW status \in LocalStatus, Settle(status) PROVE Promise!SNext
  <2>1. /\ pc = "await" /\ Live' = Live /\ Trading /\ Trading'
        /\ orders' = [orders EXCEPT ![cur] = status]
    BY <1>6 DEF Settle, bookVars, Live, Trading, TradingPc
  <2>2. PICK o \in Ids : o = cur
    BY <1>2, <2>1, OrderNames
  <2>3. orders[o] = "PENDING"
    BY <2>1, <2>2 DEF PlacedInv, RowsReturn
  <2>4. RecordOf(o) = "open"
    BY <2>3, RecordIs, Statuses DEF UnresolvedStatus, NoRow
  <2>5. orders'[o] # NoRow
    BY <1>1, <2>1, <2>2 DEF LocalStatus, NoRow
  <2>6. PICK r \in {"open", "doubtful", "final"} : r = RecordOf(o)'
    BY <2>5, RowKinds
  <2>7. [j \in Ids |-> RecordOf(j)]'
          = [[j \in Ids |-> RecordOf(j)] EXCEPT ![o] = r]
    BY <1>1, <2>1, <2>2, <2>6, RecordStep
  <2>8. UNCHANGED <<inflight \cup {j \in Ids : accepted[j] > 0}, Trading>>
    BY <2>1 DEF Live, Trading
  <2>9. Promise!Settle(o)
    BY <2>1, <2>4, <2>7, <2>8 DEF Promise!Settle
  <2> QED
    BY <2>9 DEF Promise!SNext
<1>7. CASE SettleReply \/ SettleAmbiguous
  BY <1>6, <1>7, StoredStatusType DEF SettleReply, SettleAmbiguous, LocalStatus
<1>8. CASE \/ Approve \/ Reject \/ DuplicateOrderBlocked
           \/ PipelineError \/ AdvanceCheckpoint
           \/ \E i \in Signals : NewSignal(i) \/ NoSignal(i)
  <2>1. orders' = orders /\ Live' = Live /\ Trading' = Trading
    BY <1>8 DEF Approve, Reject, DuplicateOrderBlocked, PipelineError,
                AdvanceCheckpoint, NewSignal, NoSignal, dbVars, bookVars,
                wireVars, Live, Trading, TradingPc
  <2> QED
    BY <2>1, StutterMaps
<1> QED
  BY <1>3, <1>4, <1>5, <1>7, <1>8 DEF PipelineNext

LEMMA ExchangeMaps ==
  ASSUME TypeOK, PlacedInv, ExchangeNext
  PROVE  [Promise!SNext]_(Promise!svars)
<1> SUFFICES Promise!SNext \/ UNCHANGED Promise!svars
  OBVIOUS
<1>1. UNCHANGED <<orders, pc>>
  BY DEF ExchangeNext, ExchangeAccepts, ExchangeRefuses, SubmissionLost,
         ExchangeFills, ExchangeCloses, OrderByHand, Deposit, dbVars
<1>2. Trading' = Trading /\ \A i \in Ids : RecordOf(i)' = RecordOf(i)
  BY <1>1 DEF Trading, RecordOf
<1>3. accepted \in [Ids -> Nat]
  BY DEF TypeOK, BookType
<1>4. ASSUME Live' = Live PROVE UNCHANGED Promise!svars
  BY <1>1, <1>2, <1>4, StutterMaps
<1>5. ASSUME NEW i \in Signals, ExchangeAccepts(i) PROVE Live' = Live
  <2>1. i \in Ids /\ i \in inflight /\ inflight' = inflight \ {i}
    BY <1>5, OrderNames DEF ExchangeAccepts
  <2>2. accepted' = [accepted EXCEPT ![i] = accepted[i] + 1]
    BY <1>5 DEF ExchangeAccepts, Place
  <2> QED
    BY <1>3, <2>1, <2>2 DEF Live
<1>6. ASSUME NEW i \in Signals, ExchangeRefuses(i) \/ SubmissionLost(i)
      PROVE  Promise!SNext
  <2>1. i \in Ids /\ i \in inflight /\ inflight' = inflight \ {i}
        /\ accepted' = accepted
    BY <1>6, OrderNames DEF ExchangeRefuses, SubmissionLost, bookVars
  <2>2. accepted[i] = 0
    BY <2>1 DEF PlacedInv, AccountKept
  <2>3. i \in Live /\ Live' = Live \ {i}
    BY <2>1, <2>2 DEF Live
  <2>4. Promise!Lose(i)
    BY <1>2, <2>3 DEF Promise!Lose, Live
  <2> QED
    BY <2>1, <2>4 DEF Promise!SNext
<1>7. ASSUME NEW s \in SharedSymbols, OrderByHand(s) PROVE Promise!SNext
  <2>1. PICK i \in Ids : i = <<s, 0>>
    BY OrderNames, EngineAssumption
  <2>2. i \notin Signals
    BY <2>1, EngineAssumption DEF Signals
  <2>3. inflight' = inflight /\ accepted' = [accepted EXCEPT ![i] = accepted[i] + 1]
    BY <1>7, <2>1 DEF OrderByHand, Place, wireVars
  <2>4. Live' = Live \union {i}
    BY <1>3, <2>3 DEF Live
  <2>5. Promise!PlacedByOthers(i)
    BY <1>2, <2>2, <2>4 DEF Promise!PlacedByOthers, Live
  <2> QED
    BY <2>5 DEF Promise!SNext
<1>8. ASSUME \/ \E i \in Ids : ExchangeFills(i) \/ ExchangeCloses(i)
             \/ \E s \in Symbols : Deposit(s)
      PROVE  Live' = Live
  BY <1>8 DEF ExchangeFills, ExchangeCloses, Deposit, wireVars, Live
<1> QED
  BY <1>4, <1>5, <1>6, <1>7, <1>8 DEF ExchangeNext

LEMMA NextMaps ==
  ASSUME TypeOK, DoubtConfined, PlacedInv, FinalInv, [Next]_vars
  PROVE  [Promise!SNext]_(Promise!svars)
<1> SUFFICES Promise!SNext \/ UNCHANGED Promise!svars
  OBVIOUS
<1>1. CASE Start
  <2>1. UNCHANGED orders /\ Live' = Live /\ ~Trading /\ ~Trading'
    BY <1>1 DEF Start, BeginSymbol, dbVars, bookVars, wireVars, Live, Trading,
                TradingPc
  <2> QED
    BY <2>1, StutterMaps
<1>2. CASE Stop \/ Crash
  BY <1>2, EndMaps DEF Stop, Crash
<1>3. CASE FreshDatabase
  <2>1. orders' = NoRows /\ Live' = Live /\ ~Trading /\ ~Trading'
    BY <1>3 DEF FreshDatabase, bookVars, wireVars, Live, Trading, TradingPc
  <2>2. \A i \in Ids : RecordOf(i)' = "absent"
    BY <2>1, RecordBecomes DEF NoRows
  <2> QED
    BY <2>1, <2>2 DEF Promise!SNext, Promise!Forget, Live, Trading
<1>4. CASE EngineNext
  BY <1>4, ReconcileMaps, PipelineMaps DEF EngineNext
<1>5. CASE ExchangeNext
  BY <1>5, ExchangeMaps
<1>6. CASE UNCHANGED vars
  BY <1>6, StutterMaps DEF vars, dbVars, bookVars, wireVars, Live, Trading
<1> QED
  BY <1>1, <1>2, <1>3, <1>4, <1>5, <1>6 DEF Next

LEMMA InitMaps == Init => Promise!SInit
<1> SUFFICES ASSUME Init PROVE Promise!SInit
  OBVIOUS
<1>1. /\ orders = NoRows /\ pc = "off"
      /\ inflight = {} /\ accepted = [i \in Ids |-> 0]
  BY DEF Init, EmptyDatabase, NoProcess
<1>2. \A i \in Ids : RecordOf(i) = "absent"
  BY <1>1, RecordIs DEF NoRows
<1>3. Trading = FALSE
  BY <1>1 DEF Trading, TradingPc
<1>4. {i \in Ids : accepted[i] > 0} = {}
  BY <1>1
<1> QED
  BY <1>1, <1>2, <1>3, <1>4 DEF Promise!SInit

\* The engine implements SafeSubmission: it sends only what is on record and
\* not live, nothing while an order is in doubt, and starts to trade only
\* with a record of each of its live orders (reconciliation.py:57,
\* execution_pipeline.py:182 and :218), as long as no order is pushed out of
\* the list of recent orders.
THEOREM KeepsThePromise == Spec /\ []NothingPushedOut => KeepsPromise
<1>1. Spec => []DoubtConfined
  <2>1. Init => DoubtConfined
    BY Phases DEF Init, NoProcess, DoubtConfined
  <2>2. TypeOK /\ DoubtConfined /\ [Next]_vars => DoubtConfined'
    BY NextConfined
  <2> QED
    BY <2>1, <2>2, TypeCorrect, PTL DEF Spec
<1>2. Spec /\ []NothingPushedOut => []PlacedInv
  <2>1. TypeOK /\ PlacedInv /\ NothingPushedOut /\ [Next]_vars => PlacedInv'
    BY NextKeepsRows
  <2> QED
    BY <2>1, InitPlaced, TypeCorrect, PTL DEF Spec
<1>3. Spec /\ []NothingPushedOut => []FinalInv
  <2>1. TypeOK /\ PlacedInv /\ FinalInv /\ [Next]_vars => FinalInv'
    BY NextKeepsFinal
  <2> QED
    BY <1>2, <2>1, InitFinal, TypeCorrect, PTL DEF Spec
<1>4. TypeOK /\ DoubtConfined /\ PlacedInv /\ FinalInv /\ [Next]_vars
        => [Promise!SNext]_(Promise!svars)
  BY NextMaps
<1> QED
  BY <1>1, <1>2, <1>3, <1>4, InitMaps, TypeCorrect, PTL
     DEF Spec, KeepsPromise, Promise!SSpec

\* With fewer candles of a symbol than get_recent_orders returns orders the
\* three properties need nothing else: no signal becomes two orders, no order
\* is without a row while the engine trades, and the promise is kept, through
\* failed candles, lost answers, restarts and an emptied database.
THEOREM KeepsAllOfFew ==
  ASSUME FewCandles
  PROVE  Spec => []PlacedAtMostOnce /\ []NoOrphanOrder /\ KeepsPromise
BY NonePushedOut, PlacedOnce, NoOrphan, KeepsThePromise
---------------------------------------------------------------------------
\* The promise alone, without the machinery that keeps it, means that no live
\* order is ever forgotten while orders can be sent: what NoOrphan shows of
\* the engine holds of everything that implements SafeSubmission.
THEOREM PromiseForgetsNothing == Promise!SSpec => []Promise!NothingForgotten
<1>1. Promise!SInit => Promise!NothingForgotten
  BY DEF Promise!SInit, Promise!NothingForgotten
<1>2. Promise!NothingForgotten /\ [Promise!SNext]_(Promise!svars)
        => Promise!NothingForgotten'
  <2> SUFFICES ASSUME Promise!NothingForgotten, [Promise!SNext]_(Promise!svars)
               PROVE  Promise!NothingForgotten'
    OBVIOUS
  <2> DEFINE rec == [i \in Ids |-> RecordOf(i)]
             known == \A o \in Signals \intersect Live : rec[o] # "absent"
  <2>1. Promise!NothingForgotten <=> (Trading => known)
    BY DEF Promise!NothingForgotten, Live
  <2>2. Promise!NothingForgotten' <=> (Trading' => known')
    BY DEF Promise!NothingForgotten, Live
  <2>3. \A o \in Ids : \A r :
           /\ [rec EXCEPT ![o] = r][o] = r
           /\ \A p \in Ids \ {o} : [rec EXCEPT ![o] = r][p] = rec[p]
    OBVIOUS
  <2>4. CASE Promise!BeginTrading
    BY <2>2, <2>4 DEF Promise!BeginTrading, Live
  <2>5. CASE Promise!EndTrading \/ Promise!Forget
    BY <2>2, <2>5 DEF Promise!EndTrading, Promise!Forget
  <2>6. ASSUME NEW o \in Ids, Promise!Intend(o) \/ Promise!Settle(o) \/ Promise!Reconcile(o)
        PROVE  Promise!NothingForgotten'
    <3>1. /\ Live' = Live /\ Trading' = Trading
          /\ \E r : (Trading => r # "absent") /\ rec' = [rec EXCEPT ![o] = r]
      BY <2>6 DEF Promise!Intend, Promise!Settle, Promise!Reconcile, Live
    <3> HIDE DEF rec
    <3> QED
      BY <2>1, <2>2, <2>3, <3>1, OrderNames
  <2>7. ASSUME NEW o \in Ids, Promise!Send(o)
        PROVE  Promise!NothingForgotten'
    <3>1. /\ Live' = Live \union {o} /\ Trading' = Trading
          /\ rec' = rec /\ rec[o] = "open" /\ Trading
      BY <2>7 DEF Promise!Send, Live
    <3> HIDE DEF rec
    <3> QED
      BY <2>1, <2>2, <3>1
  <2>8. ASSUME NEW o \in Ids, Promise!Lose(o) \/ Promise!PlacedByOthers(o)
        PROVE  Promise!NothingForgotten'
    <3>1. /\ Live' \subseteq Live \union (Ids \ Signals) /\ Trading' = Trading
          /\ rec' = rec
      BY <2>8 DEF Promise!Lose, Promise!PlacedByOthers, Live
    <3> HIDE DEF rec
    <3> QED
      BY <2>1, <2>2, <3>1
  <2>9. CASE UNCHANGED Promise!svars
    <3>1. Live' = Live /\ Trading' = Trading /\ rec' = rec
      BY <2>9 DEF Promise!svars, Live
    <3> HIDE DEF rec
    <3> QED
      BY <2>1, <2>2, <3>1
  <2> QED
    BY <2>4, <2>5, <2>6, <2>7, <2>8, <2>9 DEF Promise!SNext
<1> QED
  BY <1>1, <1>2, PTL DEF Promise!SSpec
=============================================================================
