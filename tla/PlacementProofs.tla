-------------------------- MODULE PlacementProofs --------------------------
(***************************************************************************)
(* One signal never becomes two orders, and while the engine trades each   *)
(* of its orders has a row: PlacedAtMostOnce and NoOrphanOrder, as long as *)
(* no order has been pushed out of the list get_recent_orders returns.     *)
(*                                                                         *)
(* Neither is inductive.  A database may have been emptied, so that rows   *)
(* are missing; RowsReturn follows how the startup brings them back, from  *)
(* the list fetched over the mismatches to the repaired rows.              *)
(***************************************************************************)
EXTENDS SubmissionProofs

\* get_recent_orders returns every order there is.
NothingPushedOut == \A s \in Symbols : Len(xlog[s]) <= RecentLimit

HasRow(i) == orders[i] # NoRow

\* The account has an order and its place in the list for what it accepted.
Listed(i) == \E k \in 1..Len(xlog[Sym(i)]) : xlog[Sym(i)][k] = i

AccountKept ==
  /\ \A i \in Ids : xorder[i] # NoOrder <=> accepted[i] > 0
  /\ \A i \in Ids : accepted[i] > 0 => Listed(i)
  /\ \A i \in Signals : accepted[i] <= 1
  /\ \A i \in inflight : accepted[i] = 0

\* What the startup knows at each point of an order without a row.
Known(i) ==
  /\ pc \in {"fetchTrades", "fetchAccount", "compare"} => snap.recent[i] # NoOrder
  /\ pc = "repair" => i \in todo
  /\ pc \notin {"replayTrades", "recCheck"}

RowsReturn ==
  /\ \A i \in inflight : HasRow(i)
  /\ pc \in {"load"} \union TradingPc =>
       \A i \in Signals : accepted[i] > 0 => HasRow(i)
  /\ pc \in FetchPc \union RepairPc =>
       \A i \in Signals : accepted[i] > 0 /\ ~HasRow(i) =>
         NotPassed(Sym(i)) /\ (Sym(i) = rsym => Known(i))
  /\ pc = "post" => /\ orders[cur] = "PENDING"
                    /\ accepted[cur] = 0 /\ cur \notin inflight
  /\ pc = "await" => orders[cur] = "PENDING"

PlacedInv == AccountKept /\ RowsReturn

---------------------------------------------------------------------------
(* The account.                                                            *)

\* An order that is placed is listed, and the ones listed before stay so.
LEMMA PlaceLists ==
  ASSUME TypeOK, NEW i \in Ids, NEW raw, NEW n, Place(i, raw, n)
  PROVE  \A j \in Ids : Listed(j) \/ j = i => Listed(j)'
<1>1. Sym(i) \in Symbols /\ xlog \in [Symbols -> Seq(Ids)]
  BY OrderNames DEF TypeOK, BookType
<1>2. xlog' = [xlog EXCEPT ![Sym(i)] = Append(@, i)]
  BY DEF Place
<1>3. ASSUME NEW j \in Ids, Sym(j) # Sym(i), Listed(j) PROVE Listed(j)'
  <2>1. xlog'[Sym(j)] = xlog[Sym(j)]
    BY <1>1, <1>2, <1>3, OrderNames
  <2> QED
    BY <1>3, <2>1 DEF Listed
<1>4. ASSUME NEW j \in Ids, Sym(j) = Sym(i), Listed(j) \/ j = i PROVE Listed(j)'
  <2> DEFINE log == xlog[Sym(i)]
  <2>1. log \in Seq(Ids) /\ xlog'[Sym(j)] = Append(log, i)
    BY <1>1, <1>2, <1>4
  <2>2. /\ Len(Append(log, i)) = Len(log) + 1
        /\ \A k \in 1..Len(log) : Append(log, i)[k] = log[k]
        /\ Append(log, i)[Len(log) + 1] = i
    BY <2>1
  <2>3. Len(log) \in Nat
    BY <2>1
  <2>4. CASE j = i
    BY <1>4, <2>1, <2>2, <2>3, <2>4 DEF Listed
  <2>5. CASE Listed(j)
    <3>1. PICK k \in 1..Len(log) : log[k] = j
      BY <1>4, <2>5 DEF Listed
    <3>2. k \in 1..(Len(log) + 1) /\ Append(log, i)[k] = j
      BY <2>2, <2>3, <3>1
    <3> QED
      BY <2>1, <2>2, <3>2 DEF Listed
  <2> QED
    BY <1>4, <2>4, <2>5
<1> QED
  BY <1>3, <1>4

\* Placing an order that was not accepted before keeps the account in order.
LEMMA PlaceKeeps ==
  ASSUME TypeOK, AccountKept, NEW i \in Ids, accepted[i] = 0,
         NEW raw \in RawUsed, NEW n, Place(i, raw, n),
         inflight' \subseteq inflight \ {i}
  PROVE  AccountKept'
<1>1. accepted' = [accepted EXCEPT ![i] = 1] /\ accepted \in [Ids -> Nat]
  BY DEF Place, TypeOK, BookType
<1>2. xorder' = [xorder EXCEPT ![i] = raw] /\ raw # NoOrder
  BY EngineAssumption DEF Place, NoOrder, RawStatus
<1>3. xorder \in [Ids -> RawStatus \union {NoOrder}]
  BY DEF TypeOK, BookType
<1>4. \A j \in Ids : xorder'[j] # NoOrder <=> accepted'[j] > 0
  BY <1>1, <1>2, <1>3 DEF AccountKept
<1>5. \A j \in Ids : accepted'[j] > 0 => Listed(j)'
  BY <1>1, PlaceLists DEF AccountKept
<1>6. \A j \in Signals : accepted'[j] <= 1
  BY <1>1, OrderNames DEF AccountKept
<1>7. \A j \in inflight' : accepted'[j] = 0
  BY <1>1, OrderNames DEF AccountKept, TypeOK, WireType
<1> QED
  BY <1>4, <1>5, <1>6, <1>7 DEF AccountKept

\* A step that places nothing and sends nothing.
LEMMA AccountSame ==
  ASSUME AccountKept, inflight' \subseteq inflight,
         UNCHANGED <<accepted, xlog>>,
         \A i \in Ids : xorder'[i] # NoOrder <=> xorder[i] # NoOrder
  PROVE  AccountKept'
BY DEF AccountKept, Listed

\* What the exchange does to the orders of the engine: it takes some off the
\* wire, and accepts none that was not on it.
LEMMA ExchangeTakes ==
  ASSUME TypeOK, AccountKept, ExchangeNext
  PROVE  /\ AccountKept'
         /\ inflight' \subseteq inflight
         /\ \A i \in Signals : i \in inflight \/ accepted'[i] = accepted[i]
<1> USE DEF TypeOK, BookType, WireType
<1>1. ASSUME NEW i \in Signals, ExchangeAccepts(i)
      PROVE  /\ AccountKept'
             /\ inflight' \subseteq inflight
             /\ \A j \in Signals : j \in inflight \/ accepted'[j] = accepted[j]
  <2>1. i \in inflight /\ inflight' = inflight \ {i} /\ i \in Ids
    BY <1>1, OrderNames DEF ExchangeAccepts
  <2>2. PICK raw \in RawUsed, n \in 0..Lots : Place(i, raw, n)
    BY <1>1 DEF ExchangeAccepts
  <2>3. AccountKept'
    BY <2>1, <2>2, PlaceKeeps DEF AccountKept
  <2> QED
    BY <2>1, <2>2, <2>3, OrderNames DEF Place
<1>2. ASSUME NEW i \in Signals, ExchangeRefuses(i) \/ SubmissionLost(i)
      PROVE  /\ AccountKept'
             /\ inflight' \subseteq inflight
             /\ \A j \in Signals : j \in inflight \/ accepted'[j] = accepted[j]
  BY <1>2, AccountSame DEF ExchangeRefuses, SubmissionLost, bookVars
<1>3. ASSUME NEW i \in Ids, ExchangeFills(i) \/ ExchangeCloses(i)
      PROVE  AccountKept' /\ UNCHANGED <<inflight, accepted>>
  <2>1. xorder[i] # NoOrder
    BY <1>3 DEF ExchangeFills, ExchangeCloses, OpenOnExchange, NoOrder
  <2>2. /\ UNCHANGED <<inflight, accepted, xlog>>
        /\ \E raw : raw # NoOrder /\ xorder' = [xorder EXCEPT ![i] = raw]
    <3>1. CASE ExchangeFills(i)
      BY <3>1 DEF ExchangeFills, NoOrder, wireVars
    <3>2. CASE ExchangeCloses(i)
      BY <3>2 DEF ExchangeCloses, NoOrder, wireVars
    <3> QED
      BY <1>3, <3>1, <3>2
  <2> QED
    BY <2>1, <2>2, AccountSame
<1>4. ASSUME NEW s \in SharedSymbols, OrderByHand(s)
      PROVE  /\ AccountKept'
             /\ UNCHANGED inflight
             /\ \A j \in Signals : accepted'[j] = accepted[j]
  <2>1. <<s, 0>> \in Ids /\ <<s, 0>> \notin Signals
    BY OrderNames, EngineAssumption DEF Signals
  <2>2. accepted[<<s, 0>>] = 0
    BY <1>4, <2>1 DEF OrderByHand, AccountKept
  <2>3. PICK raw \in RawUsed, n \in 0..Lots : Place(<<s, 0>>, raw, n)
    BY <1>4 DEF OrderByHand
  <2>4. UNCHANGED inflight
    BY <1>4 DEF OrderByHand, wireVars
  <2>5. AccountKept'
    BY <2>1, <2>2, <2>3, <2>4, PlaceKeeps
  <2> QED
    BY <2>1, <2>3, <2>4, <2>5, OrderNames DEF Place
<1>5. ASSUME NEW s \in Symbols, Deposit(s)
      PROVE  AccountKept' /\ UNCHANGED <<inflight, accepted>>
  BY <1>5, AccountSame DEF Deposit, wireVars
<1> QED
  BY <1>1, <1>2, <1>3, <1>4, <1>5 DEF ExchangeNext

---------------------------------------------------------------------------
(* The rows.                                                               *)

LEMMA AllListed ==
  ASSUME TypeOK, NothingPushedOut, NEW i \in Ids, Listed(i)
  PROVE  i \in RecentIds(Sym(i))
<1>1. Sym(i) \in Symbols /\ xlog[Sym(i)] \in Seq(Ids)
  BY OrderNames DEF TypeOK, BookType
<1>2. Len(xlog[Sym(i)]) \in Nat /\ Len(xlog[Sym(i)]) <= RecentLimit
  BY <1>1 DEF NothingPushedOut
<1> QED
  BY <1>1, <1>2, EngineAssumption DEF Listed, RecentIds

LEMMA EndKeepsRows == PlacedInv /\ ProcessEnds => PlacedInv'
<1> SUFFICES ASSUME PlacedInv, ProcessEnds PROVE PlacedInv'
  OBVIOUS
<1>1. AccountKept'
  BY AccountSame DEF PlacedInv, ProcessEnds, bookVars
<1>2. RowsReturn'
  BY Phases DEF PlacedInv, RowsReturn, HasRow, ProcessEnds, dbVars, TradingPc
<1> QED
  BY <1>1, <1>2 DEF PlacedInv

\* A step of the startup that takes no row away, and after which an order of
\* the current symbol without a row is as well known as before.
LEMMA StartupStepKeepsRows ==
  ASSUME TypeOK, PlacedInv,
         UNCHANGED <<bookVars, wireVars, toReconcile, rsym>>,
         pc \in FetchPc \union RepairPc, pc' \in FetchPc \union RepairPc,
         \A i \in Ids : HasRow(i) => HasRow(i)',
         \A i \in Signals : accepted[i] > 0 /\ ~HasRow(i) /\ ~HasRow(i)'
                               /\ Sym(i) = rsym /\ Known(i) => Known(i)'
  PROVE  PlacedInv'
<1>1. AccountKept'
  BY AccountSame DEF PlacedInv, bookVars, wireVars
<1>2. inflight \subseteq Ids
  BY OrderNames DEF TypeOK, WireType
<1>3. \A i \in inflight' : HasRow(i)'
  BY <1>2 DEF PlacedInv, RowsReturn, wireVars
<1>4. ASSUME NEW i \in Signals, accepted'[i] > 0, ~HasRow(i)'
      PROVE  NotPassed(Sym(i))' /\ (Sym(i) = rsym' => Known(i)')
  BY <1>4, OrderNames DEF PlacedInv, RowsReturn, NotPassed, bookVars
<1>5. RowsReturn'
  BY <1>3, <1>4, Phases DEF RowsReturn
<1> QED
  BY <1>1, <1>5 DEF PlacedInv

LEMMA ReconcileKeepsRows ==
  ASSUME TypeOK, PlacedInv, NothingPushedOut, ReconcileNext
  PROVE  PlacedInv'
<1> SUFFICES ASSUME ~ProcessEnds PROVE PlacedInv'
  BY EndKeepsRows
<1>1. UNCHANGED <<bookVars, wireVars, cur>>
  BY ReconcileFrame DEF memVars
<1>2. orders \in [Ids -> LocalStatus \union {NoRow}] /\ NoRow \notin LocalStatus
  BY DEF TypeOK, DbType, NoRow, LocalStatus
<1>3. CASE FetchOpenOrders \/ FetchTrades \/ FetchAccount
  <2>1. /\ UNCHANGED <<orders, todo, toReconcile, rsym>>
        /\ pc \in FetchPc \union RepairPc /\ pc' \in FetchPc \union RepairPc
    BY <1>3, Phases DEF FetchOpenOrders, FetchTrades, FetchAccount, dbVars
  <2>2. \A i \in Ids : Known(i) => Known(i)'
    <3>1. snap \in Snapshot
      BY DEF TypeOK, RecType
    <3> QED
      BY <1>3, <3>1
         DEF FetchOpenOrders, FetchTrades, FetchAccount, Known, Snapshot
  <2> QED
    BY <1>1, <2>1, <2>2, StartupStepKeepsRows, OrderNames DEF HasRow
<1>4. CASE FetchRecentOrders
  <2>1. /\ UNCHANGED <<orders, todo, toReconcile, rsym>>
        /\ pc = "fetchRecent" /\ pc' = "fetchTrades"
        /\ snap' = [snap EXCEPT !.recent = [i \in Ids |->
              IF i \in RecentIds(rsym) THEN xorder[i] ELSE NoOrder]]
    BY <1>4 DEF FetchRecentOrders, dbVars
  <2>2. ASSUME NEW i \in Signals, accepted[i] > 0, Sym(i) = rsym PROVE Known(i)'
    <3>1. i \in RecentIds(rsym) /\ xorder[i] # NoOrder /\ i \in Ids
      BY <2>2, AllListed, OrderNames DEF PlacedInv, AccountKept
    <3>2. snap \in Snapshot
      BY DEF TypeOK, RecType
    <3> QED
      BY <2>1, <3>1, <3>2 DEF Known, Snapshot
  <2> QED
    BY <1>1, <2>1, <2>2, StartupStepKeepsRows, Phases DEF HasRow
<1>5. CASE CompareOrders
  <2>1. /\ UNCHANGED <<orders, snap, toReconcile, rsym>>
        /\ pc = "compare" /\ pc' = "repair"
        /\ todo' = {i \in Ids : MissingOnExchange(i) \/ MissingLocally(i)
                                   \/ StatusDiffers(i)}
    BY <1>5 DEF CompareOrders, dbVars
  <2>2. ASSUME NEW i \in Signals, ~HasRow(i), Sym(i) = rsym, Known(i)
        PROVE  Known(i)'
    <3>1. MissingLocally(i)
      BY <2>1, <2>2
         DEF Known, MissingLocally, OfSymbol, Merged, LocallyOpen, HasRow,
             OpenStatus, NoRow
    <3> QED
      BY <2>1, <3>1, OrderNames DEF Known
  <2> QED
    BY <1>1, <2>1, <2>2, StartupStepKeepsRows, Phases DEF HasRow
<1>6. ASSUME NEW i \in Ids,
             MarkUnknown(i) \/ AdoptFromExchange(i) \/ LeaveStatusMismatch(i)
      PROVE  PlacedInv'
  <2>1. /\ pc = "repair" /\ pc' = "repair" /\ todo' = todo \ {i}
        /\ UNCHANGED <<snap, toReconcile, rsym>>
    BY <1>6 DEF MarkUnknown, AdoptFromExchange, LeaveStatusMismatch
  <2>2. HasRow(i)' /\ \A j \in Ids \ {i} : orders'[j] = orders[j]
    <3>1. CASE MarkUnknown(i)
      BY <1>2, <3>1 DEF MarkUnknown, HasRow, NoRow
    <3>2. CASE AdoptFromExchange(i)
      BY <1>2, <3>2, StoredStatusType DEF AdoptFromExchange, HasRow
    <3>3. CASE LeaveStatusMismatch(i)
      BY <1>2, <3>3
         DEF LeaveStatusMismatch, StatusDiffers, LocallyOpen, OpenStatus,
             HasRow, NoRow, dbVars
    <3> QED
      BY <1>6, <3>1, <3>2, <3>3
  <2>3. \A j \in Ids : HasRow(j) => HasRow(j)'
    BY <2>2 DEF HasRow
  <2>4. \A j \in Signals : ~HasRow(j)' /\ Known(j) => Known(j)'
    BY <2>1, <2>2, OrderNames DEF Known
  <2> QED
    BY <1>1, <2>1, <2>3, <2>4, StartupStepKeepsRows, Phases
<1>7. CASE RepairsDone
  <2>1. /\ pc = "repair" /\ todo = {} /\ pc' = "replayTrades"
        /\ UNCHANGED <<orders, toReconcile, rsym>>
    BY <1>7 DEF RepairsDone, dbVars
  <2>2. \A i \in Signals : ~Known(i)
    BY <2>1 DEF Known
  <2> QED
    BY <1>1, <2>1, <2>2, StartupStepKeepsRows, Phases DEF HasRow
<1>8. CASE UpsertPosition \/ \E t \in Trades : ReplayTrade(t)
  <2>1. /\ pc = "replayTrades" /\ pc' \in {"replayTrades", "recCheck"}
        /\ UNCHANGED <<orders, toReconcile, rsym>>
    BY <1>8 DEF UpsertPosition, ReplayTrade, recVars
  <2>2. \A i \in Signals : ~Known(i)
    BY <2>1 DEF Known
  <2> QED
    BY <1>1, <2>1, <2>2, StartupStepKeepsRows, Phases DEF HasRow
<1>9. CASE SymbolPasses
  <2>1. pc = "recCheck" /\ orders' = orders
    BY <1>9 DEF SymbolPasses, dbVars
  <2>2. AccountKept'
    BY <1>1, AccountSame DEF PlacedInv, bookVars, wireVars
  <2>3. \A i \in inflight' : HasRow(i)'
    BY <1>1, <2>1 DEF PlacedInv, RowsReturn, HasRow, wireVars
  <2>4. \A i \in Signals : accepted[i] > 0 /\ ~HasRow(i) => Sym(i) \in toReconcile
    BY <2>1, Phases DEF PlacedInv, RowsReturn, Known, NotPassed
  <2>5. CASE \E s \in toReconcile : BeginSymbol(s, toReconcile \ {s})
    <3>1. PICK s \in toReconcile : BeginSymbol(s, toReconcile \ {s})
      BY <2>5
    <3>2. pc' = "fetchOpen" /\ toReconcile' = toReconcile \ {s} /\ rsym' = s
      BY <3>1 DEF BeginSymbol
    <3>3. \A i \in Signals : accepted'[i] > 0 /\ ~HasRow(i)' =>
            NotPassed(Sym(i))' /\ Known(i)'
      BY <1>1, <2>1, <2>4, <3>2 DEF HasRow, NotPassed, Known, bookVars
    <3>4. RowsReturn'
      BY <2>3, <3>2, <3>3, Phases DEF RowsReturn, TradingPc
    <3> QED
      BY <2>2, <3>4 DEF PlacedInv
  <2>6. CASE ~ \E s \in toReconcile : BeginSymbol(s, toReconcile \ {s})
    <3>1. pc' = "load" /\ toReconcile = {}
      BY <1>9, <2>6 DEF SymbolPasses
    <3>2. \A i \in Signals : accepted'[i] > 0 => HasRow(i)'
      BY <1>1, <2>1, <2>4, <3>1 DEF HasRow, bookVars
    <3>3. RowsReturn'
      BY <2>3, <3>1, <3>2, Phases DEF RowsReturn, TradingPc
    <3> QED
      BY <2>2, <3>3 DEF PlacedInv
  <2> QED
    BY <2>5, <2>6
<1> QED
  BY <1>3, <1>4, <1>5, <1>6, <1>7, <1>8, <1>9
     DEF ReconcileNext, FetchFails, BalanceUnexplained, SymbolBlocked

\* While trading rows stay, and what is about to be sent has one of its own
\* and was never sent before.
LEMMA TradingStepKeepsRows ==
  ASSUME TypeOK, PlacedInv, UNCHANGED bookVars, inflight' = inflight,
         pc \in {"load"} \union TradingPc, pc' \in TradingPc,
         \A i \in Ids : HasRow(i) => HasRow(i)',
         pc' = "post" => /\ orders'[cur'] = "PENDING"
                         /\ accepted[cur'] = 0 /\ cur' \notin inflight,
         pc' = "await" => orders'[cur'] = "PENDING"
  PROVE  PlacedInv'
<1>1. AccountKept'
  BY AccountSame DEF PlacedInv, bookVars
<1>2. inflight \subseteq Ids
  BY OrderNames DEF TypeOK, WireType
<1>3. /\ \A i \in inflight' : HasRow(i)'
      /\ \A i \in Signals : accepted'[i] > 0 => HasRow(i)'
  BY <1>2, OrderNames DEF PlacedInv, RowsReturn, bookVars
<1>4. RowsReturn'
  BY <1>3, Phases DEF RowsReturn, bookVars
<1> QED
  BY <1>1, <1>4 DEF PlacedInv

LEMMA PipelineKeepsRows ==
  ASSUME TypeOK, PlacedInv, PipelineNext
  PROVE  PlacedInv'
<1>1. orders \in [Ids -> LocalStatus \union {NoRow}] /\ NoRow \notin LocalStatus
  BY DEF TypeOK, DbType, NoRow, LocalStatus
<1>2. CASE \/ LoadPositions \/ Approve \/ Reject \/ DuplicateOrderBlocked
           \/ PipelineError \/ AdvanceCheckpoint
           \/ \E i \in Signals : NewSignal(i) \/ NoSignal(i)
  <2>1. /\ pc \in {"load"} \union TradingPc
        /\ pc' \in TradingPc /\ pc' \notin {"post", "await"}
        /\ UNCHANGED <<bookVars, inflight, orders>>
    BY <1>2
       DEF TradingPc, LoadPositions, Approve, Reject, DuplicateOrderBlocked,
           PipelineError, AdvanceCheckpoint, NewSignal, NoSignal, dbVars, wireVars
  <2> QED
    BY <2>1, TradingStepKeepsRows DEF HasRow
<1>3. CASE InsertIntent
  <2>1. /\ pc = "intent" /\ pc' = "post" /\ orders[cur] = NoRow
        /\ orders' = [orders EXCEPT ![cur] = "PENDING"]
        /\ UNCHANGED <<bookVars, inflight, cur>>
    BY <1>3 DEF InsertIntent, memVars, wireVars
  <2>2. cur \in Signals /\ cur \in Ids
    BY <2>1, OrderNames DEF TypeOK, ControlType, TradingPc
  <2>3. accepted[cur] = 0 /\ cur \notin inflight
    <3>1. accepted[cur] \in Nat
      BY <2>2 DEF TypeOK, BookType
    <3> QED
      BY <2>1, <2>2, <3>1, Phases DEF PlacedInv, RowsReturn, HasRow
  <2>4. \A i \in Ids : HasRow(i) => HasRow(i)'
    BY <1>1, <2>1 DEF HasRow, NoRow
  <2> QED
    BY <1>1, <2>1, <2>2, <2>3, <2>4, TradingStepKeepsRows, Phases
<1>4. CASE Transmit
  <2>1. /\ pc = "post" /\ pc' = "await" /\ inflight' = inflight \union {cur}
        /\ UNCHANGED <<orders, cur, bookVars>>
    BY <1>4 DEF Transmit, dbVars, memVars
  <2>2. orders[cur] = "PENDING" /\ accepted[cur] = 0
    BY <2>1 DEF PlacedInv, RowsReturn
  <2>3. AccountKept'
    BY <2>1, <2>2 DEF PlacedInv, AccountKept, Listed, bookVars
  <2>4. RowsReturn'
    BY <2>1, <2>2, Phases DEF PlacedInv, RowsReturn, HasRow, NoRow, TradingPc, bookVars
  <2> QED
    BY <2>3, <2>4 DEF PlacedInv
<1>5. ASSUME NEW status \in LocalStatus, Settle(status) PROVE PlacedInv'
  <2>1. /\ pc = "await" /\ pc' = "advance"
        /\ orders' = [orders EXCEPT ![cur] = status]
        /\ UNCHANGED <<bookVars, inflight>>
    BY <1>5 DEF Settle
  <2>2. \A i \in Ids : HasRow(i) => HasRow(i)'
    BY <1>1, <2>1 DEF HasRow
  <2> QED
    BY <2>1, <2>2, TradingStepKeepsRows DEF TradingPc
<1>6. CASE SettleReply \/ SettleAmbiguous
  BY <1>5, <1>6, StoredStatusType DEF SettleReply, SettleAmbiguous, LocalStatus
<1> QED
  BY <1>2, <1>3, <1>4, <1>6 DEF PipelineNext

LEMMA NextKeepsRows ==
  ASSUME TypeOK, PlacedInv, NothingPushedOut, [Next]_vars
  PROVE  PlacedInv'
<1>1. CASE Start
  <2>1. PICK s \in Symbols : BeginSymbol(s, Symbols \ {s})
    BY <1>1 DEF Start
  <2>2. pc' = "fetchOpen" /\ toReconcile' = Symbols \ {s} /\ rsym' = s
    BY <2>1 DEF BeginSymbol
  <2>3. UNCHANGED <<orders, bookVars, inflight>>
    BY <1>1 DEF Start, dbVars, wireVars
  <2>4. AccountKept'
    BY <2>3, AccountSame DEF PlacedInv, bookVars
  <2>5. \A i \in Signals : NotPassed(Sym(i))' /\ Known(i)'
    BY <2>2, OrderNames DEF NotPassed, Known
  <2>6. RowsReturn'
    BY <2>2, <2>3, <2>5, Phases DEF PlacedInv, RowsReturn, HasRow, TradingPc
  <2> QED
    BY <2>4, <2>6 DEF PlacedInv
<1>2. CASE Stop \/ Crash
  BY <1>2, EndKeepsRows DEF Stop, Crash
<1>3. CASE FreshDatabase
  <2>1. AccountKept'
    BY <1>3, AccountSame DEF FreshDatabase, bookVars, wireVars, PlacedInv
  <2>2. RowsReturn'
    BY <1>3, Phases DEF FreshDatabase, wireVars, RowsReturn, TradingPc
  <2> QED
    BY <2>1, <2>2 DEF PlacedInv
<1>4. CASE EngineNext
  BY <1>4, ReconcileKeepsRows, PipelineKeepsRows DEF EngineNext
<1>5. CASE ExchangeNext
  <2>1. /\ AccountKept'
        /\ inflight' \subseteq inflight
        /\ \A i \in Signals : i \in inflight \/ accepted'[i] = accepted[i]
    BY <1>5, ExchangeTakes DEF PlacedInv
  <2>2. UNCHANGED <<orders, pc, cur, toReconcile, rsym, snap, todo>>
    BY <1>5, ExchangeFrame DEF dbVars, memVars, recVars
  <2>3. cur \in Signals \/ pc \notin {"post", "await"}
    BY DEF TypeOK, ControlType, TradingPc
  <2>4. inflight \subseteq Signals
    BY DEF TypeOK, WireType
  <2>5. \A i \in Signals : accepted'[i] > 0 => accepted[i] > 0 \/ HasRow(i)
    BY <2>1 DEF PlacedInv, RowsReturn
  <2>6. RowsReturn'
    BY <2>1, <2>2, <2>3, <2>4, <2>5 DEF PlacedInv, RowsReturn, HasRow, NotPassed, Known
  <2> QED
    BY <2>1, <2>6 DEF PlacedInv
<1>6. CASE UNCHANGED vars
  BY <1>6 DEF vars, dbVars, memVars, recVars, bookVars, wireVars, PlacedInv,
              AccountKept, Listed, RowsReturn, HasRow, NotPassed, Known
<1> QED
  BY <1>1, <1>2, <1>3, <1>4, <1>5, <1>6 DEF Next

LEMMA InitPlaced == Init => PlacedInv
<1> SUFFICES ASSUME Init PROVE PlacedInv
  OBVIOUS
<1> USE DEF Init
<1>1. AccountKept
  BY OrderNames DEF AccountKept, NoAnswer
<1>2. RowsReturn
  BY Phases DEF RowsReturn, NoProcess, TradingPc
<1> QED
  BY <1>1, <1>2 DEF PlacedInv

---------------------------------------------------------------------------
\* One signal never becomes two orders: the deterministic client id, the
\* signals table and the key of the orders table, for any number of symbols
\* and candles, across failed candles, lost answers, restarts and an empty
\* database, as long as get_recent_orders returns every order there is.
THEOREM PlacedOnce == Spec /\ []NothingPushedOut => []PlacedAtMostOnce
<1>1. PlacedInv => PlacedAtMostOnce
  BY DEF PlacedInv, AccountKept, PlacedAtMostOnce
<1>2. TypeOK /\ PlacedInv /\ NothingPushedOut /\ [Next]_vars => PlacedInv'
  BY NextKeepsRows
<1> QED
  BY <1>1, <1>2, InitPlaced, TypeCorrect, PTL DEF Spec

\* While the engine trades, each of its orders on the wire or at the exchange
\* has a row (execution_pipeline.py:182), under the same assumption.
THEOREM NoOrphan == Spec /\ []NothingPushedOut => []NoOrphanOrder
<1>1. TypeOK /\ PlacedInv => NoOrphanOrder
  BY OrderNames, Phases
     DEF PlacedInv, AccountKept, RowsReturn, HasRow, NoOrphanOrder, Trading
<1>2. TypeOK /\ PlacedInv /\ NothingPushedOut /\ [Next]_vars => PlacedInv'
  BY NextKeepsRows
<1> QED
  BY <1>1, <1>2, InitPlaced, TypeCorrect, PTL DEF Spec
---------------------------------------------------------------------------
(* NothingPushedOut, for few candles: an id is taken at most once, so the  *)
(* list is no longer than there are ids of the symbol.                     *)

\* The list holds accepted orders of its symbol, each once.
LogOnce ==
  \A s \in Symbols :
    /\ \A k \in 1..Len(xlog[s]) : /\ xlog[s][k] \in Ids /\ Sym(xlog[s][k]) = s
                                  /\ accepted[xlog[s][k]] > 0
    /\ \A j, k \in 1..Len(xlog[s]) : xlog[s][j] = xlog[s][k] => j = k

\* One id more than candles: somebody may buy by hand once.
FewCandles == IsFiniteSet(Candles) /\ Cardinality(Candles) < RecentLimit

LEMMA PlaceOnce ==
  ASSUME TypeOK, LogOnce, NEW i \in Ids, accepted[i] = 0,
         NEW raw, NEW n, Place(i, raw, n)
  PROVE  LogOnce'
<1> DEFINE s == Sym(i)
           log == xlog[s]
<1>1. s \in Symbols /\ xlog \in [Symbols -> Seq(Ids)] /\ accepted \in [Ids -> Nat]
  BY OrderNames DEF TypeOK, BookType
<1>2. /\ xlog' = [xlog EXCEPT ![s] = Append(log, i)]
      /\ accepted' = [accepted EXCEPT ![i] = 1]
  BY <1>1 DEF Place
<1>3. /\ log \in Seq(Ids) /\ Len(log) \in Nat
      /\ Len(Append(log, i)) = Len(log) + 1
      /\ \A k \in 1..Len(log) : Append(log, i)[k] = log[k]
      /\ Append(log, i)[Len(log) + 1] = i
  BY <1>1
<1>4. \A j \in Ids : accepted[j] > 0 => accepted'[j] > 0
  BY <1>1, <1>2
<1>5. /\ \A k \in 1..Len(log) : /\ log[k] \in Ids /\ Sym(log[k]) = s
                                /\ accepted[log[k]] > 0 /\ log[k] # i
      /\ \A j, k \in 1..Len(log) : log[j] = log[k] => j = k
  BY <1>1 DEF LogOnce
<1>6. ASSUME NEW t \in Symbols, t # s
      PROVE  xlog'[t] = xlog[t]
  BY <1>1, <1>2, <1>6
<1>7. xlog'[s] = Append(log, i) /\ accepted'[i] > 0
  BY <1>1, <1>2
<1> HIDE DEF s, log
<1>8. \A k \in 1..Len(Append(log, i)) :
        /\ Append(log, i)[k] \in Ids /\ Sym(Append(log, i)[k]) = s
        /\ accepted'[Append(log, i)[k]] > 0
  <2> SUFFICES ASSUME NEW k \in 1..Len(Append(log, i))
               PROVE  /\ Append(log, i)[k] \in Ids /\ Sym(Append(log, i)[k]) = s
                      /\ accepted'[Append(log, i)[k]] > 0
    OBVIOUS
  <2>1. CASE k \in 1..Len(log)
    BY <1>3, <1>4, <1>5, <2>1
  <2>2. CASE k = Len(log) + 1
    BY <1>3, <1>7, <2>2 DEF s
  <2> QED
    BY <1>3, <2>1, <2>2
<1>9. \A j, k \in 1..Len(Append(log, i)) :
        Append(log, i)[j] = Append(log, i)[k] => j = k
  <2> SUFFICES ASSUME NEW j \in 1..Len(Append(log, i)),
                      NEW k \in 1..Len(Append(log, i)),
                      Append(log, i)[j] = Append(log, i)[k]
               PROVE  j = k
    OBVIOUS
  <2>1. /\ j \in 1..Len(log) \/ j = Len(log) + 1
        /\ k \in 1..Len(log) \/ k = Len(log) + 1
    BY <1>3
  <2> QED
    BY <1>3, <1>5, <2>1
<1> QED
  BY <1>4, <1>6, <1>7, <1>8, <1>9 DEF LogOnce

\* Orders are placed by the exchange only, and only under an id that it has
\* not taken before.
LEMMA OnlyPlaceLogs ==
  ASSUME TypeOK, AccountKept, [Next]_vars
  PROVE  \/ UNCHANGED <<xlog, accepted>>
         \/ \E i \in Ids : \E raw, n : accepted[i] = 0 /\ Place(i, raw, n)
<1> DEFINE Same == UNCHANGED <<xlog, accepted>>
           New == \E i \in Ids : \E raw, n : accepted[i] = 0 /\ Place(i, raw, n)
<1>1. ProcessEnds => Same
  BY DEF ProcessEnds, bookVars
<1>2. ReconcileNext => Same
  BY <1>1, ReconcileFrame DEF bookVars
<1>3. PipelineNext => Same
  BY DEF PipelineNext, LoadPositions, NewSignal, NoSignal, Approve, Reject,
         InsertIntent, DuplicateOrderBlocked, Transmit, SettleReply,
         SettleAmbiguous, Settle, PipelineError, AdvanceCheckpoint, bookVars
<1>4. Start \/ Stop \/ Crash \/ FreshDatabase => Same
  BY <1>1 DEF Start, Stop, Crash, FreshDatabase, bookVars
<1>5. ASSUME NEW i \in Signals, ExchangeAccepts(i) PROVE New
  <2>1. i \in inflight /\ i \in Ids
    BY <1>5, OrderNames DEF ExchangeAccepts
  <2>2. accepted[i] = 0
    BY <2>1 DEF AccountKept
  <2>3. \E raw, n : Place(i, raw, n)
    BY <1>5 DEF ExchangeAccepts
  <2> QED
    BY <2>1, <2>2, <2>3
<1>6. ASSUME NEW s \in SharedSymbols, OrderByHand(s) PROVE New
  <2>1. <<s, 0>> \in Ids
    BY OrderNames, EngineAssumption
  <2>2. accepted[<<s, 0>>] = 0
    BY <1>6, <2>1 DEF OrderByHand, AccountKept, TypeOK, BookType
  <2>3. \E raw, n : Place(<<s, 0>>, raw, n)
    BY <1>6 DEF OrderByHand
  <2> QED
    BY <2>1, <2>2, <2>3
<1>7. \A i \in Signals : ExchangeRefuses(i) \/ SubmissionLost(i) => Same
  BY DEF ExchangeRefuses, SubmissionLost, bookVars
<1>8. /\ \A i \in Ids : ExchangeFills(i) \/ ExchangeCloses(i) => Same
      /\ \A s \in Symbols : Deposit(s) => Same
  BY DEF ExchangeFills, ExchangeCloses, Deposit
<1>9. ExchangeNext => Same \/ New
  BY <1>5, <1>6, <1>7, <1>8 DEF ExchangeNext
<1>10. UNCHANGED vars => Same
  BY DEF vars, bookVars
<1> HIDE DEF Same, New
<1>11. Same \/ New
  BY <1>2, <1>3, <1>4, <1>9, <1>10 DEF Next, EngineNext
<1> QED
  BY <1>11 DEF Same, New

\* The candles, and the order by hand, are enough names for the whole list.
LEMMA FewListed ==
  ASSUME TypeOK, LogOnce, FewCandles
  PROVE  NothingPushedOut
<1> SUFFICES ASSUME NEW s \in Symbols PROVE Len(xlog[s]) <= RecentLimit
  BY DEF NothingPushedOut
<1> DEFINE places == 1..Len(xlog[s])
           names == Candles \union {0}
           f == [k \in places |-> xlog[s][k][2]]
<1>1. xlog[s] \in Seq(Ids) /\ Len(xlog[s]) \in Nat
  BY DEF TypeOK, BookType
<1>2. \A k \in places : xlog[s][k] = <<s, xlog[s][k][2]>> /\ xlog[s][k][2] \in names
  BY DEF LogOnce, Ids, Sym
<1>3. f \in Injection(places, names)
  <2>1. f \in [places -> names]
    BY <1>2
  <2>2. ASSUME NEW j \in places, NEW k \in places, f[j] = f[k] PROVE j = k
    <3>1. xlog[s][j][2] = xlog[s][k][2]
      BY <2>2
    <3>2. xlog[s][j] = xlog[s][k]
      BY <1>2, <3>1
    <3> QED
      BY <3>2 DEF LogOnce
  <2> HIDE DEF places, names, f
  <2>3. IsInjective(f)
    BY <2>1, <2>2 DEF IsInjective
  <2> QED
    BY <2>1, <2>3 DEF Injection
<1>4. /\ IsFiniteSet(names) /\ Cardinality(names) = Cardinality(Candles) + 1
      /\ Cardinality(Candles) \in Nat
  <2>1. 0 \notin Candles
    BY EngineAssumption
  <2> QED
    BY <2>1, FS_AddElement, FS_CardinalityType DEF FewCandles
<1>5. IsFiniteSet(places) /\ Cardinality(places) = Len(xlog[s])
  BY <1>1, FS_Interval
<1>6. Cardinality(places) <= Cardinality(names)
  <2> HIDE DEF places, names, f
  <2> QED BY <1>3, <1>4, FS_Injection
<1> QED
  BY <1>1, <1>4, <1>5, <1>6, EngineAssumption DEF FewCandles

\* Where the candles of a symbol are fewer than get_recent_orders returns
\* orders, no order is ever pushed out: what PlacedOnce, NoOrphan and
\* KeepsThePromise suppose then always holds.
THEOREM NonePushedOut ==
  ASSUME FewCandles
  PROVE  Spec => []NothingPushedOut
<1>1. Init => LogOnce
  <2>1. Init => \A s \in Symbols : xlog[s] = << >>
    BY DEF Init
  <2> QED
    BY <2>1 DEF LogOnce
<1>2. TypeOK /\ PlacedInv /\ LogOnce /\ [Next]_vars => LogOnce'
  <2> SUFFICES ASSUME TypeOK, PlacedInv, LogOnce, [Next]_vars PROVE LogOnce'
    OBVIOUS
  <2>1. CASE UNCHANGED <<xlog, accepted>>
    BY <2>1 DEF LogOnce
  <2>2. CASE \E i \in Ids : \E raw, n : accepted[i] = 0 /\ Place(i, raw, n)
    BY <2>2, PlaceOnce
  <2> QED
    BY <2>1, <2>2, OnlyPlaceLogs DEF PlacedInv
<1>3. TypeOK /\ LogOnce => NothingPushedOut
  BY FewListed
<1>4. TypeOK /\ PlacedInv /\ NothingPushedOut /\ [Next]_vars => PlacedInv'
  BY NextKeepsRows
<1> QED
  BY <1>1, <1>2, <1>3, <1>4, InitPlaced, TypeCorrect, PTL DEF Spec
=============================================================================
