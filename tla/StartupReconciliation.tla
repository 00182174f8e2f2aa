------------------------ MODULE StartupReconciliation ------------------------
(***************************************************************************)
(* startup_reconcile, run once per configured symbol before any candle is  *)
(* looked at.  Four requests in a row (open orders, recent orders, trades, *)
(* account) while the exchange moves on; then the local open orders are    *)
(* compared with the answers, each mismatch is repaired or left, the trade *)
(* history is replayed into fills and a position, and the symbol passes    *)
(* only if nothing is unresolved.  Any exception ends the run with orders  *)
(* blocked.                                                                *)
(***************************************************************************)
EXTENDS Exchange

OfSymbol(i) == Sym(i) = rsym

---------------------------------------------------------------------------
(* The comparison, over the local open orders and the two lists fetched.   *)

\* Mutant: get_open_orders without its list of statuses.
LocallyOpen_AnyRow(i) == OfSymbol(i) /\ orders[i] # NoRow

LocallyOpen(i) == OfSymbol(i) /\ orders[i] \in OpenStatus

\* exchange_by_client_id: the open list is read last and overrides.
Merged(i) == IF snap.open[i] # NoOrder THEN snap.open[i] ELSE snap.recent[i]

\* _find_exchange_order: the recent list is searched first.
Found(i) == IF snap.recent[i] # NoOrder THEN snap.recent[i] ELSE snap.open[i]

\* Mutant: a PENDING row is taken for an order not sent yet.
MissingOnExchange_SkipsPending(i) ==
  LocallyOpen(i) /\ orders[i] # "PENDING" /\ Merged(i) = NoOrder

MissingOnExchange(i) == LocallyOpen(i) /\ Merged(i) = NoOrder
MissingLocally(i)    == OfSymbol(i) /\ Merged(i) # NoOrder /\ ~LocallyOpen(i)
StatusDiffers(i)     == /\ LocallyOpen(i) /\ Merged(i) # NoOrder
                        /\ MapStatus(Merged(i)) \notin {NoStatus, orders[i]}

---------------------------------------------------------------------------
(* The four requests.                                                      *)

FetchOpenOrders ==
  /\ pc = "fetchOpen"
  /\ snap' = [snap EXCEPT !.open = [i \in Ids |->
       IF OfSymbol(i) /\ xorder[i] \in OpenOnExchange THEN xorder[i]
       ELSE NoOrder]]
  /\ pc' = "fetchRecent"
  /\ UNCHANGED <<dbVars, memVars, toReconcile, rsym, todo, unresolved,
                 inventory, bookVars, wireVars>>

FetchRecentOrders ==
  /\ pc = "fetchRecent"
  /\ snap' = [snap EXCEPT !.recent = [i \in Ids |->
       IF i \in RecentIds(rsym) THEN xorder[i] ELSE NoOrder]]
  /\ pc' = "fetchTrades"
  /\ UNCHANGED <<dbVars, memVars, toReconcile, rsym, todo, unresolved,
                 inventory, bookVars, wireVars>>

FetchTrades ==
  /\ pc = "fetchTrades"
  /\ snap' = [snap EXCEPT !.trades = {t \in xtrades : OfSymbol(t[1])}]
  /\ pc' = "fetchAccount"
  /\ UNCHANGED <<dbVars, memVars, toReconcile, rsym, todo, unresolved,
                 inventory, bookVars, wireVars>>

FetchAccount ==
  /\ pc = "fetchAccount"
  /\ snap' = [snap EXCEPT !.balance = balance[rsym]]
  /\ pc' = "compare"
  /\ UNCHANGED <<dbVars, memVars, toReconcile, rsym, todo, unresolved,
                 inventory, bookVars, wireVars>>

\* A request raises, or its answer has the wrong shape.
FetchFails == pc \in FetchPc /\ ProcessEnds

---------------------------------------------------------------------------
(* _compare_orders and _attempt_repairs.                                   *)

CompareOrders ==
  /\ pc = "compare"
  /\ todo' = {i \in Ids : MissingOnExchange(i) \/ MissingLocally(i)
                            \/ StatusDiffers(i)}
  /\ pc' = "repair"
  /\ UNCHANGED <<dbVars, memVars, toReconcile, rsym, snap, unresolved,
                 inventory, bookVars, wireVars>>

\* "Local order ... not found on exchange".
MarkUnknown(i) ==
  /\ pc = "repair" /\ i \in todo /\ MissingOnExchange(i)
  /\ orders' = [orders EXCEPT ![i] = "UNKNOWN"]
  /\ todo' = todo \ {i}
  /\ UNCHANGED <<signals, fills, position, checkpoint, pc, memVars,
                 toReconcile, rsym, snap, unresolved, inventory, bookVars,
                 wireVars>>

\* "Exchange order ... not found locally": the row is created, or updated
\* when it exists with a status get_open_orders does not select.
AdoptFromExchange(i) ==
  /\ pc = "repair" /\ i \in todo /\ MissingLocally(i)
  /\ orders' = [orders EXCEPT ![i] = StoredStatus(Found(i))]
  /\ todo' = todo \ {i}
  /\ UNCHANGED <<signals, fills, position, checkpoint, pc, memVars,
                 toReconcile, rsym, snap, unresolved, inventory, bookVars,
                 wireVars>>

\* Mutant: the mismatch stays on the list to be tried again.
LeaveStatusMismatch_Retries(i) ==
  /\ pc = "repair" /\ i \in todo /\ StatusDiffers(i)
  /\ unresolved' = TRUE
  /\ UNCHANGED <<dbVars, pc, memVars, toReconcile, rsym, snap, todo,
                 inventory, bookVars, wireVars>>

\* "Status mismatch for <id>: local=X, exchange=Y": the text after ": " is
\* taken for the client id, no order of that name is found, and the mismatch
\* goes to the unresolved list with the row as it was.
LeaveStatusMismatch(i) ==
  /\ pc = "repair" /\ i \in todo /\ StatusDiffers(i)
  /\ unresolved' = TRUE
  /\ todo' = todo \ {i}
  /\ UNCHANGED <<dbVars, pc, memVars, toReconcile, rsym, snap, inventory,
                 bookVars, wireVars>>

\* The two order lists are not used any more.
RepairsDone ==
  /\ pc = "repair" /\ todo = {}
  /\ snap' = [snap EXCEPT !.open = NoAnswer, !.recent = NoAnswer]
  /\ pc' = "replayTrades"
  /\ UNCHANGED <<dbVars, memVars, toReconcile, rsym, todo, unresolved,
                 inventory, bookVars, wireVars>>

---------------------------------------------------------------------------
(* _reconstruct_positions_from_binance.                                    *)

\* One trade of the history: insert_fill ignores one it already holds.
ReplayTrade(t) ==
  /\ pc = "replayTrades" /\ t \in snap.trades
  /\ snap' = [snap EXCEPT !.trades = @ \ {t}]
  /\ fills' = fills \union {t}
  /\ inventory' = inventory + 1
  /\ UNCHANGED <<signals, orders, position, checkpoint, pc, memVars,
                 toReconcile, rsym, todo, unresolved, bookVars, wireVars>>

\* Mutant: a balance beyond the trades is accepted.
BalanceExplained_AtLeast == inventory <= snap.balance

BalanceExplained == inventory = snap.balance

UpsertPosition ==
  /\ pc = "replayTrades" /\ snap.trades = {} /\ BalanceExplained
  /\ position' = [position EXCEPT ![rsym] = snap.balance]
  /\ pc' = "recCheck"
  /\ UNCHANGED <<signals, orders, fills, checkpoint, memVars, recVars,
                 bookVars, wireVars>>

\* PositionReconstructionError: the fills are already committed.
BalanceUnexplained ==
  /\ pc = "replayTrades" /\ snap.trades = {} /\ ~BalanceExplained
  /\ ProcessEnds

---------------------------------------------------------------------------
(* The verdict on the symbol, and the loop over the symbols.               *)

\* Mutant: the UNKNOWN rows the repairs leave behind are not looked for.
Blocked_MismatchesOnly == unresolved

Blocked == \/ unresolved
           \/ \E i \in Ids : OfSymbol(i) /\ orders[i] \in UnresolvedStatus

BeginSymbol(s, rest) ==
  /\ rsym' = s /\ toReconcile' = rest
  /\ snap' = EmptySnap /\ todo' = {} /\ unresolved' = FALSE /\ inventory' = 0
  /\ pc' = "fetchOpen"

\* Mutant: the loop ends after the first symbol.
SymbolPasses_FirstOnly ==
  /\ pc = "recCheck" /\ ~Blocked
  /\ pc' = "load"
  /\ rsym' = NoSym /\ snap' = EmptySnap /\ todo' = {}
  /\ unresolved' = FALSE /\ inventory' = 0 /\ toReconcile' = {}
  /\ UNCHANGED <<dbVars, memVars, bookVars, wireVars>>

SymbolPasses ==
  /\ pc = "recCheck" /\ ~Blocked
  /\ \/ \E s \in toReconcile : BeginSymbol(s, toReconcile \ {s})
     \/ /\ toReconcile = {}
        /\ pc' = "load"
        /\ rsym' = NoSym /\ snap' = EmptySnap /\ todo' = {}
        /\ unresolved' = FALSE /\ inventory' = 0
        /\ UNCHANGED toReconcile
  /\ UNCHANGED <<dbVars, memVars, bookVars, wireVars>>

SymbolBlocked == pc = "recCheck" /\ Blocked /\ ProcessEnds

ReconcileNext ==
  \/ FetchOpenOrders \/ FetchRecentOrders \/ FetchTrades \/ FetchAccount
  \/ FetchFails \/ CompareOrders
  \/ \E i \in Ids : MarkUnknown(i) \/ AdoptFromExchange(i)
                      \/ LeaveStatusMismatch(i)
  \/ RepairsDone
  \/ \E t \in Trades : ReplayTrade(t)
  \/ UpsertPosition \/ BalanceUnexplained
  \/ SymbolPasses \/ SymbolBlocked
=============================================================================
