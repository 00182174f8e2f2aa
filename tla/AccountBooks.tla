---------------------------- MODULE AccountBooks ----------------------------
(***************************************************************************)
(* How a startup gets from the account to a position it may trade on: the  *)
(* trade history is read page by page, the balance is read after it, the   *)
(* history is replayed trade by trade into table fills and a book, and the *)
(* position is stored if book and balance agree.  Meanwhile the account is *)
(* traded, paid into and paid out of, and the process may be killed.  One  *)
(* symbol; its orders are the subject of StartupReconciliation.            *)
(***************************************************************************)
EXTENDS PositionLedger, FiniteSets

CONSTANTS
  LastTradeId,  \* bound: ids of trades are 0..LastTradeId, with gaps
  Kinds,        \* the kinds of trades made
  PageSize,     \* get_all_trades: page_size
  MaxPages,     \* get_all_trades: max_pages
  MaxMoves      \* bound on deposits and withdrawals

ASSUME BooksAssumption ==
  /\ LastTradeId \in Nat /\ MaxMoves \in Nat
  /\ Kinds \subseteq Kind
  /\ PageSize \in Nat \ {0} /\ MaxPages \in Nat \ {0}

TradeIds == 0..LastTradeId
NoTrade  == [side |-> "none"]

ASSUME NoTradeIsNoKind == NoTrade \notin Kinds

VARIABLES
  trade,       \* [TradeIds -> Kinds or NoTrade]: the history of the account
  moves,       \* [in, out]: units deposited and withdrawn
  fills,       \* table fills, ids of trades
  position,    \* table positions: a book, or NoPosition
  pc,
  fromId, pages,   \* the next page starts here; pages read
  got,         \* ids read
  seen,        \* the balance read, with what had moved by then
  late,        \* observation: a trade between the last page and the balance
  left,        \* ids that are still to be replayed
  book

account == <<trade, moves>>
db      == <<fills, position>>
reading == <<fromId, pages, got>>
vars    == <<account, db, pc, reading, seen, late, left, book>>

NoPosition == [qty |-> -1]
NotSeen    == [balance |-> -1, moves |-> [in |-> 0, out |-> 0]]

Traded == {i \in TradeIds : trade[i] # NoTrade}

NetQtyOf(S) == SumFunction([i \in S |-> NetQty(trade[i])])
Balance     == NetQtyOf(Traded) + moves.in - moves.out

NoWork ==
  /\ fromId' = 0 /\ pages' = 0 /\ got' = {} /\ seen' = NotSeen
  /\ late' = FALSE /\ left' = {} /\ book' = EmptyBook

Init ==
  /\ trade = [i \in TradeIds |-> NoTrade] /\ moves = [in |-> 0, out |-> 0]
  /\ fills = {} /\ position = NoPosition
  /\ pc = "off"
  /\ fromId = 0 /\ pages = 0 /\ got = {} /\ seen = NotSeen
  /\ late = FALSE /\ left = {} /\ book = EmptyBook

---------------------------------------------------------------------------
(* The account.  Its balance never goes below zero.                        *)

Trades ==
  /\ \E i \in TradeIds, k \in Kinds :
       /\ \A j \in Traded : j < i
       /\ Balance + NetQty(k) >= 0
       /\ trade' = [trade EXCEPT ![i] = k]
  /\ late' = (late \/ pc = "account")
  /\ UNCHANGED <<moves, db, pc, reading, seen, left, book>>

Deposit ==
  /\ moves.in + moves.out < MaxMoves
  /\ moves' = [moves EXCEPT !.in = @ + 1]
  /\ UNCHANGED <<trade, db, pc, reading, seen, late, left, book>>

Withdraw ==
  /\ moves.in + moves.out < MaxMoves /\ Balance > 0
  /\ moves' = [moves EXCEPT !.out = @ + 1]
  /\ UNCHANGED <<trade, db, pc, reading, seen, late, left, book>>

---------------------------------------------------------------------------
(* The process.                                                            *)

\* Mutant: the history is read from behind the last trade on record.
Start_Resumes ==
  /\ pc = "off" /\ pc' = "page"
  /\ fromId' = IF fills = {} THEN 0 ELSE Max(fills) + 1
  /\ UNCHANGED <<account, db, pages, got, seen, late, left, book>>

Start ==
  /\ pc = "off" /\ pc' = "page"
  /\ UNCHANGED <<account, db, reading, seen, late, left, book>>

\* Killed, stopped, a request that raises, or refused: start() raises and the
\* process ends.
Ends ==
  /\ pc # "off" /\ pc' = "off"
  /\ NoWork
  /\ UNCHANGED <<account, db>>

---------------------------------------------------------------------------
(* get_all_trades.                                                         *)

\* GET myTrades with fromId and limit: the oldest trades from that id on.
Page(from) ==
  LET rest == {i \in Traded : i >= from}
  IN  {i \in rest : Cardinality({j \in rest : j < i}) < PageSize}

\* Mutant: a full page is taken for the last one.
FetchPage_FullIsLast ==
  /\ pc = "page" /\ pages < MaxPages
  /\ LET batch == Page(fromId)
     IN  /\ got' = got \union batch
         /\ fromId' = IF batch = {} THEN fromId ELSE Max(batch) + 1
         /\ pc' = IF Cardinality(batch) <= PageSize THEN "account" ELSE pc
  /\ pages' = pages + 1
  /\ UNCHANGED <<account, db, seen, late, left, book>>

\* Mutant: one page more than max_pages.
FetchPage_OneMore ==
  /\ pc = "page" /\ pages <= MaxPages
  /\ LET batch == Page(fromId)
     IN  /\ got' = got \union batch
         /\ fromId' = IF batch = {} THEN fromId ELSE Max(batch) + 1
         /\ pc' = IF Cardinality(batch) < PageSize THEN "account" ELSE pc
  /\ pages' = pages + 1
  /\ UNCHANGED <<account, db, seen, late, left, book>>

\* A page that is not full, an empty one included, is the last.
FetchPage ==
  /\ pc = "page" /\ pages < MaxPages
  /\ LET batch == Page(fromId)
     IN  /\ got' = got \union batch
         /\ fromId' = IF batch = {} THEN fromId ELSE Max(batch) + 1
         /\ pc' = IF Cardinality(batch) < PageSize THEN "account" ELSE pc
  /\ pages' = pages + 1
  /\ UNCHANGED <<account, db, seen, late, left, book>>

\* The safety limit: max_pages full pages, even if there is nothing beyond.
TooManyPages ==
  /\ pc = "page" /\ pages = MaxPages
  /\ pc' = "refused"
  /\ UNCHANGED <<account, db, reading, seen, late, left, book>>

---------------------------------------------------------------------------
(* _reconstruct_positions_from_binance.                                    *)

FetchAccount ==
  /\ pc = "account"
  /\ seen' = [balance |-> Balance, moves |-> moves]
  /\ left' = got /\ pc' = "ledger"
  /\ UNCHANGED <<account, db, reading, late, book>>

\* Sorted by time, then id.
Replayed == Min(left)

\* Mutant: fills are stored for what is bought only.
Stored_BuysOnly(i) == IF trade[i].side = "BUY" THEN fills \union {i} ELSE fills

\* insert_fill: a fill that is on record already is left as it is.
Stored(i) == fills \union {i}

\* One trade, its fill committed at once.
ReplayTrade ==
  /\ pc = "ledger" /\ left # {}
  /\ ~Unexplained(book, trade[Replayed])
  /\ book' = Booked(book, trade[Replayed])
  /\ fills' = Stored(Replayed)
  /\ left' = left \ {Replayed}
  /\ UNCHANGED <<account, position, pc, reading, seen, late>>

TradeUnexplained ==
  /\ pc = "ledger" /\ left # {}
  /\ Unexplained(book, trade[Replayed])
  /\ pc' = "refused"
  /\ UNCHANGED <<account, db, reading, seen, late, left, book>>

\* Mutant: a balance above the inventory is accepted.
Agrees_AtLeast == book.qty <= seen.balance

Agrees == book.qty = seen.balance

UpsertPosition ==
  /\ pc = "ledger" /\ left = {} /\ Agrees
  /\ position' = [book EXCEPT !.qty = seen.balance]
  /\ pc' = "passed"
  /\ UNCHANGED <<account, fills, reading, seen, late, left, book>>

BalanceUnexplained ==
  /\ pc = "ledger" /\ left = {} /\ ~Agrees
  /\ pc' = "refused"
  /\ UNCHANGED <<account, db, reading, seen, late, left, book>>

---------------------------------------------------------------------------
AccountNext == Trades \/ Deposit \/ Withdraw

Reconcile ==
  \/ FetchPage \/ TooManyPages \/ FetchAccount
  \/ ReplayTrade \/ TradeUnexplained \/ UpsertPosition \/ BalanceUnexplained

Next == AccountNext \/ Start \/ Ends \/ Reconcile

Spec == Init /\ [][Next]_vars
---------------------------------------------------------------------------
\* Every variable holds a value of its kind.
BooksTypeOK ==
  /\ trade \in [TradeIds -> Kinds \union {NoTrade}]
  /\ moves \in [in : 0..MaxMoves, out : 0..MaxMoves]
  /\ fills \subseteq Traded /\ got \subseteq Traded /\ left \subseteq got
  /\ pc \in {"off", "page", "account", "ledger", "passed", "refused"}
  /\ fromId \in 0..LastTradeId + 1 /\ pages \in 0..MaxPages
  /\ seen \in [balance : Int, moves : [in : 0..MaxMoves, out : 0..MaxMoves]]
  /\ late \in BOOLEAN
  /\ book \in Book /\ position \in Book \union {NoPosition}

\* binance_testnet_broker.py:190, "Fetch complete symbol trade history": the
\* pages, each answered at another moment, add up to the history as it was at
\* the last request; a bounded read gives that or nothing.
Done == pc \in {"account", "ledger", "passed"}

OneRead == INSTANCE HistoryRead WITH
  traded <- Traded,
  phase  <- IF pc = "page" THEN "reading" ELSE IF Done THEN "done" ELSE "idle",
  result <- IF Done THEN got ELSE {}

ReadIsAtomic == OneRead!Spec

\* reconciliation.py:350, "The account balance and the trade ledger must agree.
\* Any unexplained balance, deposit, withdrawal, incomplete history ...": a
\* position is accepted only when what was paid in and out until the balance
\* was read adds up to nothing, unless a trade came between the two requests.
PassedIsExplained ==
  pc = "passed" /\ ~late => seen.moves.in = seen.moves.out

\* The converse: a startup is refused only for a reason.  An account that only
\* ever bought and sold, with fewer trades than the limit and none of them
\* between the last page and the balance, is always accepted, whatever the
\* pages, the commissions that leave something of the trade, and the earlier
\* attempts that were cut short.
RefusedForAReason ==
  pc = "refused" =>
    \/ Cardinality(got) >= PageSize * MaxPages
    \/ late
    \/ \E i \in got : Unbookable(trade[i])
    \/ seen.moves.in + seen.moves.out > 0

\* An accepted position is what the table of fills adds up to, although fills
\* of attempts that failed stay in the table and are met again.
FillsAddUp ==
  pc = "passed" => position.qty = NetQtyOf(fills)

NetCashOf(S) == SumFunction([i \in S |-> NetCash(trade[i])])

\* Cost basis and realized profit account for the money spent and received by
\* the fills: exactly, unless a sale paid its commission in the base asset,
\* which the code charges to neither: then the profit is too high, never low.
CashConserved ==
  pc = "passed" =>
    /\ AtMost(Outlay(position), Whole(NetCashOf(fills)))
    /\ (\A i \in fills : trade[i].side = "SELL" => FeeIn(trade[i], "base") = 0)
         => Same(Outlay(position), Whole(NetCashOf(fills)))
=============================================================================
