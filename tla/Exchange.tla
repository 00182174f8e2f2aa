------------------------------ MODULE Exchange ------------------------------
(***************************************************************************)
(* The testnet account as the engine sees it through BinanceTestnetBroker: *)
(* submissions travel and may be lost or overtaken by a timeout, accepted  *)
(* orders fill and close on their own, and other people use the account.   *)
(* None of this code is in the repository; each action is what the broker  *)
(* and the reconciliation engine are written against.                      *)
(***************************************************************************)
EXTENDS EngineState

OpenOnExchange == {"NEW", "PARTIALLY_FILLED"}

LotsFilled(i) == {k \in 1..Lots : <<i, k>> \in xtrades}

\* How many lots an order can have filled when it has status raw.
FilledWith(raw) ==
  CASE raw \in {"NEW", "REJECTED"} -> {0}
    [] raw = "PARTIALLY_FILLED"    -> 1..(Lots - 1)
    [] raw = "FILLED"              -> {Lots}
    [] OTHER                       -> 0..Lots

\* The ids get_recent_orders(limit=RecentLimit) returns for symbol s.
RecentIds(s) ==
  {xlog[s][k] : k \in {k \in 1..Len(xlog[s]) : k + RecentLimit > Len(xlog[s])}}

\* The order enters the book with a status and the lots executed at once.
Place(i, raw, n) ==
  /\ xorder' = [xorder EXCEPT ![i] = raw]
  /\ xtrades' = xtrades \union ({i} \X (1..n))
  /\ xlog' = [xlog EXCEPT ![Sym(i)] = Append(@, i)]
  /\ balance' = [balance EXCEPT ![Sym(i)] = @ + n]
  /\ accepted' = [accepted EXCEPT ![i] = @ + 1]
  /\ UNCHANGED deposits

\* An answer reaches the engine only while it still waits for this one.
Answers(i, r) ==
  reply' = IF pc = "await" /\ cur = i THEN r ELSE reply

ExchangeAccepts(i) ==
  /\ i \in inflight
  /\ xorder[i] \notin OpenOnExchange
  /\ \E raw \in RawUsed, n \in 0..Lots :
       /\ n \in FilledWith(raw)
       /\ Place(i, raw, n)
       /\ Answers(i, raw)
  /\ inflight' = inflight \ {i}
  /\ UNCHANGED <<dbVars, pc, memVars, recVars>>

\* 4xx: the id of an open order again, or any filter or balance error.
ExchangeRefuses(i) ==
  /\ i \in inflight
  /\ Answers(i, HttpReject)
  /\ inflight' = inflight \ {i}
  /\ UNCHANGED <<dbVars, pc, memVars, recVars, bookVars>>

SubmissionLost(i) ==
  /\ i \in inflight
  /\ inflight' = inflight \ {i}
  /\ UNCHANGED <<dbVars, pc, memVars, recVars, bookVars, reply>>

\* One more lot of an open order is executed.
ExchangeFills(i) ==
  /\ xorder[i] \in OpenOnExchange
  /\ \E k \in 1..Lots :
       /\ LotsFilled(i) = 1..(k - 1)
       /\ xtrades' = xtrades \union {<<i, k>>}
       /\ xorder' = [xorder EXCEPT
            ![i] = IF k = Lots THEN "FILLED" ELSE "PARTIALLY_FILLED"]
  /\ balance' = [balance EXCEPT ![Sym(i)] = @ + 1]
  /\ UNCHANGED <<xlog, deposits, accepted, dbVars, pc, memVars, recVars, wireVars>>

\* An open order ends with what it has filled so far.
ExchangeCloses(i) ==
  /\ xorder[i] \in OpenOnExchange
  /\ \E raw \in RawUsed \intersect {"CANCELED", "EXPIRED", "OTHER"} :
       xorder' = [xorder EXCEPT ![i] = raw]
  /\ UNCHANGED <<xtrades, xlog, balance, deposits, accepted, dbVars, pc,
                 memVars, recVars, wireVars>>

\* Somebody buys by hand (bound: once per symbol).
OrderByHand(s) ==
  /\ xorder[<<s, 0>>] = NoOrder
  /\ \E raw \in RawUsed, n \in 0..Lots :
       n \in FilledWith(raw) /\ Place(<<s, 0>>, raw, n)
  /\ UNCHANGED <<dbVars, pc, memVars, recVars, wireVars>>

\* A deposit, an initial grant or a trade of another pair with this asset.
Deposit(s) ==
  /\ deposits[s] < MaxDeposits
  /\ deposits' = [deposits EXCEPT ![s] = @ + 1]
  /\ balance' = [balance EXCEPT ![s] = @ + 1]
  /\ UNCHANGED <<xorder, xtrades, xlog, accepted, dbVars, pc, memVars,
                 recVars, wireVars>>

ExchangeNext ==
  \/ \E i \in Signals : \/ ExchangeAccepts(i)
                        \/ ExchangeRefuses(i)
                        \/ SubmissionLost(i)
  \/ \E i \in Ids : ExchangeFills(i) \/ ExchangeCloses(i)
  \/ \E s \in SharedSymbols : OrderByHand(s)
  \/ \E s \in Symbols : Deposit(s)
=============================================================================
