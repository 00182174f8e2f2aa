--------------------------- MODULE PositionLedger ---------------------------
(***************************************************************************)
(* The replay of a trade history into one spot position: inventory at its  *)
(* weighted average cost, realized profit, and what a commission does in   *)
(* the base asset, in the quote asset or in a third one.  Quantities and   *)
(* prices are integers, averages are fractions <<numerator, denominator>>, *)
(* so the tolerances for rounding (1e-10 and less) are zero.               *)
(***************************************************************************)
EXTENDS Integers, FiniteSetsExt

Kind == [side : {"BUY", "SELL"}, qty : Nat, price : Nat, fee : Nat,
         asset : {"base", "quote", "other"}]

FeeIn(t, asset) == IF t.asset = asset THEN t.fee ELSE 0

Plus(a, b)   == <<a[1] * b[2] + b[1] * a[2], a[2] * b[2]>>
Same(a, b)   == a[1] * b[2] = b[1] * a[2]
AtMost(a, b) == a[1] * b[2] <= b[1] * a[2]
Whole(n)     == <<n, 1>>
Zero         == Whole(0)

Fraction == Int \X (Nat \ {0})
Book == [qty : Nat, avg : Fraction, realized : Fraction]

EmptyBook == [qty |-> 0, avg |-> Zero, realized |-> Zero]

\* What a trade adds to the inventory, and what it takes from it.
Acquired(t) == t.qty - FeeIn(t, "base")

Disposed(t) == t.qty + FeeIn(t, "base")

\* Not a trade, or a purchase that its commission consumes.
Unbookable(t) ==
  \/ t.qty <= 0 \/ t.price <= 0
  \/ t.side = "BUY" /\ Acquired(t) <= 0

\* The history cannot be replayed past this trade.
Unexplained(book, t) ==
  \/ Unbookable(t)
  \/ t.side = "SELL" /\ Disposed(t) > book.qty

\* Mutant: the average is taken over the quantity before the commission.
Bought_GrossQuantity(book, t) ==
  LET cost == t.qty * t.price + FeeIn(t, "quote")
  IN  [qty |-> book.qty + Acquired(t),
       avg |-> <<book.qty * book.avg[1] + cost * book.avg[2],
                 (book.qty + t.qty) * book.avg[2]>>,
       realized |-> book.realized]

Bought(book, t) ==
  LET cost == t.qty * t.price + FeeIn(t, "quote")
      qty  == book.qty + Acquired(t)
  IN  [qty |-> qty,
       avg |-> <<book.qty * book.avg[1] + cost * book.avg[2],
                 qty * book.avg[2]>>,
       realized |-> book.realized]

\* A commission in the base asset leaves the inventory at its cost and is
\* not charged to the profit.
Sold(book, t) ==
  LET qty == book.qty - Disposed(t)
      gain == <<(t.qty * t.price - FeeIn(t, "quote")) * book.avg[2]
                  - t.qty * book.avg[1], book.avg[2]>>
  IN  [qty |-> qty,
       avg |-> IF qty = 0 THEN Zero ELSE book.avg,
       realized |-> Plus(book.realized, gain)]

Booked(book, t) == IF t.side = "BUY" THEN Bought(book, t) ELSE Sold(book, t)

---------------------------------------------------------------------------
(* References for the properties: plain sums, independent of the order.    *)

NetQty(t)  == IF t.side = "BUY" THEN Acquired(t) ELSE -Disposed(t)
NetCash(t) == (IF t.side = "BUY" THEN t.qty * t.price ELSE -t.qty * t.price)
                + FeeIn(t, "quote")

\* What the open position cost, less what was realized.
Outlay(book) ==
  Plus(<<book.qty * book.avg[1], book.avg[2]>>,
       <<-book.realized[1], book.realized[2]>>)
=============================================================================
