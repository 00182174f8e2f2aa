----------------------------- MODULE BooksProofs -----------------------------
(***************************************************************************)
(* Proofs about AccountBooks, for any page size, page limit and kinds of   *)
(* trades: the paged read is one read of the whole history, and a position *)
(* is accepted when, and only when, history, balance and money add up.     *)
(***************************************************************************)
EXTENDS AccountBooks, SumTheorems

---------------------------------------------------------------------------
(* Extremes of sets of naturals.                                           *)

\* A non-empty bounded set of naturals has a greatest element, which is Max.
LEMMA MaxIsGreatest ==
  ASSUME NEW b \in Nat, NEW S, S \subseteq 0..b, S # {}
  PROVE  Max(S) \in S /\ \A n \in S : n <= Max(S)
<1> DEFINE U == {n \in Nat : \A s \in S : s <= n}
<1>1. b \in U
  OBVIOUS
<1>2. PICK m \in U : \A y \in U : m <= y
  <2>1. U \subseteq Nat /\ U # {}
    BY <1>1
  <2> HIDE DEF U
  <2> QED BY <2>1, LeastExists
<1>3. m \in S
  <2> SUFFICES ASSUME m \notin S PROVE FALSE
    OBVIOUS
  <2>1. PICK s : s \in S
    OBVIOUS
  <2>2. \A t \in S : t \in Nat /\ t <= m /\ t # m
    OBVIOUS
  <2>3. m - 1 \in U
    BY <2>1, <2>2
  <2> QED BY <1>2, <2>3
<1>4. \A n \in S : n <= m
  OBVIOUS
<1> QED
  BY <1>3, <1>4 DEF Max

---------------------------------------------------------------------------
(* Pages.                                                                  *)

LEMMA TradedTyped == Traded \subseteq TradeIds /\ TradeIds \subseteq Nat
BY BooksAssumption DEF Traded, TradeIds

LEMMA RestFinite ==
  ASSUME NEW S, S \subseteq Traded
  PROVE  IsFiniteSet(S) /\ Cardinality(S) \in Nat
<1>1. IsFiniteSet(TradeIds)
  BY BooksAssumption, FS_Interval DEF TradeIds
<1> QED
  BY <1>1, TradedTyped, FS_Subset, FS_CardinalityType

\* A page has no hole: a trade of the rest that is not beyond one of the page
\* is on the page.
LEMMA PageIsPrefix ==
  ASSUME NEW from \in Nat, NEW i \in Page(from),
         NEW j \in Traded, j >= from, j <= i
  PROVE  j \in Page(from)
<1> DEFINE rest == {k \in Traded : k >= from}
           Before(n) == {k \in rest : k < n}
<1>1. i \in Nat /\ j \in Nat /\ rest \subseteq Nat
  BY TradedTyped DEF Page
<1>2. Before(j) \subseteq Before(i) /\ Before(i) \subseteq Traded
  BY <1>1
<1>3. /\ Cardinality(Before(j)) <= Cardinality(Before(i))
      /\ Cardinality(Before(j)) \in Nat /\ Cardinality(Before(i)) \in Nat
  <2>1. Before(j) \subseteq Traded
    BY <1>2
  <2> HIDE DEF Before
  <2> QED BY <1>2, <2>1, RestFinite, FS_Subset
<1>4. Cardinality(Before(i)) < PageSize
  BY DEF Page
<1> QED
  BY <1>3, <1>4, BooksAssumption DEF Page

\* A page that is not full holds all the rest.
LEMMA ShortPageIsLast ==
  ASSUME NEW from \in Nat, Cardinality(Page(from)) < PageSize
  PROVE  Page(from) = {k \in Traded : k >= from}
<1> DEFINE rest == {k \in Traded : k >= from}
           Before(n) == {k \in rest : k < n}
<1> SUFFICES ASSUME rest \ Page(from) # {} PROVE FALSE
  BY DEF Page
<1>1. rest \subseteq Nat
  BY TradedTyped
<1>2. PICK x \in rest \ Page(from) : \A y \in rest \ Page(from) : x <= y
  <2>1. rest \ Page(from) \subseteq Nat
    BY <1>1
  <2> HIDE DEF rest
  <2> QED BY <2>1, LeastExists
<1>3. Before(x) \subseteq Page(from)
  BY <1>1, <1>2
<1>4. Page(from) \subseteq Traded /\ Before(x) \subseteq Traded
  BY DEF Page
<1>5. /\ Cardinality(Before(x)) <= Cardinality(Page(from))
      /\ Cardinality(Before(x)) \in Nat /\ Cardinality(Page(from)) \in Nat
  <2> HIDE DEF Before
  <2> QED BY <1>3, <1>4, RestFinite, FS_Subset
<1>6. Cardinality(Before(x)) < PageSize
  BY <1>5, BooksAssumption
<1> QED
  BY <1>2, <1>6 DEF Page

---------------------------------------------------------------------------
(* One trade in the book.                                                  *)

\* The books of a buy and of a sale, in integers.
LEMMA BuyArithmetic ==
  ASSUME NEW q \in Int, NEW a \in Int, NEW c \in Int, NEW n \in Int,
         NEW d \in Int, NEW rn \in Int, NEW rd \in Int
  PROVE  (((q + a) * (q * n + c * d)) * rd + (-rn) * ((q + a) * d)) * ((d * rd) * 1)
           = ((q * n * rd + (-rn) * d) * 1 + c * (d * rd)) * (((q + a) * d) * rd)
BY SMT

LEMMA SellArithmetic ==
  ASSUME NEW q \in Int, NEW s \in Int, NEW p \in Int, NEW n \in Int,
         NEW d \in Int, NEW rn \in Int, NEW rd \in Int
  PROVE  (((q - s) * n) * (rd * d) + (-(rn * d + (p * d - s * n) * rd)) * d)
             * ((d * rd) * 1)
           = ((q * n * rd + (-rn) * d) * 1 + (-p) * (d * rd)) * (d * (rd * d))
BY SMT

LEMMA SellAllArithmetic ==
  ASSUME NEW q \in Int, NEW p \in Int, NEW n \in Int,
         NEW d \in Int, NEW rn \in Int, NEW rd \in Int
  PROVE  ((q - q) * 0 * (rd * d) + (-(rn * d + (p * d - q * n) * rd)) * 1)
             * ((d * rd) * 1)
           = ((q * n * rd + (-rn) * d) * 1 + (-p) * (d * rd)) * (1 * (rd * d))
BY SMT

\* The fractions of a book, and what a trade carries, are integers.
LEMMA BookParts ==
  ASSUME NEW b \in Book, NEW t \in Kind
  PROVE  /\ b.qty \in Nat
         /\ b.avg[1] \in Int /\ b.avg[2] \in Nat \ {0}
         /\ b.realized[1] \in Int /\ b.realized[2] \in Nat \ {0}
         /\ t.qty \in Nat /\ t.price \in Nat
         /\ FeeIn(t, "base") \in Nat /\ FeeIn(t, "quote") \in Nat
BY DEF Book, Fraction, Kind, FeeIn

LEMMA ProductTypes ==
  ASSUME NEW x \in Nat \ {0}, NEW y \in Nat \ {0}
  PROVE  x * y \in Nat \ {0}
BY SMT

LEMMA BoughtTyped ==
  ASSUME NEW b \in Book, NEW t \in Kind, t.side = "BUY", ~Unexplained(b, t)
  PROVE  Bought(b, t) \in Book
<1> DEFINE Q == b.qty + Acquired(t)
           C == t.qty * t.price + FeeIn(t, "quote")
<1>1. Q \in Nat \ {0} /\ C \in Int
  BY BookParts DEF Unexplained, Unbookable, Acquired
<1>2. b.avg \in Fraction /\ b.realized \in Fraction
  BY DEF Book
<1>3. <<b.qty * b.avg[1] + C * b.avg[2], Q * b.avg[2]>> \in Fraction
  <2>1. Q * b.avg[2] \in Nat \ {0}
    BY <1>1, BookParts, ProductTypes
  <2>2. b.qty * b.avg[1] + C * b.avg[2] \in Int
    <3> HIDE DEF C
    <3> QED BY <1>1, BookParts
  <2> QED
    BY <2>1, <2>2 DEF Fraction
<1>4. Bought(b, t) = [qty |-> Q, realized |-> b.realized,
                      avg |-> <<b.qty * b.avg[1] + C * b.avg[2], Q * b.avg[2]>>]
  BY DEF Bought
<1> QED
  BY <1>1, <1>2, <1>3, <1>4 DEF Book

LEMMA SoldTyped ==
  ASSUME NEW b \in Book, NEW t \in Kind, t.side = "SELL", ~Unexplained(b, t)
  PROVE  Sold(b, t) \in Book
<1> DEFINE Q == b.qty - Disposed(t)
           P == t.qty * t.price - FeeIn(t, "quote")
           G == <<P * b.avg[2] - t.qty * b.avg[1], b.avg[2]>>
<1>1. Q \in Nat /\ P \in Int
  BY BookParts DEF Unexplained, Disposed
<1>2. b.avg \in Fraction /\ b.realized \in Fraction /\ Zero \in Fraction
  BY DEF Book, Fraction, Zero, Whole
<1>3. G \in Fraction
  <2> HIDE DEF P
  <2> QED BY <1>1, BookParts DEF Fraction
<1>4. Plus(b.realized, G) \in Fraction
  <2>1. b.realized[2] * G[2] \in Nat \ {0}
    BY BookParts, ProductTypes
  <2>2. G[1] \in Int /\ G[2] \in Int
    BY <1>3 DEF Fraction
  <2>3. b.realized[1] * G[2] + G[1] * b.realized[2] \in Int
    <3> HIDE DEF G
    <3> QED BY <2>2, BookParts
  <2> HIDE DEF G
  <2> QED
    BY <2>1, <2>3 DEF Plus, Fraction
<1>5. Sold(b, t) = [qty |-> Q, avg |-> IF Q = 0 THEN Zero ELSE b.avg,
                    realized |-> Plus(b.realized, G)]
  BY DEF Sold
<1> QED
  BY <1>1, <1>2, <1>4, <1>5 DEF Book

\* Buying is booked at cost: the money laid out grows by what was paid.
LEMMA BuyConserves ==
  ASSUME NEW b \in Book, NEW t \in Kind, t.side = "BUY"
  PROVE  Same(Outlay(Bought(b, t)), Plus(Outlay(b), Whole(NetCash(t))))
<1> DEFINE A == Acquired(t)
           C == t.qty * t.price + FeeIn(t, "quote")
<1>1. A \in Int /\ C \in Int /\ NetCash(t) = C
  BY BookParts DEF Acquired, NetCash
<1>2. /\ Bought(b, t).qty = b.qty + A
      /\ Bought(b, t).avg = <<b.qty * b.avg[1] + C * b.avg[2],
                              (b.qty + A) * b.avg[2]>>
      /\ Bought(b, t).realized = b.realized
  BY DEF Bought, Book
<1>3. /\ b.qty \in Int /\ b.avg[1] \in Int /\ b.avg[2] \in Int
      /\ b.realized[1] \in Int /\ b.realized[2] \in Int
  BY BookParts
<1> HIDE DEF A, C
<1> QED
  BY <1>1, <1>2, <1>3, BuyArithmetic DEF Outlay, Plus, Same, Whole

\* A sale that pays no commission in the base asset turns cost and profit
\* into money received, to the last unit.
LEMMA SellConserves ==
  ASSUME NEW b \in Book, NEW t \in Kind, t.side = "SELL",
         FeeIn(t, "base") = 0
  PROVE  Same(Outlay(Sold(b, t)), Plus(Outlay(b), Whole(NetCash(t))))
<1> DEFINE P == t.qty * t.price - FeeIn(t, "quote")
           R == Plus(b.realized, <<P * b.avg[2] - t.qty * b.avg[1], b.avg[2]>>)
<1>1. P \in Int /\ NetCash(t) = -P /\ Disposed(t) = t.qty
  BY BookParts DEF NetCash, Disposed
<1>2. /\ Sold(b, t).qty = b.qty - t.qty
      /\ Sold(b, t).realized = R
      /\ b.qty - t.qty # 0 => Sold(b, t).avg = b.avg
      /\ b.qty - t.qty = 0 => Sold(b, t).avg = <<0, 1>>
  BY <1>1 DEF Sold, Zero, Whole
<1>3. /\ b.qty \in Int /\ b.avg[1] \in Int /\ b.avg[2] \in Int
      /\ b.realized[1] \in Int /\ b.realized[2] \in Int /\ t.qty \in Int
  BY BookParts
<1>4. R = <<b.realized[1] * b.avg[2]
               + (P * b.avg[2] - t.qty * b.avg[1]) * b.realized[2],
            b.realized[2] * b.avg[2]>>
  BY DEF Plus
<1> HIDE DEF P, R
<1>5. CASE b.qty - t.qty # 0
  BY <1>1, <1>2, <1>3, <1>4, <1>5, SellArithmetic
     DEF Outlay, Plus, Same, Whole
<1>6. CASE b.qty - t.qty = 0
  <2>1. b.qty = t.qty
    BY <1>3, <1>6
  <2> QED
    BY <2>1, <1>1, <1>2, <1>3, <1>4, <1>6, SellAllArithmetic
       DEF Outlay, Plus, Same, Whole
<1> QED
  BY <1>5, <1>6

\* Cost basis and realized profit of the code account for all the money of a
\* trade: for every book, quantity, price and commission, unless a sale pays
\* its commission in the base asset.
THEOREM BookingConserves ==
  ASSUME NEW b \in Book, NEW t \in Kind, ~Unexplained(b, t),
         t.side = "SELL" => FeeIn(t, "base") = 0
  PROVE  /\ Booked(b, t) \in Book
         /\ Booked(b, t).qty = b.qty + NetQty(t)
         /\ Same(Outlay(Booked(b, t)), Plus(Outlay(b), Whole(NetCash(t))))
<1>1. t.side \in {"BUY", "SELL"}
  BY DEF Kind
<1>2. CASE t.side = "BUY"
  BY <1>2, BoughtTyped, BuyConserves DEF Booked, Bought, NetQty, Book
<1>3. CASE t.side = "SELL"
  <2>1. b.qty \in Int /\ Disposed(t) \in Int
    BY BookParts DEF Disposed
  <2> QED
    BY <1>3, <2>1, SoldTyped, SellConserves DEF Booked, Sold, NetQty
<1> QED
  BY <1>1, <1>2, <1>3

\* Inequalities between products of integers.
LEMMA TimesMonotone ==
  ASSUME NEW a \in Int, NEW b \in Int, NEW z \in Nat, a <= b
  PROVE  a * z <= b * z
BY SMT

LEMMA TimesCancels ==
  ASSUME NEW a \in Int, NEW b \in Int, NEW z \in Nat \ {0}
  PROVE  /\ a * z <= b * z => a <= b
         /\ a * z = b * z => a = b
BY SMT

\* The same amount on both sides of a comparison.
LEMMA AtMostAdds ==
  ASSUME NEW x \in Fraction, NEW y \in Fraction, NEW c \in Int, NEW k \in Int,
         AtMost(x, Plus(y, Whole(k))), AtMost(y, Whole(c))
  PROVE  AtMost(x, Whole(c + k))
<1>1. /\ x[1] \in Int /\ x[2] \in Nat \ {0} /\ y[1] \in Int /\ y[2] \in Nat \ {0}
  BY DEF Fraction
<1>2. x[1] * y[2] <= (y[1] + k * y[2]) * x[2]
  BY <1>1 DEF AtMost, Plus, Whole
<1>3. y[1] <= c * y[2]
  BY <1>1 DEF AtMost, Whole
<1>4. (y[1] + k * y[2]) * x[2] <= (c * y[2] + k * y[2]) * x[2]
  BY <1>1, <1>3, TimesMonotone
<1>5. (c * y[2] + k * y[2]) * x[2] = ((c + k) * x[2]) * y[2]
  BY <1>1
<1>6. x[1] * y[2] <= ((c + k) * x[2]) * y[2]
  BY <1>1, <1>2, <1>4, <1>5
<1>7. x[1] <= (c + k) * x[2]
  BY <1>1, <1>6, TimesCancels
<1> QED
  BY <1>1, <1>7 DEF AtMost, Whole

LEMMA SameAdds ==
  ASSUME NEW x \in Fraction, NEW y \in Fraction, NEW c \in Int, NEW k \in Int,
         Same(x, Plus(y, Whole(k))), Same(y, Whole(c))
  PROVE  Same(x, Whole(c + k))
<1>1. /\ x[1] \in Int /\ x[2] \in Nat \ {0} /\ y[1] \in Int /\ y[2] \in Nat \ {0}
  BY DEF Fraction
<1>2. x[1] * y[2] = (y[1] + k * y[2]) * x[2]
  BY <1>1 DEF Same, Plus, Whole
<1>3. y[1] = c * y[2]
  BY <1>1 DEF Same, Whole
<1>4. x[1] * y[2] = ((c + k) * x[2]) * y[2]
  BY <1>1, <1>2, <1>3
<1>5. x[1] = (c + k) * x[2]
  BY <1>1, <1>4, TimesCancels
<1> QED
  BY <1>1, <1>5 DEF Same, Whole

LEMMA NonNegative ==
  ASSUME NEW a \in Nat, NEW b \in Nat PROVE a * b \in Nat
BY SMT

\* The books of a sale of s out of q that pays the commission f in the base
\* asset, for p, at the average n / d and the profit rn / rd before.
LEMMA SellFeeArithmetic ==
  ASSUME NEW q \in Int, NEW s \in Int, NEW f \in Nat, NEW p \in Int, NEW n \in Nat,
         NEW d \in Nat, NEW rn \in Int, NEW rd \in Nat
  PROVE  (((q - (s + f)) * n) * (rd * d) + (-(rn * d + (p * d - s * n) * rd)) * d)
             * ((d * rd) * 1)
           <= ((q * n * rd + (-rn) * d) * 1 + (-p) * (d * rd)) * (d * (rd * d))
<1> DEFINE L == (((q - s) * n) * (rd * d) + (-(rn * d + (p * d - s * n) * rd)) * d)
                   * ((d * rd) * 1)
           R == ((q * n * rd + (-rn) * d) * 1 + (-p) * (d * rd)) * (d * (rd * d))
           F == (f * n) * ((rd * d) * (d * rd))
<1>1. L = R
  BY SMT
<1>2. (((q - (s + f)) * n) * (rd * d) + (-(rn * d + (p * d - s * n) * rd)) * d)
             * ((d * rd) * 1) = L - F
  BY SMT
<1>3. F \in Nat
  BY NonNegative
<1>4. L \in Int
  BY SMT
<1> HIDE DEF L, R, F
<1> QED BY <1>1, <1>2, <1>3, <1>4

LEMMA SellAllFeeArithmetic ==
  ASSUME NEW s \in Int, NEW f \in Nat, NEW p \in Int, NEW n \in Nat,
         NEW d \in Nat, NEW rn \in Int, NEW rd \in Nat
  PROVE  (0 * 0 * (rd * d) + (-(rn * d + (p * d - s * n) * rd)) * 1)
             * ((d * rd) * 1)
           <= (((s + f) * n * rd + (-rn) * d) * 1 + (-p) * (d * rd)) * (1 * (rd * d))
<1> DEFINE L == (-(rn * d + (p * d - s * n) * rd)) * (d * rd)
           R == (((s + f) * n * rd + (-rn) * d) * 1 + (-p) * (d * rd)) * (1 * (rd * d))
           F == ((f * n) * rd) * (rd * d)
<1>1. (0 * 0 * (rd * d) + (-(rn * d + (p * d - s * n) * rd)) * 1)
             * ((d * rd) * 1) = L
  BY SMT
<1>2. R = L + F
  BY SMT
<1>3. F \in Nat
  BY NonNegative
<1>4. L \in Int
  BY SMT
<1> HIDE DEF L, R, F
<1> QED BY <1>1, <1>2, <1>3, <1>4

\* A sale never lowers what was laid out by less than it brought in.
LEMMA SellAtMost ==
  ASSUME NEW b \in Book, NEW t \in Kind, t.side = "SELL",
         ~Unexplained(b, t), b.avg[1] >= 0
  PROVE  AtMost(Outlay(Sold(b, t)), Plus(Outlay(b), Whole(NetCash(t))))
<1> DEFINE P == t.qty * t.price - FeeIn(t, "quote")
           F == FeeIn(t, "base")
           R == Plus(b.realized, <<P * b.avg[2] - t.qty * b.avg[1], b.avg[2]>>)
<1>1. P \in Int /\ NetCash(t) = -P /\ Disposed(t) = t.qty + F /\ F \in Nat
  BY BookParts DEF NetCash, Disposed
<1>2. /\ Sold(b, t).qty = b.qty - (t.qty + F)
      /\ Sold(b, t).realized = R
      /\ b.qty - (t.qty + F) # 0 => Sold(b, t).avg = b.avg
      /\ b.qty - (t.qty + F) = 0 => Sold(b, t).avg = <<0, 1>>
  BY <1>1 DEF Sold, Zero, Whole
<1>3. /\ b.qty \in Nat /\ b.avg[1] \in Nat /\ b.avg[2] \in Nat
      /\ b.realized[1] \in Int /\ b.realized[2] \in Nat /\ t.qty \in Nat
  BY BookParts
<1>4. R = <<b.realized[1] * b.avg[2]
               + (P * b.avg[2] - t.qty * b.avg[1]) * b.realized[2],
            b.realized[2] * b.avg[2]>>
  BY DEF Plus
<1> HIDE DEF P, R, F
<1> DEFINE q == b.qty  s == t.qty  n == b.avg[1]  d == b.avg[2]
           rn == b.realized[1]  rd == b.realized[2]
<1>5. Plus(Outlay(b), Whole(NetCash(t)))
        = <<(q * n * rd + (-rn) * d) * 1 + (-P) * (d * rd), (d * rd) * 1>>
  BY <1>1 DEF Outlay, Plus, Whole
<1>6. /\ q \in Int /\ s \in Int /\ F \in Nat /\ P \in Int /\ n \in Nat /\ d \in Nat
      /\ rn \in Int /\ rd \in Nat
  BY <1>1, <1>3
<1>7. CASE b.qty - (t.qty + F) # 0
  <2>1. Outlay(Sold(b, t))
          = <<((q - (s + F)) * n) * (rd * d) + (-(rn * d + (P * d - s * n) * rd)) * d,
              d * (rd * d)>>
    BY <1>2, <1>4, <1>7 DEF Outlay, Plus
  <2> HIDE DEF q, s, n, d, rn, rd
  <2>2. (((q - (s + F)) * n) * (rd * d) + (-(rn * d + (P * d - s * n) * rd)) * d)
             * ((d * rd) * 1)
           <= ((q * n * rd + (-rn) * d) * 1 + (-P) * (d * rd)) * (d * (rd * d))
    BY <1>6, SellFeeArithmetic, Zenon
  <2> QED
    BY <1>5, <2>1, <2>2 DEF AtMost
<1>8. CASE b.qty - (t.qty + F) = 0
  <2>1. q = s + F /\ Sold(b, t).qty = 0
    BY <1>1, <1>2, <1>3, <1>8
  <2>2. Outlay(Sold(b, t))
          = <<0 * 0 * (rd * d) + (-(rn * d + (P * d - s * n) * rd)) * 1,
              1 * (rd * d)>>
    BY <1>2, <1>4, <1>8, <2>1 DEF Outlay, Plus
  <2> HIDE DEF q, s, n, d, rn, rd
  <2>3. (0 * 0 * (rd * d) + (-(rn * d + (P * d - s * n) * rd)) * 1)
             * ((d * rd) * 1)
           <= (((s + F) * n * rd + (-rn) * d) * 1 + (-P) * (d * rd)) * (1 * (rd * d))
    BY <1>6, SellAllFeeArithmetic, Zenon
  <2> QED
    BY <1>5, <2>1, <2>2, <2>3 DEF AtMost
<1> QED
  BY <1>7, <1>8

LEMMA OutlayTyped ==
  ASSUME NEW b \in Book
  PROVE  Outlay(b) \in Fraction
<1>1. /\ b.qty \in Nat /\ b.avg[1] \in Int /\ b.avg[2] \in Nat \ {0}
      /\ b.realized[1] \in Int /\ b.realized[2] \in Nat \ {0}
  BY DEF Book, Fraction
<1>2. b.avg[2] * b.realized[2] \in Nat \ {0}
  BY <1>1, ProductTypes
<1>3. (b.qty * b.avg[1]) * b.realized[2] + (-b.realized[1]) * b.avg[2] \in Int
  BY <1>1
<1> QED
  BY <1>2, <1>3 DEF Outlay, Plus, Fraction

\* What a purchase or a sale keeps of the average.
LEMMA AverageNonNegative ==
  ASSUME NEW b \in Book, NEW t \in Kind, b.avg[1] >= 0
  PROVE  Booked(b, t).avg[1] >= 0
<1>1. /\ b.qty \in Nat /\ b.avg[1] \in Nat /\ b.avg[2] \in Nat
      /\ t.qty \in Nat /\ t.price \in Nat /\ FeeIn(t, "quote") \in Nat
  BY BookParts
<1>2. CASE t.side = "BUY"
  <2> DEFINE C == t.qty * t.price + FeeIn(t, "quote")
  <2>1. C \in Nat
    BY <1>1, NonNegative
  <2>2. b.qty * b.avg[1] \in Nat /\ C * b.avg[2] \in Nat
    BY <1>1, <2>1, NonNegative
  <2>3. Booked(b, t).avg[1] = b.qty * b.avg[1] + C * b.avg[2]
    BY <1>2 DEF Booked, Bought
  <2> HIDE DEF C
  <2> QED
    BY <2>2, <2>3
<1>3. CASE t.side # "BUY"
  BY <1>1, <1>3 DEF Booked, Sold, Zero, Whole
<1> QED
  BY <1>2, <1>3

LEMMA SameIsAtMost ==
  ASSUME NEW x \in Fraction, NEW y \in Fraction, Same(x, y)
  PROVE  AtMost(x, y)
<1>1. /\ x[1] \in Int /\ x[2] \in Int /\ y[1] \in Int /\ y[2] \in Int
  BY DEF Fraction
<1>2. x[1] * y[2] \in Int
  BY <1>1
<1> QED
  BY <1>2 DEF Same, AtMost

\* The profit is never booked too low, whatever the commission is paid in.
LEMMA BookingAtMost ==
  ASSUME NEW b \in Book, NEW t \in Kind, ~Unexplained(b, t), b.avg[1] >= 0
  PROVE  AtMost(Outlay(Booked(b, t)), Plus(Outlay(b), Whole(NetCash(t))))
<1>1. t.side \in {"BUY", "SELL"}
  BY DEF Kind
<1>2. CASE t.side = "BUY"
  <2>1. Bought(b, t) \in Book
    BY <1>2, BoughtTyped
  <2>2. NetCash(t) \in Int
    BY <1>2, BookParts DEF NetCash
  <2>3. Plus(Outlay(b), Whole(NetCash(t))) \in Fraction
    BY <2>2, OutlayTyped DEF Fraction, Plus, Whole
  <2>4. Outlay(Bought(b, t)) \in Fraction
    BY <2>1, OutlayTyped
  <2> QED
    BY <1>2, <2>3, <2>4, BuyConserves, SameIsAtMost DEF Booked
<1>3. CASE t.side = "SELL"
  BY <1>3, SellAtMost DEF Booked
<1> QED
  BY <1>1, <1>2, <1>3

---------------------------------------------------------------------------
(* What a history adds up to.  The history is a parameter, so that a sum    *)
(* before a trade can be compared with the sum after it.                   *)

QtyIn(h, S)  == SumFunction([i \in S |-> NetQty(h[i])])
CashIn(h, S) == SumFunction([i \in S |-> NetCash(h[i])])

\* The trades of S up to and with i.
UpTil(S, i) == {j \in S : j <= i}

\* At no trade of S was more sold than had been bought.
NeverShort(h, S) == \A i \in S : QtyIn(h, UpTil(S, i)) >= 0

Unmoved(m) == m.in + m.out = 0

\* No sale of S paid its commission in the base asset.
CleanSales(h, S) == \A i \in S : h[i].side = "SELL" => FeeIn(h[i], "base") = 0

\* The book accounts for the trades of S.
Accounts(b, h, S) ==
  /\ b.qty = QtyIn(h, S)
  /\ b.avg[1] >= 0
  /\ AtMost(Outlay(b), Whole(CashIn(h, S)))
  /\ CleanSales(h, S) => Same(Outlay(b), Whole(CashIn(h, S)))

LEMMA EmptyBookTyped == EmptyBook \in Book
BY DEF EmptyBook, Book, Fraction, Zero, Whole

LEMMA NetTyped ==
  ASSUME NEW t \in Kind
  PROVE  NetQty(t) \in Int /\ NetCash(t) \in Int
BY EmptyBookTyped, BookParts DEF NetQty, NetCash, Acquired, Disposed

LEMMA SumsTyped ==
  ASSUME NEW h, NEW S, IsFiniteSet(S), \A i \in S : h[i] \in Kind
  PROVE  QtyIn(h, S) \in Int /\ CashIn(h, S) \in Int
<1>1. /\ [i \in S |-> NetQty(h[i])] \in [S -> Int]
      /\ [i \in S |-> NetCash(h[i])] \in [S -> Int]
  BY NetTyped
<1> QED
  BY <1>1, FcnSumTyped DEF QtyIn, CashIn

LEMMA SumsOfNone ==
  ASSUME NEW h
  PROVE  QtyIn(h, {}) = 0 /\ CashIn(h, {}) = 0
BY FcnSumEmpty DEF QtyIn, CashIn

\* One trade more.
LEMMA SumsAdd ==
  ASSUME NEW h, NEW S, IsFiniteSet(S), NEW k, k \notin S,
         \A i \in S \union {k} : h[i] \in Kind
  PROVE  /\ QtyIn(h, S \union {k}) = QtyIn(h, S) + NetQty(h[k])
         /\ CashIn(h, S \union {k}) = CashIn(h, S) + NetCash(h[k])
<1> DEFINE qT == [i \in S \union {k} |-> NetQty(h[i])]
           qS == [i \in S |-> NetQty(h[i])]
           cT == [i \in S \union {k} |-> NetCash(h[i])]
           cS == [i \in S |-> NetCash(h[i])]
<1>1. /\ qT \in [S \union {k} -> Int] /\ qS \in [S -> Int]
      /\ cT \in [S \union {k} -> Int] /\ cS \in [S -> Int]
  BY NetTyped
<1>2. /\ \A i \in S : qT[i] = qS[i] /\ cT[i] = cS[i]
      /\ qT[k] = NetQty(h[k]) /\ cT[k] = NetCash(h[k])
  OBVIOUS
<1>3. SumFunction(qT) = SumFunction(qS) + qT[k]
  <2> HIDE DEF qT, qS, cT, cS
  <2> QED BY <1>1, <1>2, FcnSumAdds
<1>4. SumFunction(cT) = SumFunction(cS) + cT[k]
  <2> HIDE DEF qT, qS, cT, cS
  <2> QED BY <1>1, <1>2, FcnSumAdds
<1> QED
  BY <1>2, <1>3, <1>4 DEF QtyIn, CashIn

\* The sums over trades that stay what they are stay what they are.
LEMMA SumsKept ==
  ASSUME NEW g, NEW h, NEW S, \A i \in S : g[i] = h[i]
  PROVE  /\ QtyIn(g, S) = QtyIn(h, S) /\ CashIn(g, S) = CashIn(h, S)
         /\ CleanSales(g, S) <=> CleanSales(h, S)
         /\ \A i \in S : QtyIn(g, UpTil(S, i)) = QtyIn(h, UpTil(S, i))
         /\ NeverShort(g, S) <=> NeverShort(h, S)
<1>1. \A T \in SUBSET S : /\ [i \in T |-> NetQty(g[i])] = [i \in T |-> NetQty(h[i])]
                         /\ [i \in T |-> NetCash(g[i])] = [i \in T |-> NetCash(h[i])]
  OBVIOUS
<1>2. \A T \in SUBSET S : QtyIn(g, T) = QtyIn(h, T) /\ CashIn(g, T) = CashIn(h, T)
  BY <1>1 DEF QtyIn, CashIn
<1>3. \A i \in S : UpTil(S, i) \in SUBSET S
  BY DEF UpTil
<1> QED
  BY <1>2, <1>3 DEF CleanSales, NeverShort

LEMMA AccountsKept ==
  ASSUME NEW g, NEW h, NEW S, \A i \in S : g[i] = h[i], NEW b, Accounts(b, g, S)
  PROVE  Accounts(b, h, S)
BY SumsKept DEF Accounts

\* The empty book accounts for no trades.
LEMMA EmptyAccounts ==
  ASSUME NEW h
  PROVE  Accounts(EmptyBook, h, {})
BY SumsOfNone DEF Accounts, EmptyBook, Zero, Whole, Outlay, Plus, AtMost, Same

\* Booking one trade more accounts for one trade more.
LEMMA BookedAccounts ==
  ASSUME NEW h, NEW S, IsFiniteSet(S), NEW k, k \notin S,
         \A i \in S \union {k} : h[i] \in Kind,
         NEW b \in Book, Accounts(b, h, S), ~Unexplained(b, h[k])
  PROVE  Accounts(Booked(b, h[k]), h, S \union {k})
<1> DEFINE t == h[k]  T == S \union {k}  B == Booked(b, t)
<1>1. t \in Kind /\ t.side \in {"BUY", "SELL"}
  BY DEF Kind
<1>2. B \in Book
  BY <1>1, BoughtTyped, SoldTyped DEF Booked
<1>3. /\ CashIn(h, T) = CashIn(h, S) + NetCash(t)
      /\ QtyIn(h, T) = QtyIn(h, S) + NetQty(t)
      /\ CashIn(h, S) \in Int /\ NetCash(t) \in Int
  BY <1>1, SumsAdd, SumsTyped, NetTyped
<1>4. Outlay(b) \in Fraction /\ Outlay(B) \in Fraction
  BY <1>2, OutlayTyped
<1>5. B.qty = QtyIn(h, T)
  <2>1. B.qty = b.qty + NetQty(t)
    <3>1. b.qty \in Int /\ Disposed(t) \in Int
      BY <1>1, BookParts DEF Disposed
    <3> QED
      BY <1>1, <3>1 DEF Booked, Bought, Sold, NetQty
  <2> HIDE DEF B, T, t
  <2> QED BY <1>3, <2>1 DEF Accounts
<1>6. B.avg[1] >= 0
  BY <1>1, AverageNonNegative DEF Accounts
<1>7. AtMost(Outlay(B), Whole(CashIn(h, T)))
  <2>1. AtMost(Outlay(B), Plus(Outlay(b), Whole(NetCash(t))))
    BY <1>1, BookingAtMost DEF Accounts
  <2>2. AtMost(Outlay(b), Whole(CashIn(h, S)))
    BY DEF Accounts
  <2> HIDE DEF B, T, t
  <2> QED BY <1>3, <1>4, <2>1, <2>2, AtMostAdds
<1>8. ASSUME CleanSales(h, T)
      PROVE  Same(Outlay(B), Whole(CashIn(h, T)))
  <2>1. t.side = "SELL" => FeeIn(t, "base") = 0
    BY <1>8 DEF CleanSales
  <2>2. Same(Outlay(B), Plus(Outlay(b), Whole(NetCash(t))))
    BY <1>1, <2>1, BookingConserves
  <2>3. Same(Outlay(b), Whole(CashIn(h, S)))
    BY <1>8 DEF Accounts, CleanSales
  <2> HIDE DEF B, T, t
  <2> QED BY <1>3, <1>4, <2>2, <2>3, SameAdds
<1> QED
  BY <1>5, <1>6, <1>7, <1>8 DEF Accounts

---------------------------------------------------------------------------
(* Type correctness.                                                       *)

\* The least of a non-empty set of ids is one of them.
LEMMA MinIsMember ==
  ASSUME NEW S, S \subseteq TradeIds, S # {}
  PROVE  Min(S) \in S
<1>1. PICK x \in S : \A y \in S : x <= y
  BY TradedTyped, LeastExists
<1> QED
  BY <1>1 DEF Min

LEMMA NotSeenTyped ==
  NotSeen \in [balance : Int, moves : [in : 0..MaxMoves, out : 0..MaxMoves]]
<1>1. 0 \in 0..MaxMoves /\ -1 \in Int
  BY BooksAssumption
<1> QED
  BY <1>1 DEF NotSeen

LEMMA BooksInit == Init => BooksTypeOK
<1> SUFFICES ASSUME Init PROVE BooksTypeOK
  OBVIOUS
<1>1. trade \in [TradeIds -> Kinds \union {NoTrade}]
  BY DEF Init
<1>2. moves \in [in : 0..MaxMoves, out : 0..MaxMoves]
  BY BooksAssumption DEF Init
<1>3. fromId \in 0..LastTradeId + 1 /\ pages \in 0..MaxPages
  BY BooksAssumption DEF Init
<1>4. seen \in [balance : Int, moves : [in : 0..MaxMoves, out : 0..MaxMoves]]
  BY NotSeenTyped DEF Init
<1> QED
  BY <1>1, <1>2, <1>3, <1>4, EmptyBookTyped DEF Init, BooksTypeOK

\* The trade to be replayed is one that was made.
LEMMA ReplayedTyped ==
  ASSUME BooksTypeOK, left # {}
  PROVE  Replayed \in left /\ Replayed \in Traded /\ trade[Replayed] \in Kind
<1>1. left \subseteq TradeIds /\ left \subseteq Traded
  BY TradedTyped DEF BooksTypeOK
<1>2. Replayed \in left
  BY <1>1, MinIsMember DEF Replayed
<1> QED
  BY <1>1, <1>2, BooksAssumption DEF BooksTypeOK, Traded

LEMMA TradesOfAKind ==
  ASSUME BooksTypeOK
  PROVE  /\ \A i \in Traded : trade[i] \in Kind
         /\ got \subseteq Traded /\ left \subseteq got /\ fills \subseteq Traded
         /\ moves.in \in Nat /\ moves.out \in Nat
         /\ seen.moves.in \in Nat /\ seen.moves.out \in Nat
BY BooksAssumption DEF BooksTypeOK, Traded

LEMMA BalanceTyped ==
  ASSUME BooksTypeOK
  PROVE  QtyIn(trade, Traded) \in Int /\ Balance \in Int
<1>1. QtyIn(trade, Traded) \in Int
  BY TradesOfAKind, RestFinite, SumsTyped
<1> QED
  BY <1>1, TradesOfAKind DEF Balance, NetQtyOf, QtyIn

LEMMA BooksNext == BooksTypeOK /\ [Next]_vars => BooksTypeOK'
<1> SUFFICES ASSUME BooksTypeOK, [Next]_vars PROVE BooksTypeOK'
  OBVIOUS
<1> USE BooksAssumption
<1>1. CASE Trades
  <2>1. PICK i \in TradeIds, k \in Kinds : trade' = [trade EXCEPT ![i] = k]
    BY <1>1 DEF Trades
  <2>2. Traded \subseteq Traded' /\ trade' \in [TradeIds -> Kinds \union {NoTrade}]
    BY <2>1, NoTradeIsNoKind DEF Traded, BooksTypeOK
  <2> QED
    BY <1>1, <2>2 DEF Trades, BooksTypeOK, db, reading
<1>2. CASE Deposit \/ Withdraw
  <2>1. moves' \in [in : 0..MaxMoves, out : 0..MaxMoves]
    BY <1>2 DEF Deposit, Withdraw, BooksTypeOK
  <2> QED
    BY <1>2, <2>1 DEF Deposit, Withdraw, BooksTypeOK, db, reading, Traded
<1>3. CASE FetchPage
  <2> DEFINE batch == Page(fromId)
  <2>1. batch \subseteq Traded /\ Traded' = Traded /\ trade' = trade
    BY <1>3 DEF Page, FetchPage, account, Traded
  <2>2. got' \subseteq Traded /\ got \subseteq got'
    <3>1. got' = got \union batch
      BY <1>3 DEF FetchPage
    <3> HIDE DEF batch
    <3> QED BY <2>1, <3>1 DEF BooksTypeOK
  <2>3. fromId' \in 0..LastTradeId + 1
    <3>1. CASE batch = {}
      BY <1>3, <3>1 DEF FetchPage, BooksTypeOK
    <3>2. CASE batch # {}
      <4>1. batch \subseteq 0..LastTradeId
        BY <2>1 DEF Traded, TradeIds
      <4>2. Max(batch) \in 0..LastTradeId
        <5> HIDE DEF batch
        <5> QED BY <3>2, <4>1, MaxIsGreatest
      <4> QED
        BY <1>3, <3>2, <4>2 DEF FetchPage
    <3> QED
      BY <3>1, <3>2
  <2>4. pages' \in 0..MaxPages /\ pc' \in {"page", "account"}
    BY <1>3 DEF FetchPage, BooksTypeOK
  <2> QED
    BY <1>3, <2>1, <2>2, <2>3, <2>4 DEF FetchPage, BooksTypeOK, account, db
<1>4. CASE Start \/ TooManyPages \/ TradeUnexplained \/ BalanceUnexplained
  BY <1>4 DEF Start, TooManyPages, TradeUnexplained, BalanceUnexplained,
     BooksTypeOK, account, db, reading, Traded
<1>5. CASE Ends
  <2>1. /\ UNCHANGED <<trade, moves, fills, position>> /\ Traded' = Traded
        /\ got' = {} /\ left' = {} /\ late' = FALSE /\ book' = EmptyBook
        /\ pc' = "off" /\ fromId' = 0 /\ pages' = 0 /\ seen' = NotSeen
    BY <1>5 DEF Ends, NoWork, account, db, Traded
  <2>2. fromId' \in 0..LastTradeId + 1 /\ pages' \in 0..MaxPages
    BY <2>1
  <2> QED
    BY <2>1, <2>2, NotSeenTyped, EmptyBookTyped DEF BooksTypeOK
<1>6. CASE ReplayTrade
  <2>1. /\ Replayed \in left /\ Replayed \in Traded
        /\ trade[Replayed] \in Kind
    BY <1>6, ReplayedTyped DEF ReplayTrade
  <2>2. book' \in Book
    <3>1. trade[Replayed].side \in {"BUY", "SELL"}
      BY <2>1 DEF Kind
    <3> QED
      BY <1>6, <2>1, <3>1, BoughtTyped, SoldTyped
         DEF ReplayTrade, Booked, BooksTypeOK
  <2> QED
    BY <1>6, <2>1, <2>2
       DEF ReplayTrade, Stored, BooksTypeOK, account, reading, Traded
<1>7. CASE UpsertPosition
  BY <1>7 DEF UpsertPosition, Agrees, BooksTypeOK, account, reading, Traded, Book
<1>8. CASE UNCHANGED vars
  BY <1>8 DEF vars, BooksTypeOK, account, db, reading, Traded
<1>9. CASE FetchAccount
  <2>1. /\ UNCHANGED <<trade, moves, fills, position, got, fromId, pages, late, book>>
        /\ Traded' = Traded /\ left' = got /\ pc' = "ledger"
        /\ seen' = [balance |-> Balance, moves |-> moves]
    BY <1>9 DEF FetchAccount, account, db, reading, Traded
  <2>2. Balance \in Int
    BY BalanceTyped
  <2>3. seen' \in [balance : Int, moves : [in : 0..MaxMoves, out : 0..MaxMoves]]
    BY <2>1, <2>2 DEF BooksTypeOK
  <2> QED
    BY <2>1, <2>3 DEF BooksTypeOK
<1> QED
  BY <1>1, <1>2, <1>3, <1>4, <1>5, <1>6, <1>7, <1>8, <1>9
     DEF Next, AccountNext, Reconcile

\* Every reachable state of the books is well-typed: fractions keep a positive
\* denominator, and inventory and position never go below zero.
THEOREM BooksTyped == Spec => []BooksTypeOK
BY BooksInit, BooksNext, PTL DEF Spec

---------------------------------------------------------------------------
(* While the pages are read, what was read is the history below fromId,    *)
(* and fromId follows a trade, so that later trades come at or behind it.  *)

ReadSoFar ==
  /\ trade \in [TradeIds -> Kinds \union {NoTrade}]
  /\ fromId \in Nat
  /\ fromId = 0 \/ fromId - 1 \in Traded
  /\ pc = "page" => got = {i \in Traded : i < fromId}
  /\ pc = "off" => fromId = 0 /\ got = {}

LEMMA ReadInit == Init => ReadSoFar
BY DEF Init, ReadSoFar, Traded

\* One page: no trade at or above fromId and at most its last is left out.
LEMMA PageKeeps ==
  ASSUME ReadSoFar, FetchPage
  PROVE  ReadSoFar' /\ got' = {i \in Traded : i < fromId'}
<1> DEFINE batch == Page(fromId)
<1>1. batch \subseteq Traded /\ \A i \in batch : i >= fromId
  BY DEF Page
<1>2. UNCHANGED trade /\ Traded' = Traded
  BY DEF FetchPage, account, Traded
<1>3. CASE batch = {}
  BY <1>2, <1>3 DEF FetchPage, ReadSoFar
<1>4. CASE batch # {}
  <2>1. Max(batch) \in batch /\ \A i \in batch : i <= Max(batch)
    <3>1. batch \subseteq 0..LastTradeId
      BY <1>1 DEF Traded, TradeIds
    <3> HIDE DEF batch
    <3> QED BY <1>4, <3>1, MaxIsGreatest, BooksAssumption
  <2>2. fromId' = Max(batch) + 1 /\ Max(batch) \in Nat /\ fromId \in Nat
    BY <1>1, <1>4, <2>1, TradedTyped DEF FetchPage, ReadSoFar
  <2>3. \A j \in Traded : j >= fromId /\ j <= Max(batch) => j \in batch
    BY <2>1, <2>2, PageIsPrefix
  <2>4. \A j \in Traded : j \in Nat
    BY TradedTyped
  <2>5. got' = {i \in Traded : i < fromId'}
    <3>1. got' = {i \in Traded : i < fromId} \union batch
      BY DEF FetchPage, ReadSoFar
    <3> HIDE DEF batch
    <3> QED BY <1>1, <2>1, <2>2, <2>3, <2>4, <3>1
  <2>6. fromId' \in Nat /\ fromId' - 1 \in Traded
    BY <1>1, <2>1, <2>2
  <2> QED
    BY <1>2, <2>5, <2>6 DEF ReadSoFar, FetchPage
<1> QED
  BY <1>3, <1>4

\* The last page completes the history.
LEMMA LastPageCompletes ==
  ASSUME ReadSoFar, FetchPage, pc' # "page"
  PROVE  got' = Traded'
<1>1. Page(fromId) = {k \in Traded : k >= fromId}
  BY ShortPageIsLast DEF FetchPage, ReadSoFar
<1>2. \A k \in Traded : k \in Nat
  BY TradedTyped
<1> QED
  BY <1>1, <1>2 DEF FetchPage, ReadSoFar, account, Traded

\* A new trade lies above all others and so not below fromId.
LEMMA TradeKeeps ==
  ASSUME ReadSoFar, Trades
  PROVE  /\ ReadSoFar'
         /\ \E i \in TradeIds : /\ \A j \in Traded : j < i
                                /\ Traded' = Traded \union {i}
<1>1. PICK i \in TradeIds, k \in Kinds :
        /\ \A j \in Traded : j < i
        /\ trade' = [trade EXCEPT ![i] = k]
  BY DEF Trades
<1>2. Traded' = Traded \union {i}
  BY <1>1, NoTradeIsNoKind DEF Traded, ReadSoFar
<1>3. i \in Nat /\ i >= fromId /\ fromId \in Nat
  BY <1>1, TradedTyped DEF ReadSoFar
<1>4. UNCHANGED <<pc, fromId, got>>
  BY DEF Trades, reading
<1>5. trade' \in [TradeIds -> Kinds \union {NoTrade}]
  BY <1>1 DEF ReadSoFar
<1> QED
  BY <1>1, <1>2, <1>3, <1>4, <1>5 DEF ReadSoFar

\* The other steps, which neither trade nor read.
Elsewhere ==
  \/ Deposit \/ Withdraw \/ FetchAccount \/ ReplayTrade
  \/ UpsertPosition

Gives == Ends \/ TooManyPages \/ TradeUnexplained \/ BalanceUnexplained

LEMMA ReadNext == ReadSoFar /\ [Next]_vars => ReadSoFar'
<1> SUFFICES ASSUME ReadSoFar, [Next]_vars PROVE ReadSoFar'
  OBVIOUS
<1>1. CASE Trades
  BY <1>1, TradeKeeps
<1>2. CASE FetchPage
  BY <1>2, PageKeeps
<1>3. CASE Elsewhere
  BY <1>3 DEF Elsewhere, Deposit, Withdraw, FetchAccount, ReplayTrade,
     UpsertPosition, account, reading, ReadSoFar, Traded
<1>4. CASE Gives
  BY <1>4 DEF Gives, Ends, TooManyPages, TradeUnexplained, BalanceUnexplained,
     NoWork, account, reading, ReadSoFar, Traded
<1>5. CASE Start
  <2>1. Traded' = Traded /\ \A i \in Traded : i \in Nat
    BY <1>5, TradedTyped DEF Start, account, Traded
  <2> QED
    BY <1>5, <2>1 DEF Start, account, reading, ReadSoFar
<1>6. CASE UNCHANGED vars
  BY <1>6 DEF vars, account, reading, ReadSoFar, Traded
<1> QED
  BY <1>1, <1>2, <1>3, <1>4, <1>5, <1>6
     DEF Next, AccountNext, Reconcile, Elsewhere, Gives

---------------------------------------------------------------------------
(* The refinement, step by step.                                           *)

LEMMA ReadMapsInit == Init => OneRead!Init
BY DEF Init, OneRead!Init, Traded, Done

LEMMA ReadMapsNext ==
  ReadSoFar /\ [Next]_vars => [OneRead!Next]_(OneRead!vars)
<1> SUFFICES ASSUME ReadSoFar, [Next]_vars
             PROVE  OneRead!Next \/ UNCHANGED OneRead!vars
  OBVIOUS
<1>1. CASE Trades
  <2>1. UNCHANGED <<pc, got>>
    BY <1>1 DEF Trades, reading
  <2> QED
    BY <1>1, <2>1, TradeKeeps DEF OneRead!Next, OneRead!Trade, Done
<1>2. CASE FetchPage
  <2>1. Traded' = Traded /\ pc = "page" /\ pc' \in {"page", "account"}
    BY <1>2 DEF FetchPage, account, Traded
  <2>2. CASE pc' = "page"
    BY <2>1, <2>2 DEF OneRead!vars, Done
  <2>3. CASE pc' = "account"
    BY <1>2, <2>1, <2>3, LastPageCompletes
       DEF OneRead!Next, OneRead!Read, Done
  <2> QED
    BY <2>1, <2>2, <2>3
<1>3. CASE Elsewhere
  <2>1. Traded' = Traded /\ got' = got
    BY <1>3 DEF Elsewhere, Deposit, Withdraw, FetchAccount, ReplayTrade,
       UpsertPosition, account, reading, Traded
  <2>2. pc' = pc \/ (pc \in {"account", "ledger"} /\ pc' \in {"ledger", "passed"})
    BY <1>3 DEF Elsewhere, Deposit, Withdraw, FetchAccount, ReplayTrade,
       UpsertPosition
  <2> QED
    BY <2>1, <2>2 DEF OneRead!vars, Done
<1>4. CASE Gives
  <2>1. Traded' = Traded
    BY <1>4 DEF Gives, Ends, TooManyPages, TradeUnexplained,
       BalanceUnexplained, account, Traded
  <2>2. pc' \in {"off", "refused"}
    BY <1>4 DEF Gives, Ends, TooManyPages, TradeUnexplained, BalanceUnexplained
  <2> QED
    BY <2>1, <2>2 DEF OneRead!Next, OneRead!Leave, OneRead!vars, Done
<1>5. CASE Start
  BY <1>5 DEF Start, account, OneRead!Next, OneRead!Begin, Traded, Done
<1>6. CASE UNCHANGED vars
  BY <1>6 DEF vars, account, reading, OneRead!vars, Traded, Done
<1> QED
  BY <1>1, <1>2, <1>3, <1>4, <1>5, <1>6
     DEF Next, AccountNext, Reconcile, Elsewhere, Gives

\* The pages of the trade history, answered one after the other while trades
\* are made, crashes included, are one read of the whole history.
THEOREM PagedReadIsAtomic == Spec => ReadIsAtomic
<1>1. Spec => []ReadSoFar
  BY ReadInit, ReadNext, PTL DEF Spec
<1> QED
  BY <1>1, ReadMapsInit, ReadMapsNext, PTL DEF Spec, ReadIsAtomic, OneRead!Spec

---------------------------------------------------------------------------
(* The inductive invariant behind the four properties of the books.        *)

\* What was read has no hole, and holds what earlier attempts stored; the
\* pages of a read that goes on were full.
HistoryKept ==
  /\ \A i \in got, j \in Traded : j < i => j \in got
  /\ Done => fills \subseteq got
  /\ pc = "account" /\ ~late => got = Traded
  /\ pc = "off" => pages = 0
  /\ pc = "page" => Cardinality(got) >= pages * PageSize

\* Without deposits and withdrawals every prefix of the history is covered;
\* the balance seen is the history read and what was moved.
BalanceKept ==
  /\ Unmoved(moves) => NeverShort(trade, Traded)
  /\ pc = "ledger" /\ Unmoved(seen.moves) => NeverShort(trade, got)
  /\ pc \in {"ledger", "passed"} /\ ~late =>
       seen.balance = QtyIn(trade, got) + seen.moves.in - seen.moves.out

\* The book accounts for the trades replayed, which are the oldest ones read
\* and on record; the position stored accounts for all that is on record.
BookKept ==
  /\ pc \in {"off", "page", "account"} => left = {} /\ book = EmptyBook
  /\ pc = "ledger" =>
       /\ got \ left \subseteq fills
       /\ \A i \in got \ left, j \in left : i < j
       /\ Accounts(book, trade, got \ left)
  /\ pc = "passed" =>
       /\ fills = got
       /\ Accounts(position, trade, got)
       /\ position.qty = seen.balance

LedgerInv == HistoryKept /\ BalanceKept /\ BookKept /\ RefusedForAReason

LEMMA LedgerInit == Init => LedgerInv
<1> SUFFICES ASSUME Init PROVE LedgerInv
  OBVIOUS
<1>1. Traded = {} /\ got = {} /\ pc = "off" /\ left = {} /\ book = EmptyBook
  BY DEF Init, Traded
<1>2. pages = 0
  BY DEF Init
<1> QED
  BY <1>1, <1>2 DEF LedgerInv, HistoryKept, BalanceKept, BookKept,
     RefusedForAReason, NeverShort, Done

\* A trade goes behind all others and leaves them what they are.
LEMMA TradeExtends ==
  ASSUME BooksTypeOK, Trades
  PROVE  \E i \in TradeIds, k \in Kinds :
           /\ i \notin Traded /\ \A j \in Traded : j < i
           /\ Balance + NetQty(k) >= 0
           /\ Traded' = Traded \union {i} /\ trade'[i] = k
           /\ \A j \in Traded : trade'[j] = trade[j]
<1>1. PICK i \in TradeIds, k \in Kinds :
        /\ \A j \in Traded : j < i
        /\ Balance + NetQty(k) >= 0
        /\ trade' = [trade EXCEPT ![i] = k]
  BY DEF Trades
<1>2. trade \in [TradeIds -> Kinds \union {NoTrade}]
  BY DEF BooksTypeOK
<1>3. i \notin Traded /\ Traded' = Traded \union {i}
  BY <1>1, <1>2, NoTradeIsNoKind, TradedTyped DEF Traded
<1>4. trade'[i] = k /\ \A j \in Traded : trade'[j] = trade[j]
  BY <1>1, <1>2, <1>3 DEF Traded
<1> QED
  BY <1>1, <1>3, <1>4

\* The prefixes of a longer history are those of the shorter one, and all of
\* it: the account is never short if its balance is never below zero.
LEMMA NeverShortExtends ==
  ASSUME BooksTypeOK, Unmoved(moves), NeverShort(trade, Traded),
         NEW h, NEW i \in Nat, i \notin Traded, \A j \in Traded : j < i,
         h[i] \in Kind, Balance + NetQty(h[i]) >= 0,
         \A j \in Traded : h[j] = trade[j]
  PROVE  NeverShort(h, Traded \union {i})
<1> DEFINE T == Traded \union {i}
<1>1. Traded \subseteq Nat /\ IsFiniteSet(Traded) /\ \A j \in T : h[j] \in Kind
  BY TradedTyped, RestFinite, TradesOfAKind
<1>2. QtyIn(h, UpTil(T, i)) >= 0
  <2>1. UpTil(T, i) = T
    <3>1. \A j \in T : j <= i
      BY <1>1
    <3> HIDE DEF T
    <3> QED BY <3>1 DEF UpTil
  <2>2. QtyIn(h, T) = QtyIn(h, Traded) + NetQty(h[i])
    BY <1>1, SumsAdd
  <2>3. QtyIn(h, Traded) = QtyIn(trade, Traded)
    BY SumsKept
  <2>4. Balance = QtyIn(trade, Traded)
    <3>1. QtyIn(trade, Traded) \in Int
      BY BalanceTyped
    <3> QED
      BY <3>1, TradesOfAKind DEF Balance, NetQtyOf, QtyIn, Unmoved
  <2> HIDE DEF T
  <2> QED
    BY <2>1, <2>2, <2>3, <2>4
<1>3. ASSUME NEW j \in Traded
      PROVE  QtyIn(h, UpTil(T, j)) >= 0
  <2>1. UpTil(T, j) = UpTil(Traded, j)
    <3>1. ~(i <= j)
      BY <1>1
    <3> QED BY <3>1 DEF UpTil
  <2>2. QtyIn(h, UpTil(Traded, j)) = QtyIn(trade, UpTil(Traded, j))
    <3>1. \A S : (\A x \in S : h[x] = trade[x])
                => \A x \in S : QtyIn(h, UpTil(S, x)) = QtyIn(trade, UpTil(S, x))
      BY SumsKept
    <3> QED BY <1>3, <3>1
  <2> HIDE DEF T
  <2> QED
    BY <2>1, <2>2 DEF NeverShort
<1> QED
  BY <1>2, <1>3 DEF NeverShort

LEMMA TradesLedger ==
  ASSUME BooksTypeOK, LedgerInv, Trades
  PROVE  LedgerInv'
<1>1. PICK i \in TradeIds, k \in Kinds :
           /\ i \notin Traded /\ \A j \in Traded : j < i
           /\ Balance + NetQty(k) >= 0
           /\ Traded' = Traded \union {i} /\ trade'[i] = k
           /\ \A j \in Traded : trade'[j] = trade[j]
  BY TradeExtends
<1>2. /\ UNCHANGED <<moves, fills, position, pc, pages, got, seen, left, book>>
      /\ late' = (late \/ pc = "account")
  BY DEF Trades, db, reading
<1>3. /\ got \subseteq Traded /\ left \subseteq got /\ Traded \subseteq Nat
      /\ i \in Nat /\ k \in Kind
  BY TradesOfAKind, TradedTyped, BooksAssumption
<1>4. \A S : S \subseteq Traded => \A j \in S : trade[j] = trade'[j]
  BY <1>1
<1>5. HistoryKept'
  <2>1. \A x \in got, j \in Traded' : j < x => j \in got
    BY <1>1, <1>3 DEF LedgerInv, HistoryKept
  <2> QED
    BY <1>2, <2>1 DEF LedgerInv, HistoryKept, Done
<1>6. BalanceKept'
  <2>1. Unmoved(moves) => NeverShort(trade', Traded')
    BY <1>1, <1>3, NeverShortExtends DEF LedgerInv, BalanceKept
  <2>2. /\ NeverShort(trade, got) <=> NeverShort(trade', got)
        /\ QtyIn(trade, got) = QtyIn(trade', got)
    <3>1. \A x \in got : trade[x] = trade'[x]
      BY <1>3, <1>4
    <3>2. \A h : (\A x \in got : trade[x] = h[x])
            => /\ NeverShort(trade, got) <=> NeverShort(h, got)
               /\ QtyIn(trade, got) = QtyIn(h, got)
      BY SumsKept
    <3> QED BY <3>1, <3>2
  <2> QED
    BY <1>2, <2>1, <2>2 DEF LedgerInv, BalanceKept
<1>7. BookKept'
  <2>1. \A S, b : S \subseteq got /\ Accounts(b, trade, S) => Accounts(b, trade', S)
    BY <1>3, <1>4, AccountsKept
  <2> QED
    BY <1>2, <2>1 DEF LedgerInv, BookKept
<1>8. RefusedForAReason'
  BY <1>2, <1>3, <1>4 DEF LedgerInv, RefusedForAReason
<1> QED
  BY <1>5, <1>6, <1>7, <1>8 DEF LedgerInv

\* One page more is one full page more, or the last.
LEMMA FetchPageLedger ==
  ASSUME BooksTypeOK, ReadSoFar, LedgerInv, FetchPage
  PROVE  LedgerInv'
<1> DEFINE batch == Page(fromId)
<1>1. /\ UNCHANGED <<trade, moves, fills, position, seen, late, left, book>>
      /\ Traded' = Traded
      /\ pc = "page" /\ pc' \in {"page", "account"}
      /\ pages' = pages + 1 /\ got' = got \union batch
  BY DEF FetchPage, account, db, Traded
<1>2. /\ got' = {i \in Traded : i < fromId'} /\ Traded \subseteq Nat
      /\ fromId' \in Nat
  BY PageKeeps, TradedTyped DEF ReadSoFar
<1>3. pc' = "account" => got' = Traded
  BY <1>1, LastPageCompletes
<1>4. ASSUME pc' = "page"
      PROVE  Cardinality(got') >= pages' * PageSize
  <2>1. batch \subseteq Traded /\ got \subseteq Traded /\ got \cap batch = {}
    <3>1. /\ \A i \in batch : i \in Traded /\ i >= fromId
          /\ got = {i \in Traded : i < fromId}
      BY <1>1 DEF Page, ReadSoFar
    <3>2. fromId \in Nat /\ \A i \in Traded : i \in Nat
      BY <1>2 DEF ReadSoFar
    <3>3. \A i \in batch : i \notin got
      <4> HIDE DEF batch
      <4> QED BY <3>1, <3>2
    <3> QED BY <3>1, <3>3
  <2>2. /\ IsFiniteSet(batch) /\ Cardinality(batch) \in Nat
        /\ IsFiniteSet(got) /\ Cardinality(got) \in Nat
    <3> HIDE DEF batch
    <3> QED BY <2>1, RestFinite
  <2>3. Cardinality(got \union batch) = Cardinality(got) + Cardinality(batch)
    <3> HIDE DEF batch
    <3>1. Cardinality(got \cap batch) = 0
      BY <2>1, FS_EmptySet
    <3>2. Cardinality(got \union batch)
            = Cardinality(got) + Cardinality(batch) - Cardinality(got \cap batch)
      BY <2>2, FS_Union
    <3> QED BY <2>2, <3>1, <3>2
  <2>4. Cardinality(batch) >= PageSize
    BY <1>4, <2>2, BooksAssumption DEF FetchPage
  <2>5. /\ pages \in Nat /\ PageSize \in Nat
        /\ Cardinality(got) >= pages * PageSize
    BY <1>1, BooksAssumption DEF BooksTypeOK, LedgerInv, HistoryKept
  <2>6. (pages + 1) * PageSize = pages * PageSize + PageSize
    BY <2>5
  <2> HIDE DEF batch
  <2> QED
    BY <1>1, <2>2, <2>3, <2>4, <2>5, <2>6
<1>5. HistoryKept'
  <2>1. fills \subseteq Traded
    BY TradesOfAKind
  <2>2. \A i \in got', j \in Traded' : j < i => j \in got'
    BY <1>1, <1>2
  <2> HIDE DEF batch
  <2> QED
    BY <1>1, <1>3, <1>4, <2>1, <2>2 DEF HistoryKept, Done
<1>6. BalanceKept' /\ BookKept' /\ RefusedForAReason'
  BY <1>1 DEF LedgerInv, BalanceKept, BookKept, RefusedForAReason
<1> QED
  BY <1>5, <1>6 DEF LedgerInv

\* The balance is read: it is the history and what was moved, unless a trade
\* came in between.
LEMMA FetchAccountLedger ==
  ASSUME BooksTypeOK, LedgerInv, FetchAccount
  PROVE  LedgerInv'
<1>1. /\ UNCHANGED <<trade, moves, fills, position, pages, got, late, book>>
      /\ Traded' = Traded /\ pc = "account" /\ pc' = "ledger"
      /\ left' = got /\ seen' = [balance |-> Balance, moves |-> moves]
  BY DEF FetchAccount, account, db, reading, Traded
<1>2. got \subseteq Traded /\ Traded \subseteq Nat
  BY TradesOfAKind, TradedTyped
<1>3. HistoryKept'
  BY <1>1 DEF LedgerInv, HistoryKept, Done
<1>4. BalanceKept'
  <2>1. ASSUME NeverShort(trade, Traded) PROVE NeverShort(trade, got)
    <3>1. ASSUME NEW i \in got PROVE UpTil(got, i) = UpTil(Traded, i)
      <4>1. ASSUME NEW j \in Traded, j <= i PROVE j \in got
        <5>1. j = i \/ j < i
          BY <1>2, <4>1
        <5> QED BY <5>1 DEF LedgerInv, HistoryKept
      <4> QED
        BY <1>2, <4>1 DEF UpTil
    <3> QED
      BY <1>2, <2>1, <3>1 DEF NeverShort
  <2>2. ~late => Balance = QtyIn(trade, got) + moves.in - moves.out
    BY <1>1 DEF LedgerInv, HistoryKept, Balance, NetQtyOf, QtyIn
  <2> QED
    BY <1>1, <2>1, <2>2 DEF LedgerInv, BalanceKept
<1>5. BookKept'
  <2>1. got \ got = {} /\ book = EmptyBook
    BY <1>1 DEF LedgerInv, BookKept
  <2> QED
    BY <1>1, <2>1, EmptyAccounts DEF BookKept
<1>6. RefusedForAReason'
  BY <1>1 DEF RefusedForAReason
<1> QED
  BY <1>3, <1>4, <1>5, <1>6 DEF LedgerInv

\* Replaying the oldest trade left.
LEMMA ReplayedIsNext ==
  ASSUME BooksTypeOK, LedgerInv, pc = "ledger", left # {}
  PROVE  /\ Replayed \in left /\ Replayed \in got /\ Replayed \notin got \ left
         /\ \A j \in left \ {Replayed} : Replayed < j
         /\ trade[Replayed] \in Kind
<1>1. left \subseteq got /\ got \subseteq Traded /\ Traded \subseteq Nat
  BY TradesOfAKind, TradedTyped
<1>2. PICK x \in left : \A y \in left : x <= y
  BY <1>1, LeastExists
<1>3. Replayed \in left /\ \A y \in left : Replayed <= y
  BY <1>2 DEF Replayed, Min
<1> QED
  BY <1>1, <1>3, TradesOfAKind

LEMMA ReplayTradeLedger ==
  ASSUME BooksTypeOK, LedgerInv, ReplayTrade
  PROVE  LedgerInv'
<1> DEFINE r == Replayed
<1>1. /\ UNCHANGED <<trade, moves, position, pages, got, seen, late, pc>>
      /\ Traded' = Traded /\ pc = "ledger" /\ left # {}
      /\ ~Unexplained(book, trade[r])
      /\ book' = Booked(book, trade[r])
      /\ fills' = fills \union {r} /\ left' = left \ {r}
  BY DEF ReplayTrade, Stored, account, reading, Traded
<1>2. /\ r \in left /\ r \in got /\ r \notin got \ left
      /\ \A j \in left \ {r} : r < j
      /\ left \subseteq got /\ got \subseteq Traded
  BY <1>1, ReplayedIsNext, TradesOfAKind
<1>3. got \ left' = (got \ left) \union {r}
  BY <1>1, <1>2
<1>4. HistoryKept'
  BY <1>1, <1>2 DEF LedgerInv, HistoryKept, Done
<1>5. BookKept'
  <2>1. Accounts(book', trade, (got \ left) \union {r})
    <3>1. IsFiniteSet(got \ left) /\ \A i \in (got \ left) \union {r} : trade[i] \in Kind
      BY <1>2, RestFinite, TradesOfAKind
    <3>2. Accounts(book, trade, got \ left) /\ book \in Book
      BY <1>1 DEF LedgerInv, BookKept, BooksTypeOK
    <3> HIDE DEF r
    <3> QED BY <1>1, <1>2, <3>1, <3>2, BookedAccounts
  <2>2. \A i \in got \ left', j \in left' : i < j
    BY <1>1, <1>2, <1>3 DEF LedgerInv, BookKept
  <2>3. got \ left' \subseteq fills'
    BY <1>1, <1>3 DEF LedgerInv, BookKept
  <2> HIDE DEF r
  <2> QED
    BY <1>1, <1>3, <2>1, <2>2, <2>3 DEF BookKept
<1>6. BalanceKept' /\ RefusedForAReason'
  BY <1>1 DEF LedgerInv, BalanceKept, RefusedForAReason
<1> QED
  BY <1>4, <1>5, <1>6 DEF LedgerInv

\* A history without deposits is refused at no sale: what was bought before
\* covers it.
LEMMA TradeUnexplainedLedger ==
  ASSUME BooksTypeOK, LedgerInv, TradeUnexplained
  PROVE  LedgerInv'
<1> DEFINE r == Replayed
           before == got \ left
<1>1. /\ UNCHANGED <<trade, moves, fills, position, pages, got, seen, late, left, book>>
      /\ Traded' = Traded /\ pc = "ledger" /\ pc' = "refused" /\ left # {}
      /\ Unexplained(book, trade[r])
  BY DEF TradeUnexplained, account, db, reading, Traded
<1>2. /\ r \in left /\ r \in got /\ r \notin before
      /\ \A j \in left \ {r} : r < j
      /\ left \subseteq got /\ got \subseteq Traded /\ Traded \subseteq Nat
      /\ trade[r] \in Kind
  BY <1>1, ReplayedIsNext, TradesOfAKind, TradedTyped
<1>3. ASSUME ~Unbookable(trade[r]), Unmoved(seen.moves)
      PROVE  FALSE
  <2>1. trade[r].side = "SELL" /\ Disposed(trade[r]) > book.qty
    BY <1>1, <1>3 DEF Unexplained
  <2>2. UpTil(got, r) = before \union {r}
    <3>1. \A i \in before : i < r
      BY <1>1, <1>2 DEF LedgerInv, BookKept
    <3>2. before \subseteq Nat /\ left \subseteq Nat /\ got = before \union left
      BY <1>2
    <3> HIDE DEF r, before
    <3>3. \A i \in before : i <= r
      BY <1>2, <3>1, <3>2
    <3>4. \A i \in left \ {r} : ~(i <= r)
      BY <1>2, <3>2
    <3>5. r <= r
      BY <1>2, <3>2
    <3> QED
      BY <1>2, <3>2, <3>3, <3>4, <3>5 DEF UpTil
  <2>3. QtyIn(trade, before \union {r}) >= 0
    <3>1. NeverShort(trade, got)
      BY <1>1, <1>3 DEF LedgerInv, BalanceKept
    <3> HIDE DEF r, before
    <3> QED BY <1>2, <2>2, <3>1 DEF NeverShort
  <2>4. /\ IsFiniteSet(before)
        /\ \A i \in before \union {r} : trade[i] \in Kind
    BY <1>2, RestFinite, TradesOfAKind
  <2>5. /\ QtyIn(trade, before \union {r}) = QtyIn(trade, before) + NetQty(trade[r])
        /\ QtyIn(trade, before) \in Int
    <3> HIDE DEF r, before
    <3> QED BY <1>2, <2>4, SumsAdd, SumsTyped
  <2>6. book.qty = QtyIn(trade, before)
    BY <1>1 DEF LedgerInv, BookKept, Accounts
  <2>7. NetQty(trade[r]) = -Disposed(trade[r]) /\ Disposed(trade[r]) \in Int
    BY <1>2, <2>1, EmptyBookTyped, BookParts DEF NetQty, Disposed
  <2> HIDE DEF r, before
  <2> QED
    BY <2>1, <2>3, <2>5, <2>6, <2>7
<1>4. HistoryKept' /\ BalanceKept' /\ BookKept'
  BY <1>1 DEF LedgerInv, HistoryKept, BalanceKept, BookKept, Done
<1>5. RefusedForAReason'
  <2>1. seen.moves.in + seen.moves.out # 0 => seen.moves.in + seen.moves.out > 0
    BY TradesOfAKind
  <2> QED
    BY <1>1, <1>2, <1>3, <2>1 DEF RefusedForAReason, Unmoved
<1> QED
  BY <1>4, <1>5 DEF LedgerInv

LEMMA UpsertPositionLedger ==
  ASSUME BooksTypeOK, LedgerInv, UpsertPosition
  PROVE  LedgerInv'
<1>1. /\ UNCHANGED <<trade, moves, fills, pages, got, seen, late, left, book>>
      /\ Traded' = Traded /\ pc = "ledger" /\ pc' = "passed"
      /\ left = {} /\ book.qty = seen.balance
      /\ position' = [book EXCEPT !.qty = seen.balance]
  BY DEF UpsertPosition, Agrees, account, reading, Traded
<1>2. position' = book
  BY <1>1 DEF BooksTypeOK, Book
<1>3. got \ left = got /\ fills = got
  BY <1>1 DEF LedgerInv, HistoryKept, BookKept, Done
<1>4. HistoryKept' /\ BalanceKept'
  BY <1>1 DEF LedgerInv, HistoryKept, BalanceKept, Done
<1>5. BookKept'
  BY <1>1, <1>2, <1>3 DEF LedgerInv, BookKept
<1> QED
  BY <1>1, <1>4, <1>5 DEF LedgerInv, RefusedForAReason

\* An account that was only traded agrees with its history.
LEMMA BalanceUnexplainedLedger ==
  ASSUME BooksTypeOK, LedgerInv, BalanceUnexplained
  PROVE  LedgerInv'
<1>1. /\ UNCHANGED <<trade, moves, fills, position, pages, got, seen, late, left, book>>
      /\ Traded' = Traded /\ pc = "ledger" /\ pc' = "refused"
      /\ left = {} /\ book.qty # seen.balance
  BY DEF BalanceUnexplained, Agrees, account, db, reading, Traded
<1>2. HistoryKept' /\ BalanceKept' /\ BookKept'
  BY <1>1 DEF LedgerInv, HistoryKept, BalanceKept, BookKept, Done
<1>3. late \/ seen.moves.in + seen.moves.out > 0
  <2>1. got \ left = got
    BY <1>1
  <2>2. book.qty = QtyIn(trade, got) /\ book.qty \in Int
    BY <1>1, <2>1 DEF LedgerInv, BookKept, Accounts, BooksTypeOK, Book
  <2>3. ~late => seen.balance = QtyIn(trade, got) + seen.moves.in - seen.moves.out
    BY <1>1 DEF LedgerInv, BalanceKept
  <2> QED
    BY <1>1, <2>2, <2>3, TradesOfAKind
<1> QED
  BY <1>1, <1>2, <1>3 DEF LedgerInv, RefusedForAReason

\* A read that comes to its limit has read as many full pages.
LEMMA TooManyPagesLedger ==
  ASSUME BooksTypeOK, LedgerInv, TooManyPages
  PROVE  LedgerInv'
<1>1. /\ UNCHANGED <<trade, moves, fills, position, pages, got, seen, late, left, book>>
      /\ Traded' = Traded /\ pc = "page" /\ pc' = "refused" /\ pages = MaxPages
  BY DEF TooManyPages, account, db, reading, Traded
<1>2. Cardinality(got) >= PageSize * MaxPages
  BY <1>1, BooksAssumption DEF LedgerInv, HistoryKept
<1> QED
  BY <1>1, <1>2 DEF LedgerInv, HistoryKept, BalanceKept, BookKept, Done,
     RefusedForAReason

LEMMA LedgerNext ==
  BooksTypeOK /\ ReadSoFar /\ LedgerInv /\ [Next]_vars => LedgerInv'
<1> SUFFICES ASSUME BooksTypeOK, ReadSoFar, LedgerInv, [Next]_vars
             PROVE  LedgerInv'
  OBVIOUS
<1>1. CASE Deposit \/ Withdraw
  <2>1. /\ UNCHANGED <<trade, fills, position, pc, pages, got, seen, late, left, book>>
        /\ Traded' = Traded
    BY <1>1 DEF Deposit, Withdraw, db, reading, Traded
  <2>2. ~Unmoved(moves')
    BY <1>1 DEF Deposit, Withdraw, Unmoved, BooksTypeOK
  <2> QED
    BY <2>1, <2>2 DEF LedgerInv, HistoryKept, BalanceKept, BookKept, Done,
       RefusedForAReason
<1>2. CASE Start
  <2>1. /\ UNCHANGED <<trade, moves, fills, position, pages, got, seen, late, left, book>>
        /\ Traded' = Traded /\ pc = "off" /\ pc' = "page"
    BY <1>2 DEF Start, account, db, reading, Traded
  <2>2. got = {} /\ pages = 0
    BY <2>1 DEF ReadSoFar, LedgerInv, HistoryKept
  <2>3. Cardinality(got) >= pages * PageSize
    BY <2>2, FS_EmptySet, BooksAssumption
  <2> QED
    BY <2>1, <2>3 DEF LedgerInv, HistoryKept, BalanceKept, BookKept, Done,
       RefusedForAReason
<1>3. CASE Ends
  <2>1. /\ UNCHANGED <<trade, moves, fills, position>> /\ Traded' = Traded
        /\ pc' = "off" /\ got' = {} /\ pages' = 0 /\ left' = {} /\ book' = EmptyBook
    BY <1>3 DEF Ends, NoWork, account, db, Traded
  <2> QED
    BY <2>1 DEF LedgerInv, HistoryKept, BalanceKept, BookKept, Done,
       RefusedForAReason
<1>4. CASE UNCHANGED vars
  BY <1>4 DEF vars, account, db, reading, Traded, LedgerInv, HistoryKept,
     BalanceKept, BookKept, Done, RefusedForAReason
<1> QED
  BY <1>1, <1>2, <1>3, <1>4, TradesLedger, FetchPageLedger, FetchAccountLedger,
     ReplayTradeLedger, TradeUnexplainedLedger, UpsertPositionLedger,
     BalanceUnexplainedLedger, TooManyPagesLedger
     DEF Next, AccountNext, Reconcile

LEMMA LedgerAlways == Spec => [](BooksTypeOK /\ LedgerInv)
<1>1. Spec => []ReadSoFar
  BY ReadInit, ReadNext, PTL DEF Spec
<1> QED
  BY <1>1, BooksTyped, LedgerInit, LedgerNext, PTL DEF Spec

\* A startup passes only if what was paid in and out adds up to nothing,
\* unless a trade came between the last page and the balance.
THEOREM PassedExplained == Spec => []PassedIsExplained
<1>1. BooksTypeOK /\ LedgerInv => PassedIsExplained
  <2> SUFFICES ASSUME BooksTypeOK, LedgerInv, pc = "passed", ~late
               PROVE  seen.moves.in = seen.moves.out
    BY DEF PassedIsExplained
  <2>1. /\ seen.balance = QtyIn(trade, got) + seen.moves.in - seen.moves.out
        /\ seen.balance = QtyIn(trade, got)
    BY DEF LedgerInv, BalanceKept, BookKept, Accounts
  <2>2. QtyIn(trade, got) \in Int
    <3>1. IsFiniteSet(got) /\ \A i \in got : trade[i] \in Kind
      BY TradesOfAKind, RestFinite
    <3> QED BY <3>1, SumsTyped
  <2>3. seen.moves.in \in Nat /\ seen.moves.out \in Nat
    BY TradesOfAKind
  <2>4. QtyIn(trade, got) = QtyIn(trade, got) + seen.moves.in - seen.moves.out
    BY <2>1
  <2>5. \A q \in Int : \A i, o \in Nat : q = q + i - o => i = o
    OBVIOUS
  <2> QED
    BY <2>2, <2>3, <2>4, <2>5
<1> QED
  BY <1>1, LedgerAlways, PTL

\* A startup is refused only for a reason: whatever the pages, prices,
\* commissions that leave something of a purchase, and earlier attempts, an
\* account that was only traded is accepted.
THEOREM RefusedWithReason == Spec => []RefusedForAReason
<1>1. LedgerInv => RefusedForAReason
  BY DEF LedgerInv
<1> QED
  BY <1>1, LedgerAlways, PTL

\* The position accepted is what the table of fills adds up to.
THEOREM FillsAccounted == Spec => []FillsAddUp
<1>1. LedgerInv => FillsAddUp
  BY DEF LedgerInv, BookKept, Accounts, FillsAddUp, NetQtyOf, QtyIn
<1> QED
  BY <1>1, LedgerAlways, PTL

\* Cost basis and profit of the position accepted account for the money of
\* all its fills, or err on one side only.
THEOREM MoneyConserved == Spec => []CashConserved
<1>1. LedgerInv => CashConserved
  BY DEF LedgerInv, BookKept, Accounts, CleanSales, CashConserved, NetCashOf, CashIn
<1> QED
  BY <1>1, LedgerAlways, PTL
=============================================================================
