---------------------------- MODULE ReplayProofs ----------------------------
(***************************************************************************)
(* Proofs about ReplayRun: the orders in a symbol are spaced by the        *)
(* cooldown, no price is later than the clock, and what the broker holds   *)
(* is within the position and the exposure limits.                         *)
(***************************************************************************)
EXTENDS ReplayRun, SumTheorems

\* A stream belongs to one of the symbols.
LEMMA StreamSymbol ==
  ASSUME NEW k \in 1..Len(Streams)
  PROVE  Sym(k) \in Symbols
BY ReplayAssumption DEF Sym

\* The part of the type invariant that the times need.
TimesTyped ==
  /\ clock \in Nat
  /\ stream \in 1..Len(Streams)
  /\ lastEntry \in [Symbols -> Nat \union {Never}]
  /\ markedAt \in [Symbols -> Int]
  /\ entries \subseteq (1..Len(Streams)) \X Nat
  /\ pc = "process" => candle.time = clock

\* The last entry of a symbol is known to the risk engine at least as late as
\* any order the broker filled, and it is not in the future.
LastIsLast ==
  /\ \A i \in entries : /\ lastEntry[Sym(i[1])] # Never
                        /\ i[2] <= lastEntry[Sym(i[1])]
  /\ \A s \in Symbols : lastEntry[s] <= clock

SpacedInv == TimesTyped /\ LastIsLast /\ EntriesSpaced /\ NoPriceFromTheFuture

LEMMA InitSpaced == Init => SpacedInv
<1> SUFFICES ASSUME Init PROVE SpacedInv
    OBVIOUS
<1>1. 1 \in 1..Len(Streams)
    BY ReplayAssumption
<1>2. clock \in Nat
    BY ReplayAssumption DEF Init, Times
<1>3. TimesTyped
    BY <1>1, <1>2 DEF Init, RiskInit, TimesTyped, Never
<1>4. LastIsLast /\ EntriesSpaced /\ NoPriceFromTheFuture
    BY <1>2 DEF Init, RiskInit, LastIsLast, EntriesSpaced, NoPriceFromTheFuture, Never
<1> QED
    BY <1>3, <1>4 DEF SpacedInv

\* A candle that places no order only touches the mark of its symbol.
LEMMA MarkingKeeps ==
  ASSUME SpacedInv,
         pc' = "advance", UNCHANGED <<clock, stream, lastEntry, entries>>,
         markedAt' = markedAt \/ (pc = "process" /\ Marks)
  PROVE  SpacedInv'
<1>1. cur \in Symbols
    BY StreamSymbol DEF SpacedInv, TimesTyped, cur
<1>2. /\ markedAt' \in [Symbols -> Int]
      /\ \A s \in Symbols : markedAt'[s] <= clock
    BY <1>1 DEF SpacedInv, TimesTyped, NoPriceFromTheFuture, Marks
<1>3. TimesTyped' /\ NoPriceFromTheFuture'
    BY <1>2 DEF SpacedInv, TimesTyped, NoPriceFromTheFuture
<1>4. LastIsLast' /\ EntriesSpaced'
    BY DEF SpacedInv, LastIsLast, EntriesSpaced
<1> QED
    BY <1>3, <1>4 DEF SpacedInv

\* An approved order: nothing was entered in the symbol for Cooldown, and the
\* entry time is the clock, whether the order is filled or not.
LEMMA ApprovalKeeps ==
  ASSUME SpacedInv, Approved, Marks, CandleDone,
         entries' = entries \/ entries' = entries \union {id}
  PROVE  SpacedInv'
<1>1. cur \in Symbols
    BY StreamSymbol DEF SpacedInv, TimesTyped, cur
<1>2. pc = "process" /\ candle.time = clock /\ clock \in Nat
    BY DEF Approved, SpacedInv, TimesTyped
<1>3. id = <<stream, clock>> /\ Sym(id[1]) = cur /\ id[2] = clock
    BY <1>2 DEF id, cur
<1>4. lastEntry' = [lastEntry EXCEPT ![cur] = clock]
    BY DEF Approved, Approval
<1>5. /\ pc' = "advance"
      /\ UNCHANGED <<clock, stream>>
      /\ markedAt' = [markedAt EXCEPT ![cur] = clock]
    BY <1>2 DEF CandleDone, Marks
<1>6. TimesTyped'
  <2>1. id \in (1..Len(Streams)) \X Nat
      BY <1>2, <1>3 DEF SpacedInv, TimesTyped
  <2> QED
      BY <1>1, <1>2, <1>4, <1>5, <2>1 DEF SpacedInv, TimesTyped
<1>7. NoPriceFromTheFuture'
    BY <1>1, <1>2, <1>5 DEF SpacedInv, TimesTyped, NoPriceFromTheFuture
<1>8. \A i \in entries : Sym(i[1]) \in Symbols /\ i[2] \in Nat
    BY StreamSymbol DEF SpacedInv, TimesTyped
<1>9. \A s \in Symbols : lastEntry'[s] \in Nat \union {Never} /\ lastEntry'[s] <= clock
    BY <1>1, <1>2, <1>4 DEF SpacedInv, TimesTyped, LastIsLast
<1>10. LastIsLast'
  <2> SUFFICES ASSUME NEW i \in entries'
               PROVE  lastEntry'[Sym(i[1])] # Never /\ i[2] <= lastEntry'[Sym(i[1])]
      BY <1>5, <1>9 DEF LastIsLast
  <2>1. CASE Sym(i[1]) = cur
    <3>1. lastEntry'[cur] = clock
        BY <1>1, <1>4 DEF SpacedInv, TimesTyped
    <3>2. i[2] <= clock
        BY <1>1, <1>2, <1>3, <1>8, <2>1 DEF SpacedInv, LastIsLast, TimesTyped, Never
    <3> QED
        BY <1>2, <2>1, <3>1, <3>2 DEF Never
  <2>2. CASE Sym(i[1]) # cur
    <3>1. i \in entries
        BY <1>3, <2>2
    <3>2. lastEntry'[Sym(i[1])] = lastEntry[Sym(i[1])]
        BY <1>1, <1>4, <1>8, <2>2, <3>1 DEF SpacedInv, TimesTyped
    <3> QED
        BY <3>1, <3>2 DEF SpacedInv, LastIsLast
  <2> QED
      BY <2>1, <2>2
<1>11. ASSUME NEW i \in entries, Sym(i[1]) = cur
       PROVE  clock - i[2] >= Cooldown
  <2>1. CooledDown(cur)
      BY DEF Approved, Approves
  <2>2. lastEntry[cur] # Never /\ i[2] <= lastEntry[cur] /\ lastEntry[cur] \in Nat
      BY <1>1, <1>11 DEF SpacedInv, LastIsLast, TimesTyped
  <2> QED
      BY <1>2, <1>8, <1>11, <2>1, <2>2, RiskAssumption DEF CooledDown
<1>12. EntriesSpaced'
  <2> SUFFICES ASSUME NEW i \in entries', NEW j \in entries', i # j,
                      Sym(i[1]) = Sym(j[1])
               PROVE  i[2] - j[2] >= Cooldown \/ j[2] - i[2] >= Cooldown
      BY DEF EntriesSpaced
  <2>1. CASE i \in entries /\ j \in entries
      BY <2>1 DEF SpacedInv, EntriesSpaced
  <2>2. CASE i \in entries /\ j = id
      BY <1>3, <1>11, <2>2
  <2>3. CASE i = id /\ j \in entries
      BY <1>3, <1>11, <2>3
  <2> QED
      BY <2>1, <2>2, <2>3
<1> QED
    BY <1>6, <1>7, <1>10, <1>12 DEF SpacedInv

LEMMA NextSpaced == SpacedInv /\ [Next]_vars => SpacedInv'
<1> SUFFICES ASSUME SpacedInv, [Next]_vars PROVE SpacedInv'
    OBVIOUS
<1>1. ASSUME NEW t \in Times, NEW p \in Prices, NEW k \in Kinds, Advance(t, p, k)
      PROVE  SpacedInv'
  <2>1. t \in Nat /\ t >= clock /\ clock \in Nat
      BY <1>1, ReplayAssumption DEF Advance, CanAdvance, Times, SpacedInv, TimesTyped
  <2>2. /\ clock' = t /\ candle'.time = t
        /\ UNCHANGED <<stream, lastEntry, markedAt, entries>>
      BY <1>1 DEF Advance, riskVars, history
  <2>3. TimesTyped'
      BY <2>1, <2>2 DEF SpacedInv, TimesTyped
  <2>4. NoPriceFromTheFuture'
      BY <2>1, <2>2 DEF SpacedInv, TimesTyped, NoPriceFromTheFuture
  <2>5. \A s \in Symbols : lastEntry[s] <= t
    <3> SUFFICES ASSUME NEW s \in Symbols PROVE lastEntry[s] <= t
        OBVIOUS
    <3>1. lastEntry[s] \in Int /\ lastEntry[s] <= clock
        BY DEF SpacedInv, TimesTyped, LastIsLast, Never
    <3> QED
        BY <2>1, <3>1
  <2>6. LastIsLast' /\ EntriesSpaced'
      BY <2>2, <2>5 DEF SpacedInv, LastIsLast, EntriesSpaced
  <2> QED
      BY <2>3, <2>4, <2>6 DEF SpacedInv
<1>2. CASE AdvanceRaises \/ Complete \/ Killed
  <2>1. pc' = "ended" /\ UNCHANGED <<clock, stream, lastEntry, markedAt, entries>>
      BY <1>2 DEF AdvanceRaises, Complete, Killed, Ends, riskVars, history
  <2> QED
      BY <2>1 DEF SpacedInv, TimesTyped, LastIsLast, EntriesSpaced,
                  NoPriceFromTheFuture
<1>3. CASE NextStream
  <2>1. /\ stream' = stream + 1 /\ stream < Len(Streams) /\ pc' = pc
        /\ UNCHANGED <<clock, lastEntry, markedAt, entries, candle>>
      BY <1>3 DEF NextStream, riskVars, history
  <2>2. stream' \in 1..Len(Streams)
      BY <2>1, ReplayAssumption DEF SpacedInv, TimesTyped
  <2> QED
      BY <2>1, <2>2 DEF SpacedInv, TimesTyped, LastIsLast, EntriesSpaced,
                        NoPriceFromTheFuture
<1>4. CASE NoContext
    BY <1>4, MarkingKeeps DEF NoContext, CandleDone, riskVars, history
<1>5. CASE NoEntry
    BY <1>5, MarkingKeeps DEF NoEntry, CandleDone
<1>6. CASE RejectRaises
    BY <1>6, MarkingKeeps DEF RejectRaises, CandleDone
<1>7. CASE Enter
    BY <1>7, ApprovalKeeps DEF Enter, Filled
<1>8. CASE EnterRaisesBefore
    BY <1>8, ApprovalKeeps DEF EnterRaisesBefore
<1>9. CASE EnterRaisesAfter
    BY <1>9, ApprovalKeeps DEF EnterRaisesAfter, Filled
<1>10. CASE UNCHANGED vars
    BY <1>10 DEF vars, riskVars, loopVars, history, SpacedInv, TimesTyped, LastIsLast,
                 EntriesSpaced, NoPriceFromTheFuture
<1> QED
    BY <1>1, <1>2, <1>3, <1>4, <1>5, <1>6, <1>7, <1>8, <1>9, <1>10 DEF Next

\* Two orders in one symbol are a cooldown apart, for every configuration and
\* dataset, errors of the database included (RiskEngine.evaluate).
THEOREM CooldownKept == Spec => []EntriesSpaced
<1>1. SpacedInv => EntriesSpaced
    BY DEF SpacedInv
<1> QED
    BY <1>1, InitSpaced, NextSpaced, PTL DEF Spec

\* No mark price is from a candle later than the clock (ReplayClock.advance_to).
THEOREM PricesFromThePast == Spec => []NoPriceFromTheFuture
<1>1. SpacedInv => NoPriceFromTheFuture
    BY DEF SpacedInv
<1> QED
    BY <1>1, InitSpaced, NextSpaced, PTL DEF Spec

---------------------------------------------------------------------------
(* What an order buys.                                                     *)

LEMMA Quotient ==
  ASSUME NEW a \in Nat, NEW b \in Nat \ {0}
  PROVE  a \div b \in Nat /\ (a >= b => a \div b >= 1)
BY SMT

LEMMA QuotientAtLeast ==
  ASSUME NEW a \in Nat, NEW p \in Nat \ {0}, NEW f \in Nat \ {0}, a >= p * f
  PROVE  a \div p >= f
<1> DEFINE q == a \div p
<1>1. q \in Nat /\ a < p * (q + 1)
    BY SMT
<1> HIDE DEF q
<1>2. ASSUME q + 1 <= f PROVE FALSE
  <2>1. p * (q + 1) <= p * f
      BY <1>1, <1>2, SMT
  <2> QED
      BY <1>1, <2>1, SMT
<1> QED
    BY <1>1, <1>2, SMT DEF q

\* An order buys something, a partial fill included.
LEMMA FillPositive ==
  ASSUME NEW price \in Prices
  PROVE  /\ PositionSize(price) \in Nat
         /\ PositionSize(price) \div FillDiv \in Nat \ {0}
<1>1. price \in Nat \ {0} /\ FillDiv \in Nat \ {0} /\ Allocation \in Nat \ {0}
    BY ReplayAssumption, RiskAssumption
<1> DEFINE m == price * FillDiv
<1>2. m \in Nat \ {0}
    BY <1>1, SMT
<1>3. Allocation >= m
  <2>1. Allocation % m = 0
      BY ReplayAssumption
  <2> HIDE DEF m
  <2> QED
      BY <1>1, <1>2, <2>1, SMT
<1>4. Allocation \div price >= FillDiv
    BY <1>1, <1>3, QuotientAtLeast
<1> QED
    BY <1>1, <1>4, Quotient DEF PositionSize

LEMMA Product ==
  ASSUME NEW a \in Nat, NEW b \in Nat
  PROVE  a * b \in Nat
BY SMT

LEMMA BoughtPosition ==
  ASSUME NEW p \in Position, NEW price \in Prices
  PROVE  Bought(p, price) \in Position /\ Bought(p, price).qty > 0
<1> DEFINE size == PositionSize(price)
           fill == size \div FillDiv
           executed == price * (Scale + Slippage)
           paid == fill * Scale + size * Fee
<1>1. size \in Nat /\ fill \in Nat \ {0}
    BY FillPositive
<1>2. price \in Nat /\ Scale \in Nat /\ Slippage \in Nat /\ Fee \in Nat
    BY ReplayAssumption, RiskAssumption
<1>3. executed \in Nat
    BY <1>2, Product
<1>4. fill * Scale \in Nat /\ size * Fee \in Nat
    BY <1>1, <1>2, Product
<1>5. paid \in Nat
    BY <1>4
<1>6. executed * paid \in Nat
    BY <1>3, <1>5, Product
<1>7. Bought(p, price) = [qty |-> p.qty + fill, cost |-> p.cost + executed * paid]
    BY DEF Bought
<1> HIDE DEF fill, executed, paid
<1> QED
    BY <1>1, <1>6, <1>7 DEF Position

---------------------------------------------------------------------------
(* ReplayTypeOK.                                                           *)

LEMMA InitTyped == Init => ReplayTypeOK
<1> SUFFICES ASSUME Init PROVE ReplayTypeOK
    OBVIOUS
<1>1. 1 \in 1..Len(Streams)
    BY ReplayAssumption
<1> QED
    BY <1>1 DEF Init, RiskInit, ReplayTypeOK, Flat, Position, NoCandle

\* The candle being processed is one of the dataset.
CandleRead == pc = "process" => candle \in [time : Times, price : Prices, kind : Kinds]

TypedInv == ReplayTypeOK /\ CandleRead

\* What the steps of a candle have in common.
LEMMA CandleTyped ==
  ASSUME TypedInv, pc = "process", CandleDone,
         held' \in [Symbols -> Position], broker' \in [Symbols -> Position],
         UNCHANGED <<marks, markedAt>> \/ Marks,
         UNCHANGED <<activeIds, lastEntry>> \/ Approval(cur, id),
         entries' = entries \/ entries' = entries \union {id},
         missed' \in BOOLEAN
  PROVE  TypedInv'
<1>1. /\ cur \in Symbols /\ candle.price \in Prices /\ candle.time \in Times
      /\ id \in Ids
    BY StreamSymbol DEF TypedInv, CandleRead, ReplayTypeOK, cur, id, Ids
<1>2. clock \in Times
    BY DEF TypedInv, ReplayTypeOK
<1>3. /\ marks' \in [Symbols -> Prices \union {0}]
      /\ markedAt' \in [Symbols -> Times \union {Never}]
    BY <1>1 DEF TypedInv, ReplayTypeOK, Marks, Marked
<1>4. /\ activeIds' \subseteq Ids
      /\ lastEntry' \in [Symbols -> Times \union {Never}]
    BY <1>1, <1>2 DEF TypedInv, ReplayTypeOK, Approval
<1>5. entries' \subseteq Ids
    BY <1>1 DEF TypedInv, ReplayTypeOK
<1>6. pc' = "advance" /\ candle' = NoCandle
      /\ UNCHANGED <<clock, stream, done, outcome, status, zoned>>
    BY DEF CandleDone
<1> QED
    BY <1>3, <1>4, <1>5, <1>6 DEF TypedInv, CandleRead, ReplayTypeOK

LEMMA FilledTyped ==
  ASSUME TypedInv, pc = "process", Filled
  PROVE  broker' \in [Symbols -> Position]
<1>1. cur \in Symbols /\ candle.price \in Prices /\ broker \in [Symbols -> Position]
    BY StreamSymbol DEF TypedInv, CandleRead, ReplayTypeOK, cur
<1> QED
    BY <1>1, BoughtPosition DEF Filled

LEMMA NextTyped == TypedInv /\ [Next]_vars => TypedInv'
<1> SUFFICES ASSUME TypedInv, [Next]_vars PROVE TypedInv'
    OBVIOUS
<1> USE DEF TypedInv, CandleRead, ReplayTypeOK
<1>1. ASSUME NEW t \in Times, NEW p \in Prices, NEW k \in Kinds, Advance(t, p, k)
      PROVE  TypedInv'
    BY <1>1 DEF Advance, riskVars, history
<1>2. CASE AdvanceRaises \/ Complete \/ Killed
    BY <1>2 DEF AdvanceRaises, Complete, Killed, Ends, riskVars, history
<1>3. CASE NextStream
  <2>1. stream' \in 1..Len(Streams)
      BY <1>3, ReplayAssumption DEF NextStream
  <2> QED
      BY <1>3, <2>1 DEF NextStream, riskVars, history
<1>4. CASE NoContext
    BY <1>4, CandleTyped DEF NoContext, riskVars, history
<1>5. CASE NoEntry
    BY <1>5, CandleTyped DEF NoEntry, Synced
<1>6. CASE RejectRaises
    BY <1>6, CandleTyped DEF RejectRaises
<1>7. CASE Enter
    BY <1>7, CandleTyped, FilledTyped DEF Enter, Approved, Synced, Filled
<1>8. CASE EnterRaisesBefore
    BY <1>8, CandleTyped DEF EnterRaisesBefore, Approved
<1>9. CASE EnterRaisesAfter
    BY <1>9, CandleTyped, FilledTyped DEF EnterRaisesAfter, Approved, Filled
<1>10. CASE UNCHANGED vars
    BY <1>10 DEF vars, riskVars, loopVars, history
<1> QED
    BY <1>1, <1>2, <1>3, <1>4, <1>5, <1>6, <1>7, <1>8, <1>9, <1>10 DEF Next

\* Every variable keeps a value of its kind: no order takes a quantity or a
\* cost away from a position, and every mark is a price of the dataset.
THEOREM ReplayTyped == Spec => []ReplayTypeOK
<1>1. Init => TypedInv
    BY InitTyped DEF TypedInv, CandleRead, Init
<1>2. TypedInv => ReplayTypeOK
    BY DEF TypedInv
<1> QED
    BY <1>1, <1>2, NextTyped, PTL DEF Spec

---------------------------------------------------------------------------
(* PositionsWithinLimits.                                                  *)

\* The snapshot of the risk engine is what the broker holds.
SnapshotRight == ~missed => held = broker

\* An order leaves a position.
OrdersHeld == \A i \in entries : broker[Sym(i[1])].qty > 0

FewOpen ==
  /\ IsFiniteSet(OpenIn(broker))
  /\ ~missed => Cardinality(OpenIn(broker)) <= MaxOpenPositions

\* With a limit of one position per symbol its orders are one, with zero none.
OnePerSymbol ==
  ~missed /\ MaxPerSymbol <= 1 =>
    /\ entries # {} => MaxPerSymbol = 1
    /\ \A i, j \in entries : Sym(i[1]) = Sym(j[1]) => i = j

LimitsInv == SnapshotRight /\ OrdersHeld /\ FewOpen /\ OnePerSymbol

LEMMA InitLimits == Init => LimitsInv
<1> SUFFICES ASSUME Init PROVE LimitsInv
    OBVIOUS
<1>1. held = broker /\ entries = {}
    BY DEF Init, RiskInit
<1>2. OpenIn(broker) = {}
    BY DEF Init, OpenIn, Flat
<1>3. Cardinality(OpenIn(broker)) = 0 /\ IsFiniteSet(OpenIn(broker))
    BY <1>2, FS_EmptySet
<1> QED
    BY <1>1, <1>3, RiskAssumption
       DEF LimitsInv, SnapshotRight, OrdersHeld, FewOpen, OnePerSymbol

\* A step without an order leaves the snapshot or corrects it.
LEMMA NoOrderKeeps ==
  ASSUME LimitsInv, UNCHANGED <<broker, entries, missed>>,
         held' = held \/ held' = broker
  PROVE  LimitsInv'
BY DEF LimitsInv, SnapshotRight, OrdersHeld, FewOpen, OnePerSymbol, OpenIn

\* What a filled order changes.
LEMMA FilledLimits ==
  ASSUME TypedInv, LimitsInv, Approved, Filled, missed' \in BOOLEAN,
         missed => missed', ~missed' => held' = broker'
  PROVE  LimitsInv'
<1>1. /\ pc = "process" /\ cur \in Symbols /\ candle.price \in Prices
      /\ broker \in [Symbols -> Position] /\ Sym(id[1]) = cur
    BY StreamSymbol DEF Approved, TypedInv, CandleRead, ReplayTypeOK, cur, id
<1>2. \A i \in entries : Sym(i[1]) \in Symbols
    BY StreamSymbol DEF TypedInv, ReplayTypeOK, Ids
<1>3. /\ broker' = [broker EXCEPT ![cur] = Bought(broker[cur], candle.price)]
      /\ entries' = entries \union {id}
    BY DEF Filled
<1>4. broker'[cur].qty > 0 /\ \A s \in Symbols \ {cur} : broker'[s] = broker[s]
    BY <1>1, <1>3, BoughtPosition
<1>5. OpenIn(broker') = OpenIn(broker) \union {cur}
    BY <1>1, <1>4 DEF OpenIn
<1>6. PositionsOK(cur)
    BY DEF Approved, Approves
<1>7. OrdersHeld'
    BY <1>1, <1>2, <1>3, <1>4 DEF LimitsInv, OrdersHeld
<1>8. FewOpen'
  <2>1. IsFiniteSet(OpenIn(broker))
      BY DEF LimitsInv, FewOpen
  <2>2. /\ IsFiniteSet(OpenIn(broker) \union {cur})
        /\ Cardinality(OpenIn(broker)) \in Nat
        /\ Cardinality(OpenIn(broker) \union {cur}) =
             IF cur \in OpenIn(broker) THEN Cardinality(OpenIn(broker))
                                       ELSE Cardinality(OpenIn(broker)) + 1
      BY <2>1, FS_AddElement, FS_CardinalityType
  <2>3. ~missed => Cardinality(OpenIn(broker)) < MaxOpenPositions
      BY <1>6 DEF LimitsInv, SnapshotRight, PositionsOK
  <2> QED
      BY <1>5, <2>2, <2>3, RiskAssumption DEF FewOpen
<1>9. OnePerSymbol'
  <2> SUFFICES ASSUME ~missed', MaxPerSymbol <= 1
               PROVE  /\ MaxPerSymbol = 1
                      /\ \A i, j \in entries' : Sym(i[1]) = Sym(j[1]) => i = j
      BY DEF OnePerSymbol
  <2>1. held = broker
      BY DEF LimitsInv, SnapshotRight
  <2>2. MaxPerSymbol = 1 /\ cur \notin OpenIn(broker)
      BY <1>6, <2>1, RiskAssumption DEF PositionsOK
  <2>3. \A i \in entries : Sym(i[1]) # cur
      BY <1>1, <2>2 DEF LimitsInv, OrdersHeld, OpenIn
  <2> QED
      BY <1>1, <1>3, <2>2, <2>3 DEF LimitsInv, OnePerSymbol
<1> QED
    BY <1>7, <1>8, <1>9 DEF LimitsInv, SnapshotRight

LEMMA NextLimits == TypedInv /\ LimitsInv /\ [Next]_vars => LimitsInv'
<1> SUFFICES ASSUME TypedInv, LimitsInv, [Next]_vars PROVE LimitsInv'
    OBVIOUS
<1>1. ASSUME NEW t \in Times, NEW p \in Prices, NEW k \in Kinds, Advance(t, p, k)
      PROVE  LimitsInv'
    BY <1>1, NoOrderKeeps DEF Advance, riskVars, history
<1>2. CASE AdvanceRaises \/ Complete \/ Killed
    BY <1>2, NoOrderKeeps
       DEF AdvanceRaises, Complete, Killed, Ends, riskVars, history
<1>3. CASE NextStream \/ NoContext
    BY <1>3, NoOrderKeeps DEF NextStream, NoContext, riskVars, history
<1>4. CASE NoEntry
    BY <1>4, NoOrderKeeps DEF NoEntry, Synced
<1>5. CASE RejectRaises \/ EnterRaisesBefore
    BY <1>5, NoOrderKeeps DEF RejectRaises, EnterRaisesBefore
<1>6. CASE Enter
    BY <1>6, FilledLimits DEF Enter, Synced, TypedInv, ReplayTypeOK
<1>7. CASE EnterRaisesAfter
    BY <1>7, FilledLimits DEF EnterRaisesAfter
<1>8. CASE UNCHANGED vars
    BY <1>8, NoOrderKeeps DEF vars, riskVars, loopVars, history
<1> QED
    BY <1>1, <1>2, <1>3, <1>4, <1>5, <1>6, <1>7, <1>8 DEF Next

\* The position limits hold of what the broker holds, for every number of
\* symbols, streams and candles and every limit, as long as no error kept a
\* filled order from the risk engine (risk_engine.py:16).
THEOREM LimitsHold == Spec => []PositionsWithinLimits
<1>1. LimitsInv => PositionsWithinLimits
  <2> SUFFICES ASSUME LimitsInv, ~missed, MaxPerSymbol <= 1, NEW s \in Symbols
               PROVE  Cardinality(EntriesIn(s)) <= MaxPerSymbol
      BY DEF LimitsInv, FewOpen, PositionsWithinLimits
  <2>1. CASE EntriesIn(s) = {}
      BY <2>1, FS_EmptySet, RiskAssumption
  <2>2. CASE EntriesIn(s) # {}
    <3>1. PICK i \in entries : i \in EntriesIn(s)
        BY <2>2 DEF EntriesIn
    <3>2. EntriesIn(s) = {i} /\ MaxPerSymbol = 1
        BY <3>1 DEF EntriesIn, LimitsInv, OnePerSymbol
    <3> QED
        BY <3>2, FS_Singleton
  <2> QED
      BY <2>1, <2>2
<1>2. Spec => []TypedInv
  <2>1. Init => TypedInv
      BY InitTyped DEF TypedInv, CandleRead, Init
  <2> QED
      BY <2>1, NextTyped, PTL DEF Spec
<1> QED
    BY <1>1, <1>2, InitLimits, NextLimits, PTL DEF Spec
---------------------------------------------------------------------------
(* ExposureWithinLimits.                                                   *)

\* A partial fill is not more than what was ordered.
LEMMA FillAtMost ==
  ASSUME NEW a \in Nat, NEW b \in Nat \ {0}
  PROVE  a \div b <= a
<1> DEFINE q == a \div b
<1>1. q \in Nat /\ b * q <= a
    BY SMT
<1> HIDE DEF q
<1>2. q <= b * q
    BY <1>1, SMT
<1> QED
    BY <1>1, <1>2, SMT DEF q

LEMMA TimesAtMost ==
  ASSUME NEW p \in Nat, NEW a \in Nat, NEW b \in Nat, a <= b
  PROVE  p * a <= p * b
BY SMT

\* The positions in S have a value at the prices m.
Value(h, m, s)  == h[s].qty * m[s]
Valued(h, m, S) == \A s \in S : Value(h, m, s) \in Int

LEMMA WorthTyped ==
  ASSUME NEW S, IsFiniteSet(S), NEW h, NEW m, Valued(h, m, S)
  PROVE  Worth(h, m, S) \in Int
<1> DEFINE f == [s \in S |-> Value(h, m, s)]
<1>1. f \in [S -> Int]
    BY DEF Valued
<1> HIDE DEF f
<1>2. SumFunction(f) \in Int
    BY <1>1, FcnSumTyped
<1> QED
    BY <1>2 DEF Worth, f, Value

\* One symbol more, and nothing else changed.
LEMMA WorthAdds ==
  ASSUME NEW S, IsFiniteSet(S), NEW c, c \notin S,
         NEW g, NEW h, NEW m, Valued(h, m, S), Valued(g, m, {c}),
         \A s \in S : g[s] = h[s]
  PROVE  Worth(g, m, S \union {c}) = Worth(h, m, S) + Value(g, m, c)
<1> DEFINE f == [s \in S \union {c} |-> Value(g, m, s)]
           e == [s \in S |-> Value(h, m, s)]
<1>1. \A s \in S : Value(g, m, s) = Value(h, m, s)
    BY DEF Value
<1>2. /\ f \in [S \union {c} -> Int] /\ e \in [S -> Int]
      /\ \A s \in S : f[s] = e[s]
    BY <1>1 DEF Valued
<1>3. Worth(g, m, S \union {c}) = SumFunction(f) /\ Worth(h, m, S) = SumFunction(e)
    BY DEF Worth, Value
<1>4. f[c] = Value(g, m, c)
    OBVIOUS
<1>5. SumFunction(f) = SumFunction(e) + f[c]
  <2> HIDE DEF f, e
  <2> QED BY <1>2, FcnSumAdds
<1> HIDE DEF f, e
<1> QED
    BY <1>3, <1>4, <1>5

\* What is held in S, of which one symbol is bought, is worth more by what is
\* bought.
LEMMA WorthBought ==
  ASSUME NEW S, IsFiniteSet(S), NEW c, NEW n \in Int,
         NEW g, NEW h, NEW m,
         Valued(h, m, S), Valued(h, m, {c}),
         \A s \in S \ {c} : g[s] = h[s],
         Value(g, m, c) = Value(h, m, c) + n,
         c \notin S => Value(h, m, c) = 0
  PROVE  Worth(g, m, S \union {c}) = Worth(h, m, S) + n
<1> DEFINE R == S \ {c}
           was == Value(h, m, c)
           is == Value(g, m, c)
<1>1. IsFiniteSet(R) /\ c \notin R /\ R \union {c} = S \union {c}
    BY FS_Subset
<1>2. was \in Int /\ is \in Int /\ is = was + n
    BY DEF Valued
<1>3. /\ \A s \in R : g[s] = h[s]
      /\ Valued(h, m, R) /\ Valued(h, m, {c}) /\ Valued(g, m, {c})
    BY <1>2 DEF Valued
<1>4. Worth(g, m, S \union {c}) = Worth(h, m, R) + is
    BY <1>1, <1>2, <1>3, WorthAdds
<1>5. Worth(h, m, R) \in Int
    BY <1>1, <1>3, WorthTyped
<1>6. Worth(h, m, S) = Worth(h, m, R) + was
  <2>1. CASE c \in S
    <3>1. Worth(h, m, R \union {c}) = Worth(h, m, R) + was
        BY <1>1, <1>2, <1>3, WorthAdds
    <3>2. R \union {c} = S
        BY <2>1
    <3> QED
        BY <3>1, <3>2
  <2>2. CASE c \notin S
    <3>1. R = S /\ was = 0
        BY <2>2
    <3> HIDE DEF R, was
    <3> QED
        BY <1>5, <3>1
  <2> QED
      BY <2>1, <2>2
<1> HIDE DEF R, was, is
<1> QED
    BY <1>2, <1>4, <1>5, <1>6

\* What the risk engine works out before the order bounds what the broker
\* holds after it: the snapshot is right, the marks are those of the candle,
\* and no more is filled than was ordered.
LEMMA FilledWithin ==
  ASSUME TypedInv, LimitsInv, ~missed, Approved, Filled, Marks
  PROVE  /\ Worth(broker', marks', {cur}) <= MaxSymbolExposure
         /\ Worth(broker', marks', OpenIn(broker')) <= MaxTotalExposure
<1> DEFINE price == candle.price
           size == PositionSize(price)
           fill == size \div FillDiv
           m == marks'
           open == OpenIn(broker)
           own == open \intersect {cur}
<1>1. /\ cur \in Symbols /\ price \in Prices
      /\ broker \in [Symbols -> Position]
      /\ marks \in [Symbols -> Prices \union {0}]
    BY StreamSymbol DEF Approved, TypedInv, CandleRead, ReplayTypeOK, cur
<1>2. price \in Nat /\ Prices \subseteq Nat
    BY <1>1, ReplayAssumption
<1>3. size \in Nat /\ fill \in Nat /\ fill <= size
    BY <1>1, FillPositive, FillAtMost, ReplayAssumption
<1>4. m = Marked(cur, price) /\ m[cur] = price /\ m \in [Symbols -> Nat]
  <2>1. m = Marked(cur, price) /\ Prices \union {0} \subseteq Nat
      BY <1>2 DEF Marks
  <2>2. marks \in [Symbols -> Nat] /\ price \in Nat
      BY <1>1, <1>2, <2>1
  <2>3. m = [marks EXCEPT ![cur] = price]
      BY <2>1 DEF Marked
  <2> HIDE DEF m, price
  <2> QED
      BY <1>1, <2>1, <2>2, <2>3
<1>5. /\ broker' = [broker EXCEPT ![cur] = Bought(broker[cur], price)]
      /\ broker'[cur] = Bought(broker[cur], price)
      /\ broker'[cur].qty = broker[cur].qty + fill
    BY <1>1 DEF Filled, Bought
<1>6. \A s \in Symbols : broker[s].qty \in Nat
    BY <1>1 DEF Position
<1>7. Valued(broker, m, Symbols)
  <2>1. ASSUME NEW s \in Symbols PROVE broker[s].qty * m[s] \in Int
      BY <1>4, <1>6, Product
  <2> QED
      BY <2>1 DEF Valued, Value
<1>8. Value(broker', m, cur) = Value(broker, m, cur) + price * fill
    BY <1>1, <1>2, <1>3, <1>4, <1>5, <1>6 DEF Value
<1>9. price * fill \in Int /\ price * size \in Int /\ price * fill <= price * size
    BY <1>2, <1>3, Product, TimesAtMost
<1>10. held = broker
    BY DEF LimitsInv, SnapshotRight
<1>11. /\ Worth(broker, m, own) + price * size <= MaxSymbolExposure
       /\ Worth(broker, m, open) + price * size <= MaxTotalExposure
    BY <1>4, <1>10 DEF Approved, Approves, ExposureOK, Exposure, Worth
<1>12. open \subseteq Symbols /\ own \subseteq Symbols
       /\ IsFiniteSet(open) /\ IsFiniteSet(own)
    BY FS_Subset DEF OpenIn, LimitsInv, FewOpen
<1>13. cur \notin open => Value(broker, m, cur) = 0
    BY <1>1, <1>2, <1>4, <1>6 DEF OpenIn, Value
<1>14. \A s \in Symbols \ {cur} : broker'[s] = broker[s]
    BY <1>1, <1>5
<1>15. broker'[cur].qty > 0
    BY <1>1, <1>5, BoughtPosition
<1>16. OpenIn(broker') = open \union {cur} /\ own \union {cur} = {cur}
    BY <1>1, <1>5, <1>14, <1>15 DEF OpenIn
<1>17. /\ Worth(broker, m, own) \in Int /\ Worth(broker, m, open) \in Int
  <2>1. Valued(broker, m, own) /\ Valued(broker, m, open)
    <3> HIDE DEF own, open, m
    <3> QED BY <1>7, <1>12 DEF Valued
  <2> HIDE DEF own, open, m
  <2> QED BY <1>12, <2>1, WorthTyped
<1>18. /\ Worth(broker', m, own \union {cur}) = Worth(broker, m, own) + price * fill
       /\ Worth(broker', m, open \union {cur}) = Worth(broker, m, open) + price * fill
  <2>1. /\ Valued(broker, m, own) /\ Valued(broker, m, open)
        /\ Valued(broker, m, {cur})
        /\ \A s \in own \ {cur} : broker'[s] = broker[s]
        /\ \A s \in open \ {cur} : broker'[s] = broker[s]
        /\ cur \notin own => Value(broker, m, cur) = 0
    <3> HIDE DEF m
    <3> QED BY <1>1, <1>7, <1>12, <1>13, <1>14 DEF Valued
  <2> HIDE DEF own, open, m, price, fill
  <2> QED BY <1>8, <1>9, <1>12, <1>13, <2>1, WorthBought
<1>19. /\ Worth(broker', m, {cur}) = Worth(broker, m, own) + price * fill
       /\ Worth(broker', m, OpenIn(broker')) = Worth(broker, m, open) + price * fill
  <2> HIDE DEF own, open, m, price, fill
  <2> QED BY <1>16, <1>18
<1>20. MaxSymbolExposure \in Nat /\ MaxTotalExposure \in Nat
    BY RiskAssumption
<1>21. \A w, n, o, l \in Int : w + o <= l /\ n <= o => w + n <= l
    OBVIOUS
<1>22. /\ Worth(broker', m, {cur}) <= MaxSymbolExposure
       /\ Worth(broker', m, OpenIn(broker')) <= MaxTotalExposure
  <2> HIDE DEF own, open, m, price, size, fill
  <2> QED BY <1>9, <1>11, <1>17, <1>19, <1>20, <1>21
<1> QED
    BY <1>22

\* A step that buys.
Buys == \E s \in Symbols : broker'[s].qty > broker[s].qty

LEMMA BuysFilled ==
  ASSUME [Next]_vars, TypedInv, Buys
  PROVE  Approved /\ Filled /\ Marks
<1>1. broker' # broker
    BY DEF Buys, TypedInv, ReplayTypeOK, Position
<1>2. ~(\E t \in Times, p \in Prices, k \in Kinds : Advance(t, p, k))
    BY <1>1 DEF Advance
<1>3. ~(AdvanceRaises \/ NextStream \/ Complete \/ Killed)
    BY <1>1 DEF AdvanceRaises, NextStream, Complete, Killed, Ends
<1>4. ~(NoContext \/ NoEntry \/ RejectRaises \/ EnterRaisesBefore)
    BY <1>1 DEF NoContext, NoEntry, RejectRaises, EnterRaisesBefore
<1>5. ~UNCHANGED vars
    BY <1>1 DEF vars
<1> QED
    BY <1>2, <1>3, <1>4, <1>5 DEF Next, Enter, EnterRaisesAfter

\* Right after every order, what the broker really holds in the symbol and in
\* all symbols is within the exposure limits at the prices last seen, for
\* every number of symbols, streams, prices and candles, as long as no error
\* kept a filled order from the risk engine (RiskEngine.evaluate).
THEOREM ExposureHolds == Spec => ExposureWithinLimits
<1>1. TypedInv /\ LimitsInv /\ [Next]_vars =>
        [ \A s \in Symbols : broker'[s].qty > broker[s].qty /\ ~missed =>
            /\ Worth(broker', marks', {s}) <= MaxSymbolExposure
            /\ Worth(broker', marks', OpenIn(broker')) <= MaxTotalExposure ]_vars
  <2> SUFFICES ASSUME TypedInv, LimitsInv, [Next]_vars, ~missed,
                      NEW s \in Symbols, broker'[s].qty > broker[s].qty
               PROVE  /\ Worth(broker', marks', {s}) <= MaxSymbolExposure
                      /\ Worth(broker', marks', OpenIn(broker')) <= MaxTotalExposure
      OBVIOUS
  <2>1. Approved /\ Filled /\ Marks
      BY BuysFilled DEF Buys
  <2>2. s = cur
    <3>1. broker[s].qty \in Nat
        BY DEF TypedInv, ReplayTypeOK, Position
    <3> QED
        BY <2>1, <3>1 DEF Filled, TypedInv, ReplayTypeOK
  <2> QED
      BY <2>1, <2>2, FilledWithin
<1>2. Spec => []TypedInv
  <2>1. Init => TypedInv
      BY InitTyped DEF TypedInv, CandleRead, Init
  <2> QED
      BY <2>1, NextTyped, PTL DEF Spec
<1> QED
    BY <1>1, <1>2, InitLimits, NextLimits, PTL DEF Spec, ExposureWithinLimits
=============================================================================
