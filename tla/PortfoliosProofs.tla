-------------------------- MODULE PortfoliosProofs --------------------------
(***************************************************************************)
(* The safety properties of Portfolios for any number of requests, users,  *)
(* portfolios and assets, and any amounts.                                 *)
(***************************************************************************)
EXTENDS Portfolios, SumProofs

-----------------------------------------------------------------------------
(* What PortfolioValuation computes, whatever the positions and quotes. *)

\* The market values of the positions.
Values(rows, quote) == [b \in rows |-> MarketValue(b, quote)]

(* What positions are worth together is the sum of what each is worth.       *)
LEMMA HeldIsSum ==
  ASSUME NEW rows, IsFiniteSet(rows), NEW quote,
         \A b \in rows : MarketValue(b, quote) \in Int
  PROVE  \E it : Sums(it, rows, Values(rows, quote)) /\ Held(rows, quote) = it[rows]
<1> DEFINE IsHeld(it) == it = [s \in SUBSET rows |->
                            IF s = {} THEN 0 ELSE MarketValue(Pick(s), quote) + it[s \ {Pick(s)}]]
           it == CHOOSE g : IsHeld(g)
<1>1. Held(rows, quote) = it[rows]
  BY DEF Held, MapThenSumSet, MapThenFoldSet, Pick
<1>2. \A s \in SUBSET rows : s # {} => MarketValue(Pick(s), quote) = Values(rows, quote)[Pick(s)]
  BY PickIsMember DEF Values
<1>3. \A g : IsHeld(g) <=> Sums(g, rows, Values(rows, quote))
  BY <1>2 DEF Sums
<1>4. \E g : Sums(g, rows, Values(rows, quote))
  <2>1. \A b \in rows : Values(rows, quote)[b] \in Int
    BY DEF Values
  <2>. QED  BY <2>1, SumsExist
<1>5. IsHeld(it)
  BY <1>3, <1>4
<1>. QED  BY <1>1, <1>3, <1>5

LEMMA HeldIsInteger ==
  ASSUME NEW rows, IsFiniteSet(rows), NEW quote,
         \A b \in rows : MarketValue(b, quote) \in Int
  PROVE  Held(rows, quote) \in Int
<1>1. \A b \in rows : Values(rows, quote)[b] \in Int
  BY DEF Values
<1>2. PICK it : Sums(it, rows, Values(rows, quote)) /\ Held(rows, quote) = it[rows]
  BY HeldIsSum
<1>. QED  BY <1>1, <1>2, SumIsInteger

(* Some of the positions, if none is worth less than nothing, are worth no   *)
(* more than all of them.                                                    *)
LEMMA HeldIsMonotone ==
  ASSUME NEW rows, IsFiniteSet(rows), NEW quote, \A b \in rows : MarketValue(b, quote) \in Nat,
         NEW part \in SUBSET rows
  PROVE  /\ Held(part, quote) \in Nat /\ Held(part, quote) <= Held(rows, quote)
         /\ \A it : (Sums(it, rows, Values(rows, quote)) => it[part] = Held(part, quote))
<1>1. IsFiniteSet(part)
  BY FS_Subset
<1>2. /\ \A b \in rows : MarketValue(b, quote) \in Int
      /\ \A b \in part : MarketValue(b, quote) \in Int
  OBVIOUS
<1>3. /\ \A b \in rows : Values(rows, quote)[b] \in Nat
      /\ \A b \in part : Values(part, quote)[b] \in Nat
      /\ \A b \in part : Values(rows, quote)[b] = Values(part, quote)[b]
  BY DEF Values
<1>4. PICK it : Sums(it, rows, Values(rows, quote)) /\ Held(rows, quote) = it[rows]
  BY <1>2, HeldIsSum
<1>5. PICK other : Sums(other, part, Values(part, quote)) /\ Held(part, quote) = other[part]
  BY <1>1, <1>2, HeldIsSum
<1>6. ASSUME NEW g, Sums(g, rows, Values(rows, quote)) PROVE g[part] = Held(part, quote)
  <2>1. \A b \in part : Values(rows, quote)[b] = Values(part, quote)[b]
    BY <1>3
  <2>. DEFINE f == Values(rows, quote)  h == Values(part, quote)
  <2>3. Sums(g, rows, f) /\ Sums(other, part, h) /\ \A b \in part : f[b] = h[b]
    BY <1>5, <1>6, <2>1
  <2>. HIDE DEF f, h
  <2>2. g[part] = other[part]
    BY <2>3, SumsAgree
  <2>. QED  BY <1>5, <2>2
<1>7. it[part] <= it[rows]
  BY <1>3, <1>4, SumIsMonotone
<1>8. other[{}] <= other[part] /\ other[{}] = 0
  BY <1>1, <1>3, <1>5, SumIsMonotone DEF Sums
<1>9. Held(part, quote) \in Int
  BY <1>1, <1>2, HeldIsInteger
<1>10. Held(part, quote) \in Nat
  BY <1>5, <1>8, <1>9
<1>11. Held(part, quote) <= Held(rows, quote)
  BY <1>4, <1>6, <1>7
<1>. QED  BY <1>6, <1>10, <1>11

LEMMA OneIsHeld ==
  ASSUME NEW rows, IsFiniteSet(rows), NEW quote, \A b \in rows : MarketValue(b, quote) \in Nat,
         NEW b \in rows
  PROVE  MarketValue(b, quote) <= Held(rows, quote)
<1>1. IsFiniteSet({b}) /\ {b} \in SUBSET rows
  BY FS_Singleton
<1>2. MarketValue(b, quote) \in Int /\ \A r \in {b} : MarketValue(r, quote) \in Int
  OBVIOUS
<1>3. PICK it : Sums(it, {b}, Values({b}, quote)) /\ Held({b}, quote) = it[{b}]
  BY <1>1, <1>2, HeldIsSum
<1>4. Pick({b}) = b /\ {b} \ {b} = {}
  BY PickIsMember
<1>5. it[{b}] = Values({b}, quote)[b] + it[{}] /\ it[{}] = 0
  BY <1>3, <1>4 DEF Sums
<1>6. Held({b}, quote) = MarketValue(b, quote)
  BY <1>2, <1>3, <1>5 DEF Values
<1>7. Held({b}, quote) <= Held(rows, quote)
  BY <1>1, HeldIsMonotone
<1>. QED  BY <1>6, <1>7

(* A weight, whatever the signs of value and total, has a positive           *)
(* denominator.                                                              *)
FractionType == {f \in Int \X Int : f[2] > 0}

LEMMA WeightIsFraction ==
  ASSUME NEW value \in Int, NEW total \in Int
  PROVE  Weight(value, total) \in FractionType
BY DEF Weight, Fraction, Zero, Whole, FractionType

(* Comparing is a matter of multiplying with what is positive.               *)
LEMMA Cancel ==
  ASSUME NEW a \in Int, NEW b \in Int, NEW c \in Int, c > 0
  PROVE  (a * c < b * c <=> a < b) /\ (a * c <= b * c <=> a <= b)
<1>1. ASSUME NEW x \in Int, NEW y \in Int, x < y PROVE x * c < y * c
  <2>1. y - x \in Nat /\ y - x > 0
    BY <1>1
  <2>2. (y - x) * c > 0
    BY <2>1
  <2>3. (y - x) * c = y * c - x * c
    OBVIOUS
  <2>. QED  BY <2>2, <2>3
<1>2. a * c < b * c <=> a < b
  BY <1>1
<1>3. b * c < a * c <=> b < a
  BY <1>1
<1>. QED  BY <1>2, <1>3

LEMMA BelowAtMost ==
  ASSUME NEW f \in FractionType, NEW g \in FractionType, NEW h \in FractionType, AtMost(g, h)
  PROVE  (Below(f, g) => Below(f, h)) /\ (AtMost(f, g) => AtMost(f, h))
<1>. DEFINE a == f[1]  b == f[2]  c == g[1]  d == g[2]  m == h[1]  n == h[2]
<1>1. /\ a \in Int /\ c \in Int /\ m \in Int
      /\ b \in Int /\ b > 0 /\ d \in Int /\ d > 0 /\ n \in Int /\ n > 0
  BY DEF FractionType
<1>2. c * n <= m * d
  BY DEF AtMost
<1>. HIDE DEF a, b, c, d, m, n
<1>3. (c * n) * b <= (m * d) * b
  <2>1. c * n \in Int /\ m * d \in Int
    BY <1>1
  <2>. HIDE DEF a
  <2>. QED  BY <1>1, <1>2, <2>1, Cancel
<1>4. (c * b) * n = (c * n) * b /\ (m * d) * b = (m * b) * d /\ (a * d) * n = (a * n) * d
  BY <1>1
<1>5. a * d \in Int /\ c * b \in Int /\ a * n \in Int /\ m * b \in Int
  BY <1>1
<1>6. ASSUME a * d < c * b PROVE a * n < m * b
  <2>1. (a * d) * n < (c * b) * n
    BY <1>1, <1>5, <1>6, Cancel
  <2>2. (a * n) * d < (m * b) * d
    <3>1. (a * d) * n \in Int /\ (c * b) * n \in Int /\ (m * d) * b \in Int
      BY <1>1, <1>5
    <3>. QED  BY <1>3, <1>4, <2>1, <3>1
  <2>. QED  BY <1>1, <1>5, <2>2, Cancel
<1>7. ASSUME a * d <= c * b PROVE a * n <= m * b
  <2>1. (a * d) * n <= (c * b) * n
    BY <1>1, <1>5, <1>7, Cancel
  <2>2. (a * n) * d <= (m * b) * d
    <3>1. (a * d) * n \in Int /\ (c * b) * n \in Int /\ (m * d) * b \in Int
      BY <1>1, <1>5
    <3>. QED  BY <1>3, <1>4, <2>1, <3>1
  <2>. QED  BY <1>1, <1>5, <2>2, Cancel
<1>. QED  BY <1>6, <1>7 DEF Below, AtMost, a, b, c, d, m, n

(* What the positions change in a day is the sum of what each does.          *)
LEMMA PlusIsFraction ==
  ASSUME NEW f \in FractionType, NEW g \in FractionType
  PROVE  Plus(f, g) \in FractionType
<1>1. f[2] * g[2] > 0 /\ f[2] * g[2] \in Int /\ f[1] * g[2] + g[1] * f[2] \in Int
  BY DEF FractionType
<1>. QED  BY <1>1 DEF Plus, FractionType

LEMMA DayChangeIsSum ==
  ASSUME NEW rows, IsFiniteSet(rows), NEW quote, \A b \in rows : DayChange(b, quote) \in FractionType
  PROVE  \E it :
           /\ it = [s \in SUBSET rows |-> IF s = {} THEN Zero
                                          ELSE Plus(DayChange(Pick(s), quote), it[s \ {Pick(s)}])]
           /\ \A s \in SUBSET rows : it[s] \in FractionType
           /\ DayChangeValue(rows, quote) = it[rows]
<1>. DEFINE IsChange(it) ==
              it = [s \in SUBSET rows |-> IF s = {} THEN Zero
                                         ELSE Plus(DayChange(Pick(s), quote), it[s \ {Pick(s)}])]
            it == CHOOSE g : IsChange(g)
            next == [b \in rows |-> [f \in FractionType |-> Plus(DayChange(b, quote), f)]]
<1>1. DayChangeValue(rows, quote) = it[rows]
  BY DEF DayChangeValue, FoldSet, MapThenFoldSet, Pick
<1>2. Zero \in FractionType /\ next \in [rows -> [FractionType -> FractionType]]
  BY PlusIsFraction DEF Zero, Whole, FractionType
<1>3. PICK g : Folds(g, SUBSET rows, Zero, next)
  <2>. HIDE DEF next
  <2>. QED  BY FoldsExist
<1>4. \A s \in SUBSET rows : g[s] \in FractionType
  <2>. HIDE DEF next
  <2>. QED  BY <1>2, <1>3, FoldIsTyped, Zenon
<1>5. IsChange(g)
  <2>1. \A s \in SUBSET rows :
          s # {} => next[Pick(s)][g[s \ {Pick(s)}]] = Plus(DayChange(Pick(s), quote), g[s \ {Pick(s)}])
    BY <1>4, PickIsMember
  <2>. QED  BY <1>3, <2>1 DEF Folds
<1>6. IsChange(it)
  BY <1>5
<1>. DEFINE Good == {s \in SUBSET rows : it[s] \in FractionType}
<1>7. {} \in Good
  BY <1>2, <1>6
<1>8. ASSUME NEW s \in SUBSET rows, s # {}, s \ {Pick(s)} \in Good PROVE s \in Good
  <2>1. it[s] = Plus(DayChange(Pick(s), quote), it[s \ {Pick(s)}])
    BY <1>6, <1>8
  <2>2. DayChange(Pick(s), quote) \in FractionType
    BY <1>8, PickIsMember
  <2>. QED  BY <1>8, <2>1, <2>2, PlusIsFraction
<1>9. \A s \in SUBSET rows : s \in Good
  <2>. HIDE DEF Good
  <2>. QED  BY <1>7, <1>8, FoldInduction
<1>. HIDE DEF it
<1>. QED  BY <1>1, <1>6, <1>9

(* A change of what is worth m now, if it was worth no less than nothing     *)
(* before, lies between two percentages of what it was worth.                *)
Within(change, m, least, most) ==
    LET before == m * change[2] - change[1]
    IN  /\ before >= 0
        /\ 100 * change[1] <= most * before
        /\ least * before <= 100 * change[1]

LEMMA NoChangeIsWithin ==
  ASSUME NEW m \in Nat, NEW least \in Int, NEW most \in Int, least <= 0, 0 <= most
  PROVE  Within(Zero, m, least, most)
<1>1. most * m >= 0 /\ least * m <= 0
  OBVIOUS
<1>. QED  BY <1>1 DEF Within, Zero, Whole

LEMMA OneIsWithin ==
  ASSUME NEW m \in Nat, NEW c \in Int, c > -100, NEW least \in Int, NEW most \in Int,
         least <= c, c <= most
  PROVE  Within(Fraction(m * c, 100 + c), m, least, most)
<1>1. Fraction(m * c, 100 + c) = <<m * c, 100 + c>>
  BY DEF Fraction
<1>2. m * (100 + c) - m * c = 100 * m
  OBVIOUS
<1>3. m * c <= m * most /\ m * least <= m * c
  <2>1. m * (most - c) >= 0 /\ m * (c - least) >= 0
    <3>1. most - c \in Nat /\ c - least \in Nat
      OBVIOUS
    <3>. QED  BY <3>1
  <2>2. m * (most - c) = m * most - m * c /\ m * (c - least) = m * c - m * least
    OBVIOUS
  <2>3. m * most \in Int /\ m * c \in Int /\ m * least \in Int
    OBVIOUS
  <2>. QED  BY <2>1, <2>2, <2>3
<1>4. most * (100 * m) = 100 * (m * most) /\ least * (100 * m) = 100 * (m * least)
  OBVIOUS
<1>5. m * most \in Int /\ m * c \in Int /\ m * least \in Int /\ 100 * m >= 0
  OBVIOUS
<1>. QED  BY <1>1, <1>2, <1>3, <1>4, <1>5 DEF Within

(* ... and so does the sum of two such changes.                              *)
LEMMA SumIsWithin ==
  ASSUME NEW f \in FractionType, NEW g \in FractionType, NEW m \in Int, NEW n \in Int,
         NEW least \in Int, NEW most \in Int, Within(f, m, least, most), Within(g, n, least, most)
  PROVE  Within(Plus(f, g), m + n, least, most)
<1>. DEFINE a == f[1]  b == f[2]  c == g[1]  d == g[2]
            x == m * b - a
            y == n * d - c
<1>1. a \in Int /\ b \in Int /\ b > 0 /\ c \in Int /\ d \in Int /\ d > 0
  BY DEF FractionType
<1>2. /\ x >= 0 /\ 100 * a <= most * x /\ least * x <= 100 * a
      /\ y >= 0 /\ 100 * c <= most * y /\ least * y <= 100 * c
  BY DEF Within
<1>3. Plus(f, g) = <<a * d + c * b, b * d>>
  BY DEF Plus
<1>. HIDE DEF a, b, c, d
<1>4. (m + n) * (b * d) - (a * d + c * b) = x * d + y * b
  BY <1>1
<1>5. x \in Int /\ y \in Int
  BY <1>1
<1>. HIDE DEF x, y
<1>6. x * d \in Int /\ y * b \in Int /\ x * d >= 0 /\ y * b >= 0
  BY <1>1, <1>2, <1>5
<1>7. /\ (100 * a) * d <= (most * x) * d /\ (least * x) * d <= (100 * a) * d
      /\ (100 * c) * b <= (most * y) * b /\ (least * y) * b <= (100 * c) * b
  <2>1. /\ 100 * a \in Int /\ 100 * c \in Int /\ most * x \in Int /\ most * y \in Int
        /\ least * x \in Int /\ least * y \in Int
    BY <1>1, <1>5
  <2>. QED  BY <1>1, <1>2, <2>1, Cancel
<1>8. /\ (most * x) * d = most * (x * d) /\ (most * y) * b = most * (y * b)
      /\ (least * x) * d = least * (x * d) /\ (least * y) * b = least * (y * b)
      /\ (100 * a) * d = 100 * (a * d) /\ (100 * c) * b = 100 * (c * b)
  BY <1>1, <1>5
<1>9. /\ most * (x * d + y * b) = most * (x * d) + most * (y * b)
      /\ least * (x * d + y * b) = least * (x * d) + least * (y * b)
      /\ 100 * (a * d + c * b) = 100 * (a * d) + 100 * (c * b)
  BY <1>1, <1>6
<1>10. /\ most * (x * d) \in Int /\ most * (y * b) \in Int
       /\ least * (x * d) \in Int /\ least * (y * b) \in Int
       /\ a * d \in Int /\ c * b \in Int
  BY <1>1, <1>6
<1>11. /\ 100 * (a * d + c * b) <= most * (x * d + y * b)
       /\ least * (x * d + y * b) <= 100 * (a * d + c * b)
  BY <1>7, <1>8, <1>9, <1>10
<1>12. x * d + y * b >= 0
  BY <1>6
<1>. QED  BY <1>3, <1>4, <1>11, <1>12 DEF Within

(* A set of weights has a largest one.                                       *)
LEMMA LargestExists ==
  ASSUME NEW weights, IsFiniteSet(weights), weights # {}, \A w \in weights : w \in FractionType
  PROVE  \E w \in weights : \A v \in weights : AtMost(v, w)
<1>. DEFINE order == {x \in weights \X weights : AtMost(x[1], x[2])}
<1>1. \A x, y \in weights : <<x, y>> \in order <=> AtMost(x, y)
  OBVIOUS
<1>2. ASSUME NEW x \in weights, NEW y \in weights PROVE AtMost(x, y) \/ AtMost(y, x)
  <2>1. /\ x[1] \in Int /\ x[2] \in Int /\ y[1] \in Int /\ y[2] \in Int
    BY DEF FractionType
  <2>2. x[1] * y[2] \in Int /\ y[1] * x[2] \in Int
    BY <2>1
  <2>. QED  BY <2>2 DEF AtMost
<1>3. \A x, y, z \in weights : AtMost(x, y) /\ AtMost(y, z) => AtMost(x, z)
  BY BelowAtMost
<1>. HIDE DEF order
<1>4. \E w \in weights : \A v \in weights : <<v, w>> \in order
  BY <1>1, <1>2, <1>3, GreatestExists
<1>. QED  BY <1>1, <1>4

LEMMA TruncatedIsInteger ==
  ASSUME NEW f \in FractionType
  PROVE  Truncated(f) \in Int
<1>1. f[1] \in Int /\ f[2] \in Int /\ f[2] > 0
  BY DEF FractionType
<1>2. \A n \in Int : n \div f[2] \in Int
  BY <1>1
<1>. QED  BY <1>1, <1>2 DEF Truncated

(* A score is within its column's bounds whatever the weight, which a short  *)
(* position makes negative or more than one.                                 *)
LEMMA ScoreIsBounded ==
  ASSUME NEW weight \in FractionType
  PROVE  ScoreOf(weight) \in 0 .. 100
<1>1. Times(weight, 100, 1) \in FractionType
  BY DEF FractionType, Times, Fraction
<1>. QED  BY <1>1, TruncatedIsInteger DEF ScoreOf

-----------------------------------------------------------------------------
(* The requests. *)

TypeInv == TypeOK /\ IsFiniteSet(positions)

(* A request that is about to write or read again has a row in its hands.    *)
RowsInHand ==
    \A r \in Requests :
        /\ pc[r] \in {"insert", "update", "refresh", "remove"} => row[r] \in RowType
        /\ pc[r] = "update" => data[r] \in UpdateType

(* A row that was read or inserted is there or was removed.                  *)
ThereOrRemoved(id) == (\E b \in positions : Id(b) = id) \/ id \in removed

RowsAreThere ==
    \A r \in Requests : pc[r] \in {"update", "refresh"} => ThereOrRemoved(Id(row[r]))

(* A check goes on as long as it has positions left; who is no check has     *)
(* none and saw none.                                                        *)
ChecksHaveWork ==
    \A r \in Requests :
        /\ Checking(r) => todo[r] # {}
        /\ pc[r] \notin {"look", "signal", "crashed"} => todo[r] = {}
        /\ pc[r] \notin {"look", "signal", "crashed", "ok"} => seen[r] = {}
        /\ since[r] <= now

SignalledSince(r, a) == \E s \in signals : s.asset = a /\ ~s.news /\ s.expires > since[r]

(* An asset a check saw is one it has still to deal with, or is signalled.   *)
SeenIsHandled ==
    \A r \in Requests : Checking(r) \/ pc[r] = "ok" =>
        \A a \in seen[r] : (\E s \in todo[r] : s.asset = a) \/ SignalledSince(r, a)

(* A signal of a check never expires, and its check has begun.               *)
ChecksMadeThem ==
    \A s \in signals : s.from = "check" =>
        /\ ~s.news /\ s.expires = Never
        /\ pc[s.by] \in {"look", "signal", "ok", "crashed"}

(* Of two checks under way the later one met the earlier one.                *)
ChecksMeet ==
    \A q, r \in Requests : (q # r /\ Checking(q) /\ Checking(r)) =>
        q \in alongside[r] \/ r \in alongside[q]

(* A check about to signal found no signal of the asset: one that is there   *)
(* now comes from a check that met it.                                       *)
RepeatsOverlap ==
    \A r \in Requests : pc[r] = "signal" =>
        \A s \in signals : (s.from = "check" /\ s.asset = First(r).asset) =>
            s.by \in alongside[r] \/ r \in alongside[s.by]

PositionsInv == RowsInHand /\ RowsAreThere /\ ErrorsAreExplained

ChecksInv ==
    /\ ChecksHaveWork /\ SeenIsHandled
    /\ ChecksMadeThem /\ ChecksMeet /\ RepeatsOverlap
    /\ DuplicatesNeedOverlap

IInv == TypeInv /\ PositionsInv /\ ChecksInv

-----------------------------------------------------------------------------
(* Types. *)

LEMMA Constants ==
  /\ MaxTime \in Nat /\ Never \in Nat
  /\ Absent \notin RowType /\ Absent \notin UpdateType
  /\ Absent \notin [owner : Users, terms : Terms]
  /\ \A n \in Quantities \cup Prices : n \in Int /\ n \notin {Keep, Null}
BY ClockType, AbsentIsNothing, AmountsAreIntegers, NoAmountIsAbsent DEF Never

(* What a summary is computed from.                                          *)
LEMMA SummaryOperands ==
  ASSUME TypeInv, NEW p \in Portfolio, portfolios[p] # Absent, NEW quote \in Quotes
  PROVE  /\ portfolios[p].terms.cash \in Nat
         /\ portfolios[p].terms.threshold \in (Nat \ {0}) \X (Nat \ {0})
         /\ IsFiniteSet(Rows(p))
         /\ \A b \in Rows(p) :
              /\ b.asset \in Assets /\ b.quantity \in Int
              /\ quote[b.asset].price \in Nat
              /\ quote[b.asset].change \in Int /\ quote[b.asset].change >= -100
              /\ MarketValue(b, quote) \in Int
         /\ TotalOf(p, quote) \in Int
<1>1. portfolios[p] \in [owner : Users, terms : Terms]
  BY DEF TypeInv, TypeOK
<1>2. /\ portfolios[p].terms.cash \in Nat
      /\ portfolios[p].terms.threshold \in (Nat \ {0}) \X (Nat \ {0})
  BY <1>1, TermsType
<1>3. Rows(p) \subseteq RowType /\ IsFiniteSet(Rows(p))
  BY FS_Subset DEF TypeInv, TypeOK, Rows
<1>4. ASSUME NEW b \in Rows(p)
      PROVE  /\ b.asset \in Assets /\ b.quantity \in Int
             /\ quote[b.asset].price \in Nat
             /\ quote[b.asset].change \in Int /\ quote[b.asset].change >= -100
             /\ MarketValue(b, quote) \in Int
  <2>1. b.asset \in Assets /\ b.quantity \in Int
    BY <1>3, AmountsAreIntegers DEF RowType
  <2>2. /\ quote[b.asset].price \in Nat
        /\ quote[b.asset].change \in Int /\ quote[b.asset].change >= -100
    BY <2>1, QuotesType
  <2>3. MarketValue(b, quote) \in Int
    BY <2>1, <2>2 DEF MarketValue
  <2>. QED  BY <2>1, <2>2, <2>3
<1>5. TotalOf(p, quote) \in Int
  BY <1>2, <1>3, <1>4, HeldIsInteger DEF TotalOf, TotalValue
<1>. QED  BY <1>2, <1>3, <1>4, <1>5

(* What a check has to deal with: assets and scores within their bounds.     *)
LEMMA ScoredType ==
  ASSUME TypeInv, NEW p \in Portfolio, portfolios[p] # Absent, NEW quote \in Quotes
  PROVE  Scored(p, quote) \subseteq [asset : Assets, score : 0 .. 100]
<1>1. ASSUME NEW b \in Rows(p)
      PROVE  b.asset \in Assets /\ ScoreOf(PositionWeight(b, quote, TotalOf(p, quote))) \in 0 .. 100
  BY SummaryOperands, WeightIsFraction, ScoreIsBounded DEF PositionWeight
<1>. QED  BY <1>1 DEF Scored, Exceeding

LEMMA FirstIsTodo == ASSUME NEW r, todo[r] # {} PROVE First(r) \in todo[r]
BY DEF First

LEMMA InitTypeInv == Init => TypeInv
<1>. SUFFICES ASSUME Init PROVE TypeInv
  OBVIOUS
<1>1. positions \subseteq RowType /\ IsFiniteSet(positions)
  BY BooksType DEF Init
<1>2. portfolios \in [Portfolio -> [owner : Users, terms : Terms] \cup {Absent}]
  BY DEF Init
<1>. QED  BY <1>1, <1>2, Constants DEF Init, TypeInv, TypeOK, Answered

LEMMA WrittenType ==
  ASSUME NEW b \in RowType, NEW loaded \in RowType, NEW d \in UpdateType,
         Null \notin {d.quantity, d.price}
  PROVE  Written(b, loaded, d) \in RowType /\ Id(Written(b, loaded, d)) = Id(b)
<1>1. d.quantity \in Quantities \cup {Keep} /\ d.price \in Prices \cup {Keep}
  BY DEF UpdateType
<1>. QED  BY <1>1 DEF Written, RowType, Id

LEMMA NextTypeInv ==
  ASSUME IInv, [Next]_vars
  PROVE  TypeInv'
<1>. USE DEF IInv, TypeInv, TypeOK
<1>1. ASSUME NEW r \in Requests, CreatePortfolio(r) PROVE TypeInv'
  BY <1>1 DEF CreatePortfolio, Goto, Answered, checkVars
<1>2. ASSUME NEW r \in Requests, AddPosition(r) PROVE TypeInv'
  <2>1. row' \in [Requests -> RowType \cup {Absent}]
    BY <1>2 DEF AddPosition, RowType
  <2>. QED  BY <1>2, <2>1 DEF AddPosition, Goto, tables, checkVars
<1>3. ASSUME NEW r \in Requests, InsertPosition(r) PROVE TypeInv'
  <2>1. row[r] \in RowType
    BY <1>3 DEF InsertPosition, PositionsInv, RowsInHand
  <2>2. IsFiniteSet(positions')
    BY <1>3, FS_AddElement DEF InsertPosition
  <2>. QED  BY <1>3, <2>1, <2>2 DEF InsertPosition, Goto, tables, checkVars
<1>4. ASSUME NEW r \in Requests, LoadForUpdate(r) \/ LoadForRemoval(r) PROVE TypeInv'
  BY <1>4 DEF LoadForUpdate, LoadForRemoval, Goto, tables, checkVars
<1>5. ASSUME NEW r \in Requests, UpdatePosition(r) PROVE TypeInv'
  <2>1. row[r] \in RowType /\ data[r] \in UpdateType
    BY <1>5 DEF UpdatePosition, PositionsInv, RowsInHand
  <2>2. PICK b \in Current(r) :
           positions' = (positions \ {b}) \cup {Written(b, row[r], data[r])}
    BY <1>5 DEF UpdatePosition
  <2>3. Written(b, row[r], data[r]) \in RowType
    BY <1>5, <2>1, WrittenType DEF UpdatePosition, Current
  <2>4. positions' \subseteq RowType /\ IsFiniteSet(positions')
    BY <2>2, <2>3, FS_AddElement, FS_RemoveElement
  <2>. QED  BY <1>5, <2>4 DEF UpdatePosition, Goto, checkVars
<1>6. ASSUME NEW r \in Requests, RefreshPosition(r) PROVE TypeInv'
  BY <1>6 DEF RefreshPosition, Answer, Goto, Answered, tables, checkVars
<1>7. ASSUME NEW r \in Requests, RemovePosition(r) PROVE TypeInv'
  <2>1. removed' \subseteq {Id(b) : b \in RowType}
    BY <1>7 DEF RemovePosition, Current
  <2>2. positions' \subseteq positions /\ IsFiniteSet(positions')
    BY <1>7, FS_Difference DEF RemovePosition
  <2>. QED  BY <1>7, <2>1, <2>2 DEF RemovePosition, Answer, Goto, Answered, checkVars
<1>8. ASSUME NEW r \in Requests, Check(r) PROVE TypeInv'
  <2>1. PICK p \in Portfolio, u \in Users, quote \in Quotes :
          /\ Owned(p, u)
          /\ todo' = [todo EXCEPT ![r] = Scored(p, quote)]
          /\ seen' = [seen EXCEPT ![r] = {s.asset : s \in Scored(p, quote)}]
          /\ Goto(r, IF Scored(p, quote) = {} THEN "ok" ELSE "look")
    BY <1>8 DEF Check
  <2>2. Scored(p, quote) \subseteq [asset : Assets, score : 0 .. 100]
    BY <2>1, ScoredType DEF Owned
  <2>3. {s.asset : s \in Scored(p, quote)} \subseteq Assets
    BY <2>2
  <2>4. {q \in Requests : Checking(q)} \subseteq Requests
    OBVIOUS
  <2>. QED  BY <1>8, <2>1, <2>2, <2>3, <2>4 DEF Check, Goto, Answered, tables
<1>9. ASSUME NEW r \in Requests, SkipSignalled(r) \/ LookUpSignal(r) PROVE TypeInv'
  BY <1>9 DEF SkipSignalled, LookUpSignal, Rest, AfterPosition, Goto, Answered, tables, checkVars
<1>10. ASSUME NEW r \in Requests, CreateSignal(r) PROVE TypeInv'
  <2>1. First(r) \in todo[r]
    BY <1>10, FirstIsTodo DEF CreateSignal, ChecksInv, ChecksHaveWork, Checking
  <2>2. First(r).asset \in Assets /\ First(r).score \in 0 .. 100
    BY <2>1
  <2> DEFINE new == [asset |-> First(r).asset, news |-> FALSE, expires |-> Never,
                     score |-> First(r).score, by |-> r, from |-> "check"]
  <2>3. new \in SignalType
    <3>1. Never \in 1 .. Never
      BY Constants DEF Never
    <3>. QED  BY <2>2, <3>1 DEF SignalType
  <2>4. signals' \subseteq SignalType
    BY <1>10, <2>3 DEF CreateSignal
  <2>. QED  BY <1>10, <2>4 DEF CreateSignal, Rest, AfterPosition, Goto, Answered
<1>11. ASSUME NEW r \in Requests, CreateOther(r) PROVE TypeInv'
  <2>1. signals' \subseteq SignalType
    BY <1>11, Constants DEF CreateOther, SignalType, Never
  <2>. QED  BY <1>11, <2>1 DEF CreateOther, Goto, Answered, checkVars
<1>12. ASSUME NEW r \in Requests,
              \/ RefuseStranger(r) \/ RefuseDuplicate(r) \/ RefusePosition(r)
              \/ InsertMeetsDuplicate(r) \/ UpdateFails(r) \/ RefreshFails(r)
              \/ GetSummary(r) \/ Crash(r)
       PROVE  TypeInv'
  BY <1>12 DEF RefuseStranger, RefuseDuplicate, RefusePosition, InsertMeetsDuplicate, UpdateFails,
       RefreshFails, GetSummary, Crash, Refuse, Fails, Goto, Answered, tables, checkVars
<1>13. CASE Tick \/ Terminated \/ UNCHANGED vars
  BY <1>13, Constants DEF Tick, Terminated, vars, tables, checkVars
<1>. QED  BY <1>1, <1>2, <1>3, <1>4, <1>5, <1>6, <1>7, <1>8, <1>9, <1>10, <1>11, <1>12, <1>13
       DEF Next, Handle

-----------------------------------------------------------------------------
(* Rows and errors. *)

(* Updating a row keeps its id, and removing one remembers it.               *)
LEMMA RowsStayOrAreRemembered ==
  ASSUME IInv, [Next]_vars
  PROVE  /\ \A id : ThereOrRemoved(id) => ThereOrRemoved(id)'
         /\ removed \subseteq removed'
<1> DEFINE Kept(id) == /\ ThereOrRemoved(id) => (\E b \in positions' : Id(b) = id) \/ id \in removed'
                       /\ id \in removed => id \in removed'
<1>. SUFFICES ASSUME NEW id PROVE Kept(id)
  BY DEF ThereOrRemoved
<1>1. CASE UNCHANGED <<positions, removed>>
  BY <1>1 DEF ThereOrRemoved
<1>2. ASSUME NEW r \in Requests, InsertPosition(r)
      PROVE  Kept(id)
  BY <1>2 DEF InsertPosition, ThereOrRemoved
<1>3. ASSUME NEW r \in Requests, UpdatePosition(r)
      PROVE  Kept(id)
  <2>1. row[r] \in RowType /\ data[r] \in UpdateType
    BY <1>3 DEF UpdatePosition, IInv, PositionsInv, RowsInHand
  <2>2. PICK b \in Current(r) :
           positions' = (positions \ {b}) \cup {Written(b, row[r], data[r])}
    BY <1>3 DEF UpdatePosition
  <2>3. b \in RowType
    BY DEF Current, IInv, TypeInv, TypeOK
  <2>4. Id(Written(b, row[r], data[r])) = Id(b)
    BY <1>3, <2>1, <2>3, WrittenType DEF UpdatePosition
  <2>5. removed' = removed
    BY <1>3 DEF UpdatePosition
  <2>. QED  BY <2>2, <2>4, <2>5 DEF ThereOrRemoved
<1>4. ASSUME NEW r \in Requests, RemovePosition(r)
      PROVE  Kept(id)
  BY <1>4 DEF RemovePosition, ThereOrRemoved
<1>5. ASSUME NEW r \in Requests,
             \/ CreatePortfolio(r) \/ RefuseStranger(r) \/ RefuseDuplicate(r) \/ RefusePosition(r)
             \/ AddPosition(r) \/ InsertMeetsDuplicate(r) \/ LoadForUpdate(r) \/ UpdateFails(r)
             \/ RefreshPosition(r) \/ RefreshFails(r) \/ LoadForRemoval(r)
      PROVE  UNCHANGED <<positions, removed>>
  BY <1>5 DEF CreatePortfolio, RefuseStranger, RefuseDuplicate, RefusePosition, AddPosition,
       InsertMeetsDuplicate, LoadForUpdate, UpdateFails, RefreshPosition, RefreshFails,
       LoadForRemoval, Refuse, Fails, tables
<1>6. ASSUME NEW r \in Requests,
             \/ GetSummary(r) \/ Check(r) \/ SkipSignalled(r) \/ LookUpSignal(r)
             \/ CreateSignal(r) \/ CreateOther(r) \/ Crash(r)
      PROVE  UNCHANGED <<positions, removed>>
  BY <1>6 DEF GetSummary, Check, SkipSignalled, LookUpSignal, CreateSignal, CreateOther, Crash, tables
<1>7. CASE Tick \/ Terminated \/ UNCHANGED vars
  BY <1>1, <1>7 DEF Tick, Terminated, vars, tables
<1>. QED  BY <1>1, <1>2, <1>3, <1>4, <1>5, <1>6, <1>7 DEF Next, Handle

\* What PositionsInv says of one request.
InHand(q) ==
    /\ pc[q] \in {"insert", "update", "refresh", "remove"} => row[q] \in RowType
    /\ pc[q] = "update" => data[q] \in UpdateType
    /\ pc[q] \in {"update", "refresh"} => ThereOrRemoved(Id(row[q]))
    /\ pc[q] = "error" => \/ data[q] # Absent /\ Null \in {data[q].quantity, data[q].price}
                         \/ Id(row[q]) \in removed

LEMMA EachInHand == PositionsInv <=> \A q \in Requests : InHand(q)
BY DEF PositionsInv, RowsInHand, RowsAreThere, ErrorsAreExplained, InHand

\* A step of r leaves what another request has in its hands alone.
OnlyMoves(r) ==
    \A q \in Requests \ {r} : pc'[q] = pc[q] /\ row'[q] = row[q] /\ data'[q] = data[q]

LEMMA OthersInHand ==
  ASSUME IInv, [Next]_vars, NEW r, OnlyMoves(r)
  PROVE  \A q \in Requests \ {r} : InHand(q)'
<1>. SUFFICES ASSUME NEW q \in Requests \ {r} PROVE InHand(q)'
  OBVIOUS
<1>1. InHand(q)
  BY EachInHand DEF IInv
<1>2. pc'[q] = pc[q] /\ row'[q] = row[q] /\ data'[q] = data[q]
  BY DEF OnlyMoves
<1>3. ThereOrRemoved(Id(row[q])) => ThereOrRemoved(Id(row[q]))'
  BY <1>2, RowsStayOrAreRemembered DEF ThereOrRemoved
<1>. QED  BY <1>1, <1>2, <1>3, RowsStayOrAreRemembered DEF InHand

\* A step after which a request has nothing in hand that matters.
LetsGo(r) ==
    /\ OnlyMoves(r)
    /\ pc'[r] \in {"ok", "refused", "crashed", "look", "signal"}

LEMMA StepsThatLetGo ==
  ASSUME TypeInv, NEW r \in Requests,
         \/ CreatePortfolio(r) \/ RefuseStranger(r) \/ RefuseDuplicate(r) \/ RefusePosition(r)
         \/ InsertMeetsDuplicate(r) \/ RefreshPosition(r) \/ RemovePosition(r) \/ GetSummary(r)
         \/ Check(r) \/ SkipSignalled(r) \/ LookUpSignal(r) \/ CreateSignal(r)
         \/ CreateOther(r) \/ Crash(r)
  PROVE  LetsGo(r)
<1>. USE DEF TypeInv, TypeOK, LetsGo, OnlyMoves, Goto
<1>1. CASE CreatePortfolio(r)  BY <1>1 DEF CreatePortfolio
<1>2. CASE RefuseStranger(r) \/ RefuseDuplicate(r) \/ RefusePosition(r) \/ InsertMeetsDuplicate(r)
  BY <1>2 DEF RefuseStranger, RefuseDuplicate, RefusePosition, InsertMeetsDuplicate, Refuse
<1>3. CASE RefreshPosition(r) \/ RemovePosition(r)
  BY <1>3 DEF RefreshPosition, RemovePosition, Answer
<1>4. CASE GetSummary(r) \/ Crash(r)  BY <1>4 DEF GetSummary, Crash
<1>5. CASE Check(r)  BY <1>5 DEF Check
<1>6. CASE SkipSignalled(r) \/ LookUpSignal(r) \/ CreateSignal(r)
  BY <1>6 DEF SkipSignalled, LookUpSignal, CreateSignal, AfterPosition
<1>7. CASE CreateOther(r)  BY <1>7 DEF CreateOther
<1>. QED  BY <1>1, <1>2, <1>3, <1>4, <1>5, <1>6, <1>7

LEMMA NextPositionsInv ==
  ASSUME IInv, [Next]_vars
  PROVE  PositionsInv'
<1>. SUFFICES \A q \in Requests : InHand(q)'
  BY DEF PositionsInv, RowsInHand, RowsAreThere, ErrorsAreExplained, InHand
<1>t. TypeInv
  BY DEF IInv
<1>h. \A q \in Requests : InHand(q)
  BY EachInHand DEF IInv
<1>o. ASSUME NEW r \in Requests, OnlyMoves(r), InHand(r)' PROVE \A q \in Requests : InHand(q)'
  BY <1>o, OthersInHand
<1>1. ASSUME NEW r \in Requests, LetsGo(r) PROVE \A q \in Requests : InHand(q)'
  BY <1>1, <1>o DEF LetsGo, InHand
<1>2. ASSUME NEW r \in Requests, AddPosition(r) PROVE \A q \in Requests : InHand(q)'
  <2>1. PICK p \in Portfolio, a \in Assets, n \in Quantities, price \in Prices :
          row' = [row EXCEPT ![r] = [portfolio |-> p, asset |-> a, by |-> r,
                                     quantity |-> n, price |-> price]]
    BY <1>2 DEF AddPosition
  <2>2. row'[r] \in RowType
    BY <1>t, <2>1 DEF TypeInv, TypeOK, RowType
  <2>3. pc'[r] = "insert"
    BY <1>2, <1>t DEF AddPosition, Goto, TypeInv, TypeOK
  <2>4. OnlyMoves(r)
    BY <1>2, <1>t, <2>1 DEF AddPosition, Goto, TypeInv, TypeOK, OnlyMoves
  <2>. QED  BY <1>o, <2>2, <2>3, <2>4 DEF InHand
<1>3. ASSUME NEW r \in Requests, InsertPosition(r) PROVE \A q \in Requests : InHand(q)'
  <2>1. OnlyMoves(r) /\ pc'[r] = "refresh" /\ row'[r] = row[r]
    BY <1>3, <1>t DEF InsertPosition, Goto, TypeInv, TypeOK, OnlyMoves
  <2>2. row[r] \in RowType /\ row[r] \in positions'
    BY <1>3, <1>h DEF InsertPosition, InHand
  <2>. QED  BY <1>o, <2>1, <2>2 DEF InHand, ThereOrRemoved
<1>4. ASSUME NEW r \in Requests, LoadForUpdate(r) PROVE \A q \in Requests : InHand(q)'
  <2>1. PICK b \in positions, d \in UpdateType :
          row' = [row EXCEPT ![r] = b] /\ data' = [data EXCEPT ![r] = d]
    BY <1>4 DEF LoadForUpdate
  <2>2. OnlyMoves(r) /\ pc'[r] = "update" /\ row'[r] = b /\ data'[r] = d
    BY <1>4, <1>t, <2>1 DEF LoadForUpdate, Goto, TypeInv, TypeOK, OnlyMoves
  <2>3. b \in RowType /\ b \in positions'
    BY <1>4, <1>t DEF LoadForUpdate, TypeInv, TypeOK, tables
  <2>. QED  BY <1>o, <2>2, <2>3 DEF InHand, ThereOrRemoved
<1>5. ASSUME NEW r \in Requests, UpdatePosition(r) PROVE \A q \in Requests : InHand(q)'
  <2>1. OnlyMoves(r) /\ pc'[r] = "refresh" /\ row'[r] = row[r]
    BY <1>5, <1>t DEF UpdatePosition, Goto, TypeInv, TypeOK, OnlyMoves
  <2>2. row[r] \in RowType /\ ThereOrRemoved(Id(row[r]))
    BY <1>5, <1>h DEF UpdatePosition, InHand
  <2>3. ThereOrRemoved(Id(row[r]))'
    BY <2>1, <2>2, RowsStayOrAreRemembered DEF ThereOrRemoved
  <2>. QED  BY <1>o, <2>1, <2>2, <2>3 DEF InHand
<1>6. ASSUME NEW r \in Requests, UpdateFails(r) PROVE \A q \in Requests : InHand(q)'
  <2>1. OnlyMoves(r) /\ pc'[r] = "error" /\ row'[r] = row[r] /\ data'[r] = data[r] /\ removed' = removed
    BY <1>6, <1>t DEF UpdateFails, Fails, Goto, TypeInv, TypeOK, OnlyMoves, tables
  <2>2. data[r] # Absent /\ ThereOrRemoved(Id(row[r]))
    BY <1>6, <1>h, Constants DEF UpdateFails, InHand
  <2>3. Id(row[r]) \in removed \/ Null \in {data[r].quantity, data[r].price}
    BY <1>6, <2>2 DEF UpdateFails, Current, ThereOrRemoved
  <2>. QED  BY <1>o, <2>1, <2>2, <2>3 DEF InHand
<1>7. ASSUME NEW r \in Requests, RefreshFails(r) PROVE \A q \in Requests : InHand(q)'
  <2>1. OnlyMoves(r) /\ pc'[r] = "error" /\ row'[r] = row[r] /\ removed' = removed
    BY <1>7, <1>t DEF RefreshFails, Fails, Goto, TypeInv, TypeOK, OnlyMoves, tables
  <2>2. Id(row[r]) \in removed
    BY <1>7, <1>h DEF RefreshFails, InHand, Current, ThereOrRemoved
  <2>. QED  BY <1>o, <2>1, <2>2 DEF InHand
<1>8. ASSUME NEW r \in Requests, LoadForRemoval(r) PROVE \A q \in Requests : InHand(q)'
  <2>1. OnlyMoves(r) /\ pc'[r] = "remove" /\ row'[r] \in RowType
    BY <1>8, <1>t DEF LoadForRemoval, Goto, TypeInv, TypeOK, OnlyMoves
  <2>. QED  BY <1>o, <2>1 DEF InHand
<1>9. CASE Tick \/ Terminated \/ UNCHANGED vars
  BY <1>9, <1>h DEF Tick, Terminated, vars, tables, InHand, ThereOrRemoved
<1>. QED  BY <1>t, <1>1, <1>2, <1>3, <1>4, <1>5, <1>6, <1>7, <1>8, <1>9, StepsThatLetGo
       DEF Next, Handle

-----------------------------------------------------------------------------
(* Checks and signals. *)

\* A step of a request that is no check.
Beside(r) ==
    /\ pc[r] \in {"idle", "insert", "update", "refresh", "remove"}
    /\ \E place \in {"insert", "update", "refresh", "remove", "ok", "refused", "error"} :
         pc' = [pc EXCEPT ![r] = place]
    /\ UNCHANGED <<signals, now, checkVars>>

LEMMA StepsBeside ==
  ASSUME NEW r \in Requests,
         \/ CreatePortfolio(r) \/ RefuseStranger(r) \/ RefuseDuplicate(r) \/ RefusePosition(r)
         \/ AddPosition(r) \/ InsertPosition(r) \/ InsertMeetsDuplicate(r)
         \/ LoadForUpdate(r) \/ UpdatePosition(r) \/ UpdateFails(r)
         \/ RefreshPosition(r) \/ RefreshFails(r)
         \/ LoadForRemoval(r) \/ RemovePosition(r) \/ GetSummary(r)
  PROVE  Beside(r)
<1>. USE DEF Beside, Goto, Refuse, Fails, Answer, tables
<1>1. CASE CreatePortfolio(r) \/ RefuseStranger(r) \/ RefuseDuplicate(r) \/ RefusePosition(r)
  BY <1>1 DEF CreatePortfolio, RefuseStranger, RefuseDuplicate, RefusePosition
<1>2. CASE AddPosition(r) \/ InsertPosition(r) \/ InsertMeetsDuplicate(r)
  BY <1>2 DEF AddPosition, InsertPosition, InsertMeetsDuplicate
<1>3. CASE LoadForUpdate(r) \/ UpdatePosition(r) \/ UpdateFails(r)
  BY <1>3 DEF LoadForUpdate, UpdatePosition, UpdateFails
<1>4. CASE RefreshPosition(r) \/ RefreshFails(r)
  BY <1>4 DEF RefreshPosition, RefreshFails
<1>5. CASE LoadForRemoval(r) \/ RemovePosition(r) \/ GetSummary(r)
  BY <1>5 DEF LoadForRemoval, RemovePosition, GetSummary
<1>. QED  BY <1>1, <1>2, <1>3, <1>4, <1>5

\* The check r deals with its first position and goes on.
DealsWith(r) ==
    /\ todo' = [todo EXCEPT ![r] = @ \ {First(r)}]
    /\ pc' = [pc EXCEPT ![r] = IF todo[r] = {First(r)} THEN "ok" ELSE "look"]
    /\ UNCHANGED <<now, seen, since, alongside>>

(* A signal in force now expires after a check that began before.            *)
LEMMA NothingOutlivesNever ==
  ASSUME TypeInv, ChecksHaveWork, NEW r \in Requests
  PROVE  /\ since[r] < Never
         /\ \A s \in signals : Unexpired(s) => s.expires > since[r]
<1>1. now \in Nat /\ now < Never /\ since[r] \in Nat /\ since[r] <= now
  BY ClockType DEF TypeInv, TypeOK, ChecksHaveWork, Never
<1>2. \A s \in signals : s.expires \in Int
  BY ClockType DEF TypeInv, TypeOK, SignalType, Never
<1>. QED  BY <1>1, <1>2, Constants DEF Unexpired

LEMMA StepsOfChecks ==
  ASSUME NEW r \in Requests, SkipSignalled(r) \/ CreateSignal(r)
  PROVE  pc[r] \in {"look", "signal"} /\ DealsWith(r)
BY DEF SkipSignalled, CreateSignal, DealsWith, Rest, AfterPosition, Goto

LEMMA StepKinds ==
  ASSUME [Next]_vars
  PROVE  \/ \E r \in Requests :
              \/ Beside(r) \/ Check(r) \/ SkipSignalled(r) \/ LookUpSignal(r) \/ CreateSignal(r)
              \/ CreateOther(r) \/ Crash(r)
         \/ Tick \/ UNCHANGED vars
BY StepsBeside DEF Next, Handle, Terminated

LEMMA ChecksHaveWorkNext ==
  ASSUME IInv, [Next]_vars
  PROVE  ChecksHaveWork'
<1>. USE DEF IInv, ChecksInv, ChecksHaveWork, Checking
<1>1. pc \in [Requests -> {"idle", "insert", "update", "refresh", "remove", "look", "signal"} \cup Answered]
      /\ todo \in [Requests -> SUBSET [asset : Assets, score : 0 .. 100]]
      /\ seen \in [Requests -> SUBSET Assets]
      /\ since \in [Requests -> 0 .. MaxTime] /\ now \in Nat
  BY ClockType DEF TypeInv, TypeOK
<1>2. ASSUME NEW r \in Requests, Beside(r) PROVE ChecksHaveWork'
  BY <1>1, <1>2 DEF Beside, checkVars
<1>3. ASSUME NEW r \in Requests, Check(r) PROVE ChecksHaveWork'
  <2>1. PICK scored : /\ todo' = [todo EXCEPT ![r] = scored]
                      /\ pc' = [pc EXCEPT ![r] = IF scored = {} THEN "ok" ELSE "look"]
    BY <1>3 DEF Check, Goto
  <2>2. since' = [since EXCEPT ![r] = now] /\ now' = now
        /\ \A q \in Requests \ {r} : seen'[q] = seen[q]
    BY <1>3, <1>1 DEF Check
  <2>. QED  BY <1>1, <2>1, <2>2
<1>4. ASSUME NEW r \in Requests, pc[r] \in {"look", "signal"}, DealsWith(r) PROVE ChecksHaveWork'
  <2>1. First(r) \in todo[r]
    BY <1>4, FirstIsTodo
  <2>2. todo[r] \ {First(r)} = {} <=> todo[r] = {First(r)}
    BY <2>1
  <2>. QED  BY <1>1, <1>4, <2>2 DEF DealsWith
<1>5. ASSUME NEW r \in Requests, LookUpSignal(r) PROVE ChecksHaveWork'
  BY <1>1, <1>5 DEF LookUpSignal, Goto, checkVars
<1>6. ASSUME NEW r \in Requests, CreateOther(r) PROVE ChecksHaveWork'
  BY <1>1, <1>6 DEF CreateOther, Goto, checkVars
<1>7. ASSUME NEW r \in Requests, Crash(r) PROVE ChecksHaveWork'
  BY <1>1, <1>7 DEF Crash, Goto, checkVars
<1>8. CASE Tick \/ UNCHANGED vars
  BY <1>1, <1>8 DEF Tick, vars, checkVars
<1>. QED  BY <1>2, <1>3, <1>4, <1>5, <1>6, <1>7, <1>8, StepsOfChecks, StepKinds

LEMMA SeenIsHandledNext ==
  ASSUME IInv, [Next]_vars
  PROVE  SeenIsHandled'
<1>. USE DEF IInv, ChecksInv, SeenIsHandled, SignalledSince, Checking
<1>1. pc \in [Requests -> {"idle", "insert", "update", "refresh", "remove", "look", "signal"} \cup Answered]
      /\ todo \in [Requests -> SUBSET [asset : Assets, score : 0 .. 100]]
      /\ seen \in [Requests -> SUBSET Assets]
      /\ since \in [Requests -> 0 .. MaxTime]
  BY DEF TypeInv, TypeOK
<1>2. ASSUME NEW r \in Requests, Beside(r) PROVE SeenIsHandled'
  <2>1. seen[r] = {}
    BY <1>2 DEF Beside, ChecksHaveWork
  <2>. QED  BY <1>1, <1>2, <2>1 DEF Beside, checkVars
<1>3. ASSUME NEW r \in Requests, Check(r) PROVE SeenIsHandled'
  <2>1. PICK scored : /\ todo' = [todo EXCEPT ![r] = scored]
                      /\ seen' = [seen EXCEPT ![r] = {s.asset : s \in scored}]
    BY <1>3 DEF Check
  <2>2. \A q \in Requests \ {r} : pc'[q] = pc[q] /\ since'[q] = since[q]
    BY <1>1, <1>3 DEF Check, Goto
  <2>3. signals' = signals
    BY <1>3 DEF Check, tables
  <2>. QED  BY <1>1, <2>1, <2>2, <2>3
<1>4. ASSUME NEW r \in Requests, pc[r] \in {"look", "signal"}, DealsWith(r),
             signals \subseteq signals',
             \E s \in signals' : s.asset = First(r).asset /\ ~s.news /\ s.expires > since[r]
      PROVE  SeenIsHandled'
  <2>1. \A q \in Requests \ {r} : pc'[q] = pc[q] /\ todo'[q] = todo[q]
    BY <1>1, <1>4 DEF DealsWith
  <2>2. todo'[r] = todo[r] \ {First(r)}
    BY <1>1, <1>4 DEF DealsWith
  <2>3. seen' = seen /\ since' = since
    BY <1>4 DEF DealsWith
  <2>. QED  BY <1>1, <1>4, <2>1, <2>2, <2>3
<1>5. ASSUME NEW r \in Requests, SkipSignalled(r) PROVE SeenIsHandled'
  <2>1. \E s \in signals' : s.asset = First(r).asset /\ ~s.news /\ s.expires > since[r]
    BY <1>5, NothingOutlivesNever DEF SkipSignalled, Active, tables
  <2>2. signals \subseteq signals'
    BY <1>5 DEF SkipSignalled, tables
  <2>. QED  BY <1>4, <1>5, <2>1, <2>2, StepsOfChecks
<1>6. ASSUME NEW r \in Requests, CreateSignal(r) PROVE SeenIsHandled'
  <2> DEFINE new == [asset |-> First(r).asset, news |-> FALSE, expires |-> Never,
                     score |-> First(r).score, by |-> r, from |-> "check"]
  <2>1. new \in signals' /\ new.asset = First(r).asset /\ ~new.news /\ new.expires = Never
    BY <1>6 DEF CreateSignal
  <2>2. signals \subseteq signals' /\ Never > since[r]
    BY <1>1, <1>6, Constants, NothingOutlivesNever DEF CreateSignal
  <2>. QED  BY <1>4, <1>6, <2>1, <2>2, StepsOfChecks
<1>7. ASSUME NEW r \in Requests, LookUpSignal(r) PROVE SeenIsHandled'
  BY <1>1, <1>7 DEF LookUpSignal, Goto, checkVars, tables
<1>8. ASSUME NEW r \in Requests, CreateOther(r) PROVE SeenIsHandled'
  <2>1. seen[r] = {}
    BY <1>8 DEF CreateOther, ChecksHaveWork
  <2>2. signals \subseteq signals' /\ UNCHANGED checkVars
    BY <1>8 DEF CreateOther
  <2>3. \A q \in Requests \ {r} : pc'[q] = pc[q]
    BY <1>1, <1>8 DEF CreateOther, Goto
  <2>. QED  BY <1>1, <2>1, <2>2, <2>3 DEF checkVars
<1>9. ASSUME NEW r \in Requests, Crash(r) PROVE SeenIsHandled'
  BY <1>1, <1>9 DEF Crash, Goto, checkVars, tables
<1>10. CASE Tick \/ UNCHANGED vars
  BY <1>1, <1>10 DEF Tick, vars, checkVars, tables
<1>. QED  BY <1>2, <1>3, <1>5, <1>6, <1>7, <1>8, <1>9, <1>10, StepKinds

LEMMA ChecksMadeThemNext ==
  ASSUME IInv, [Next]_vars
  PROVE  ChecksMadeThem'
<1>. USE DEF IInv, ChecksInv, ChecksMadeThem
<1>1. pc \in [Requests -> {"idle", "insert", "update", "refresh", "remove", "look", "signal"} \cup Answered]
      /\ \A s \in signals : s.by \in Requests
  BY DEF TypeInv, TypeOK, SignalType
<1>2. ASSUME NEW r \in Requests, Beside(r) PROVE ChecksMadeThem'
  BY <1>1, <1>2 DEF Beside
<1>3. ASSUME NEW r \in Requests, Check(r) PROVE ChecksMadeThem'
  <2>1. pc[r] = "idle" /\ signals' = signals
    BY <1>3 DEF Check, tables
  <2>2. \A q \in Requests \ {r} : pc'[q] = pc[q]
    BY <1>1, <1>3 DEF Check, Goto
  <2>. QED  BY <1>1, <2>1, <2>2
<1>4. ASSUME NEW r \in Requests, SkipSignalled(r) PROVE ChecksMadeThem'
  BY <1>1, <1>4, StepsOfChecks DEF DealsWith, SkipSignalled, tables
<1>5. ASSUME NEW r \in Requests, CreateSignal(r) PROVE ChecksMadeThem'
  <2>1. pc'[r] \in {"ok", "look"} /\ \A q \in Requests \ {r} : pc'[q] = pc[q]
    BY <1>1, <1>5, StepsOfChecks DEF DealsWith
  <2>2. \A s \in signals' \ signals : s.by = r /\ ~s.news /\ s.expires = Never
    BY <1>5 DEF CreateSignal
  <2>. QED  BY <1>1, <2>1, <2>2
<1>6. ASSUME NEW r \in Requests, LookUpSignal(r) PROVE ChecksMadeThem'
  BY <1>1, <1>6 DEF LookUpSignal, Goto, tables
<1>7. ASSUME NEW r \in Requests, CreateOther(r) PROVE ChecksMadeThem'
  <2>1. \A s \in signals' \ signals : s.from # "check"
    BY <1>7 DEF CreateOther
  <2>2. pc[r] = "idle" /\ \A q \in Requests \ {r} : pc'[q] = pc[q]
    BY <1>1, <1>7 DEF CreateOther, Goto
  <2>. QED  BY <1>1, <2>1, <2>2
<1>8. ASSUME NEW r \in Requests, Crash(r) PROVE ChecksMadeThem'
  BY <1>1, <1>8 DEF Crash, Goto, tables
<1>9. CASE Tick \/ UNCHANGED vars
  BY <1>9 DEF Tick, vars, tables
<1>. QED  BY <1>2, <1>3, <1>4, <1>5, <1>6, <1>7, <1>8, <1>9, StepKinds

LEMMA ChecksMeetNext ==
  ASSUME IInv, [Next]_vars
  PROVE  ChecksMeet'
<1>. USE DEF IInv, ChecksInv, ChecksMeet, Checking
<1>1. pc \in [Requests -> {"idle", "insert", "update", "refresh", "remove", "look", "signal"} \cup Answered]
      /\ alongside \in [Requests -> SUBSET Requests]
  BY DEF TypeInv, TypeOK
<1>2. ASSUME NEW r \in Requests, Check(r) PROVE ChecksMeet'
  <2>1. alongside' = [alongside EXCEPT ![r] = {q \in Requests : Checking(q)}]
    BY <1>2 DEF Check
  <2>2. \A q \in Requests \ {r} : pc'[q] = pc[q]
    BY <1>1, <1>2 DEF Check, Goto
  <2>. QED  BY <1>1, <2>1, <2>2
<1>3. ASSUME NEW r \in Requests, alongside' = alongside,
             \/ pc'[r] \notin {"look", "signal"} \/ pc[r] \in {"look", "signal"},
             \A q \in Requests \ {r} : pc'[q] = pc[q]
      PROVE  ChecksMeet'
  BY <1>1, <1>3
<1>4. ASSUME NEW r \in Requests, Beside(r) PROVE ChecksMeet'
  BY <1>1, <1>3, <1>4 DEF Beside, checkVars
<1>5. ASSUME NEW r \in Requests, SkipSignalled(r) \/ CreateSignal(r) PROVE ChecksMeet'
  BY <1>1, <1>3, <1>5, StepsOfChecks DEF DealsWith
<1>6. ASSUME NEW r \in Requests, LookUpSignal(r) PROVE ChecksMeet'
  BY <1>1, <1>3, <1>6 DEF LookUpSignal, Goto, checkVars
<1>7. ASSUME NEW r \in Requests, CreateOther(r) \/ Crash(r) PROVE ChecksMeet'
  BY <1>1, <1>3, <1>7 DEF CreateOther, Crash, Goto, checkVars
<1>8. CASE Tick \/ UNCHANGED vars
  BY <1>8 DEF Tick, vars, checkVars
<1>. QED  BY <1>2, <1>4, <1>5, <1>6, <1>7, <1>8, StepKinds

LEMMA RepeatsOverlapNext ==
  ASSUME IInv, [Next]_vars
  PROVE  RepeatsOverlap'
<1>. USE DEF IInv, ChecksInv, RepeatsOverlap
<1>1. pc \in [Requests -> {"idle", "insert", "update", "refresh", "remove", "look", "signal"} \cup Answered]
      /\ todo \in [Requests -> SUBSET [asset : Assets, score : 0 .. 100]]
      /\ alongside \in [Requests -> SUBSET Requests]
      /\ \A s \in signals : s.by \in Requests
  BY DEF TypeInv, TypeOK, SignalType
<1>2. \A q \in Requests : todo'[q] = todo[q] => First(q)' = First(q)
  BY DEF First
<1>3. ASSUME NEW r \in Requests, pc'[r] # "signal",
             \A q \in Requests \ {r} : pc'[q] = pc[q] /\ todo'[q] = todo[q],
             alongside' = alongside,
             \A s \in signals' \ signals : s.from # "check"
      PROVE  RepeatsOverlap'
  BY <1>2, <1>3
<1>4. ASSUME NEW r \in Requests, Beside(r) PROVE RepeatsOverlap'
  BY <1>1, <1>3, <1>4 DEF Beside, checkVars
<1>5. ASSUME NEW r \in Requests, Check(r) PROVE RepeatsOverlap'
  <2>1. pc[r] = "idle" /\ pc'[r] # "signal" /\ signals' = signals
    BY <1>1, <1>5 DEF Check, Goto, tables
  <2>2. \A q \in Requests \ {r} :
           pc'[q] = pc[q] /\ todo'[q] = todo[q] /\ alongside'[q] = alongside[q]
    BY <1>1, <1>5 DEF Check, Goto
  <2>3. \A s \in signals : s.from = "check" => s.by # r
    BY <2>1 DEF ChecksMadeThem
  <2>. QED  BY <1>1, <1>2, <2>1, <2>2, <2>3
<1>6. ASSUME NEW r \in Requests, SkipSignalled(r) PROVE RepeatsOverlap'
  <2>1. signals' = signals
    BY <1>6 DEF SkipSignalled, tables
  <2>. QED  BY <1>1, <1>3, <1>6, <2>1, StepsOfChecks DEF DealsWith
<1>7. ASSUME NEW r \in Requests, LookUpSignal(r) PROVE RepeatsOverlap'
  <2>1. UNCHANGED <<signals, checkVars>>
    BY <1>7 DEF LookUpSignal, tables
  <2>2. \A q \in Requests \ {r} : pc'[q] = pc[q]
    BY <1>1, <1>7 DEF LookUpSignal, Goto
  <2>3. \A s \in signals : ~(s.from = "check" /\ s.asset = First(r).asset)
    BY <1>7 DEF LookUpSignal, Active, Unexpired, ChecksMadeThem
  <2>. QED  BY <1>2, <2>1, <2>2, <2>3 DEF checkVars
<1>8. ASSUME NEW r \in Requests, CreateSignal(r) PROVE RepeatsOverlap'
  <2>1. \A s \in signals' \ signals : s.by = r
    BY <1>8 DEF CreateSignal
  <2>2. pc'[r] # "signal" /\ alongside' = alongside
        /\ \A q \in Requests \ {r} : pc'[q] = pc[q] /\ todo'[q] = todo[q]
    BY <1>1, <1>8, StepsOfChecks DEF DealsWith
  <2>3. \A q \in Requests \ {r} : pc[q] = "signal" => q \in alongside[r] \/ r \in alongside[q]
    BY <1>8 DEF CreateSignal, ChecksMeet, Checking
  <2>. QED  BY <1>2, <2>1, <2>2, <2>3
<1>9. ASSUME NEW r \in Requests, CreateOther(r) PROVE RepeatsOverlap'
  <2>1. \A s \in signals' \ signals : s.from # "check"
    BY <1>9 DEF CreateOther
  <2>. QED  BY <1>1, <1>3, <1>9, <2>1 DEF CreateOther, Goto, checkVars
<1>10. ASSUME NEW r \in Requests, Crash(r) PROVE RepeatsOverlap'
  BY <1>1, <1>3, <1>10 DEF Crash, Goto, checkVars, tables
<1>11. CASE Tick \/ UNCHANGED vars
  BY <1>2, <1>11 DEF Tick, vars, checkVars, tables
<1>. QED  BY <1>4, <1>5, <1>6, <1>7, <1>8, <1>9, <1>10, <1>11, StepKinds

LEMMA DuplicatesNeedOverlapNext ==
  ASSUME IInv, [Next]_vars
  PROVE  DuplicatesNeedOverlap'
<1>. USE DEF IInv, ChecksInv, DuplicatesNeedOverlap
<1>1. alongside \in [Requests -> SUBSET Requests] /\ \A s \in signals : s.by \in Requests
  BY DEF TypeInv, TypeOK, SignalType
<1>2. ASSUME alongside' = alongside, \A s \in signals' \ signals : s.from # "check"
      PROVE  DuplicatesNeedOverlap'
  BY <1>2
<1>3. ASSUME NEW r \in Requests, Check(r) PROVE DuplicatesNeedOverlap'
  <2>1. pc[r] = "idle" /\ signals' = signals
    BY <1>3 DEF Check, tables
  <2>2. \A q \in Requests \ {r} : alongside'[q] = alongside[q]
    BY <1>1, <1>3 DEF Check
  <2>3. \A s \in signals : s.from = "check" => s.by # r
    BY <2>1 DEF ChecksMadeThem
  <2>. QED  BY <1>1, <2>1, <2>2, <2>3
<1>4. ASSUME NEW r \in Requests, CreateSignal(r) PROVE DuplicatesNeedOverlap'
  <2>1. alongside' = alongside
    BY <1>4 DEF CreateSignal
  <2> DEFINE new == [asset |-> First(r).asset, news |-> FALSE, expires |-> Never,
                     score |-> First(r).score, by |-> r, from |-> "check"]
  <2>2. signals' = signals \cup {new} /\ new.by = r /\ new.asset = First(r).asset
    BY <1>4 DEF CreateSignal
  <2>3. \A s \in signals : (s.from = "check" /\ s.asset = First(r).asset) =>
           s.by \in alongside[r] \/ r \in alongside[s.by]
    BY <1>4 DEF CreateSignal, RepeatsOverlap
  <2> HIDE DEF new
  <2>. QED  BY <2>1, <2>2, <2>3
<1>5. ASSUME NEW r \in Requests, CreateOther(r) PROVE DuplicatesNeedOverlap'
  <2>1. \A s \in signals' \ signals : s.from # "check"
    BY <1>5 DEF CreateOther
  <2>. QED  BY <1>2, <1>5, <2>1 DEF CreateOther, checkVars
<1>6. ASSUME NEW r \in Requests, Beside(r) \/ SkipSignalled(r) \/ LookUpSignal(r) \/ Crash(r)
      PROVE  DuplicatesNeedOverlap'
  BY <1>2, <1>6 DEF Beside, SkipSignalled, LookUpSignal, Crash, checkVars, tables
<1>7. CASE Tick \/ UNCHANGED vars
  BY <1>2, <1>7 DEF Tick, vars, checkVars, tables
<1>. QED  BY <1>3, <1>4, <1>5, <1>6, <1>7, StepKinds

-----------------------------------------------------------------------------
(* The figures of a summary. *)

(* The largest weight is over the threshold if and only if there is one that *)
(* is, whatever the signs of values and total.                               *)
LEMMA LargestDecides ==
  ASSUME NEW summary, IsFiniteSet(summary.weights), \A w \in summary.weights : w \in FractionType,
         NEW threshold \in (Nat \ {0}) \X (Nat \ {0})
  PROVE  IsConcentrated(summary, threshold) <=> \E w \in summary.weights : Below(threshold, w)
<1>. DEFINE weights == summary.weights
<1>1. threshold[1] \in Nat /\ threshold[1] > 0 /\ threshold \in FractionType
  BY DEF FractionType
<1>2. CASE weights = {}
  BY <1>1, <1>2 DEF IsConcentrated, LargestWeight, Zero, Whole, Below
<1>3. CASE weights # {}
  <2>1. LargestWeight(summary) \in weights /\ \A v \in weights : AtMost(v, LargestWeight(summary))
    BY <1>3, LargestExists DEF LargestWeight
  <2>2. \A w \in weights : Below(threshold, w) => Below(threshold, LargestWeight(summary))
    BY <1>1, <2>1, BelowAtMost
  <2>. QED  BY <2>1, <2>2 DEF IsConcentrated
<1>. QED  BY <1>2, <1>3

LEMMA ReadersAlwaysAgree ==
  ASSUME TypeInv, NEW p \in Portfolio, portfolios[p] # Absent, NEW quote \in Quotes
  PROVE  ReadersAgree(p, SummaryOf(p, quote))
<1>. DEFINE summary == SummaryOf(p, quote)
            terms == portfolios[p].terms
            total == TotalOf(p, quote)
            weigh == [b \in Rows(p) |-> PositionWeight(b, quote, total)]
            over == Exceeding(Rows(p), quote, total, terms.threshold)
<1>1. /\ summary.weights = {weigh[b] : b \in Rows(p)}
      /\ summary.exceeding = {b.asset : b \in over}
      /\ summary.concentrated = (ExceedingSectors(Rows(p), quote, total, terms.threshold) # {})
      /\ summary.exposures = RiskExposures(Rows(p), quote, total, terms.cash, terms.threshold)
  BY DEF SummaryOf, Summary, TotalOf
<1>2. \A b \in Rows(p) : weigh[b] \in FractionType
  BY SummaryOperands, WeightIsFraction DEF PositionWeight
<1>3. IsFiniteSet(summary.weights)
  <2>1. IsFiniteSet(Rows(p))
    BY SummaryOperands
  <2>. HIDE DEF weigh, summary
  <2>. QED  BY <1>1, <2>1, ImageIsFinite
<1>4. Of(summary, "name") = NameExposures(Rows(p), quote, total, terms.threshold)
  BY <1>1 DEF Of, RiskExposures, SectorExposures, NameExposures, CashShortage
<1>5. Of(summary, "sector") = SectorExposures(Rows(p), quote, total, terms.threshold)
  BY <1>1 DEF Of, RiskExposures, SectorExposures, NameExposures, CashShortage
<1>6. Of(summary, "name") # {} <=> over # {}
  BY <1>4 DEF NameExposures
<1>7. over # {} <=> \E w \in summary.weights : Below(terms.threshold, w)
  BY <1>1 DEF Exceeding
<1>8. over # {} <=> IsConcentrated(summary, terms.threshold)
  BY <1>1, <1>2, <1>3, <1>7, SummaryOperands, LargestDecides
<1>9. over # {} <=> ConcentrationRisk(summary) = "high"
  <2>1. over # {} <=> summary.exceeding # {}
    BY <1>1
  <2>. HIDE DEF over, summary
  <2>. QED  BY <2>1 DEF ConcentrationRisk
<1>10. Of(summary, "sector") # {} => ConcentrationRisk(summary) # "low"
  BY <1>1, <1>5 DEF SectorExposures, ConcentrationRisk
<1>. QED  BY <1>6, <1>8, <1>9, <1>10 DEF ReadersAgree

(* Without short positions nothing is worth less than nothing.               *)
LEMMA LongOperands ==
  ASSUME TypeInv, NEW p \in Portfolio, portfolios[p] # Absent, NEW quote \in Quotes, Long(p)
  PROVE  /\ \A b \in Rows(p) : MarketValue(b, quote) \in Nat
         /\ Held(Rows(p), quote) \in Nat /\ TotalOf(p, quote) \in Nat
         /\ Held(Rows(p), quote) <= TotalOf(p, quote)
<1>1. \A b \in Rows(p) : MarketValue(b, quote) \in Nat
  <2>1. ASSUME NEW b \in Rows(p) PROVE MarketValue(b, quote) \in Nat
    <3>1. b.quantity \in Nat /\ quote[b.asset].price \in Nat
      BY SummaryOperands DEF Long
    <3>. QED  BY <3>1 DEF MarketValue
  <2>. QED  BY <2>1
<1>2. Held(Rows(p), quote) \in Nat
  BY <1>1, SummaryOperands, HeldIsMonotone
<1>. QED  BY <1>1, <1>2, SummaryOperands DEF TotalOf, TotalValue

(* What is over the threshold is a part of something.                        *)
LEMMA ExceedingHasTotal ==
  ASSUME NEW threshold \in (Nat \ {0}) \X (Nat \ {0}), NEW total, NEW value,
         Below(threshold, Weight(value, total))
  PROVE  total # 0
BY DEF Below, Weight, Zero, Whole

(* The sector of a name over the threshold is over it, at least as far.      *)
LEMMA NamesConcentrateSectors ==
  ASSUME TypeInv, NEW p \in Portfolio, portfolios[p] # Absent, NEW quote \in Quotes, Long(p),
         NEW terms, terms = portfolios[p].terms, NEW total, total = TotalOf(p, quote),
         NEW b \in Exceeding(Rows(p), quote, total, terms.threshold),
         NEW s, s = SectorOf[b.asset]
  PROVE  /\ s \in ExceedingSectors(Rows(p), quote, total, terms.threshold)
         /\ RiskLevel(PositionWeight(b, quote, total), terms.threshold) = "HIGH" =>
              RiskLevel(SectorWeight(s, Rows(p), quote, total), terms.threshold) = "HIGH"
<1>. DEFINE weight == PositionWeight(b, quote, total)
            sector == SectorWeight(s, Rows(p), quote, total)
            these == InSector(Rows(p), s)
<1>1. b \in Rows(p) /\ Below(terms.threshold, weight)
  BY DEF Exceeding
<1>2. terms.threshold \in (Nat \ {0}) \X (Nat \ {0}) /\ terms.threshold \in FractionType
  BY SummaryOperands DEF FractionType
<1>3. total \in Nat /\ total > 0
  <2>1. total # 0
    BY <1>1, <1>2, ExceedingHasTotal DEF PositionWeight
  <2>. QED  BY <2>1, LongOperands
<1>4. b \in these /\ these \subseteq Rows(p) /\ IsFiniteSet(these)
  BY <1>1, SummaryOperands, FS_Subset DEF InSector
<1>5. /\ MarketValue(b, quote) \in Nat /\ Held(these, quote) \in Nat
      /\ MarketValue(b, quote) <= Held(these, quote)
  <2>1. \A r \in Rows(p) : MarketValue(r, quote) \in Nat
    BY LongOperands
  <2>. HIDE DEF these
  <2>2. Held(these, quote) \in Nat
    BY <1>4, <2>1, SummaryOperands, HeldIsMonotone
  <2>3. MarketValue(b, quote) <= Held(these, quote)
    BY <1>4, <2>1, OneIsHeld
  <2>. QED  BY <1>1, <2>1, <2>2, <2>3
<1>6. weight = <<MarketValue(b, quote), total>> /\ sector = <<Held(these, quote), total>>
  BY <1>3 DEF PositionWeight, SectorWeight, Weight, Fraction
<1>7. weight \in FractionType /\ sector \in FractionType /\ AtMost(weight, sector)
  <2>. DEFINE v == MarketValue(b, quote)  w == Held(these, quote)
  <2>1. v \in Int /\ w \in Int /\ total \in Int
    BY <1>3, <1>5
  <2>2. v * total <= w * total
    <3>. HIDE DEF v, w
    <3>. QED  BY <1>3, <1>5, <2>1, Cancel DEF v, w
  <2>. HIDE DEF weight, sector, v, w
  <2>. QED  BY <1>3, <1>6, <2>1, <2>2 DEF FractionType, AtMost, v, w
<1>8. Times(terms.threshold, 3, 2) \in FractionType
  BY <1>2 DEF FractionType, Times, Fraction
<1>9. Below(terms.threshold, sector)
  BY <1>1, <1>2, <1>7, BelowAtMost
<1>10. AtMost(Times(terms.threshold, 3, 2), weight) => AtMost(Times(terms.threshold, 3, 2), sector)
  BY <1>7, <1>8, BelowAtMost
<1>. QED  BY <1>1, <1>9, <1>10 DEF ExceedingSectors, RiskLevel

(* The names over the threshold do not weigh more than everything.           *)
LEMMA NamesFitInTotal ==
  ASSUME TypeInv, NEW p \in Portfolio, portfolios[p] # Absent, NEW quote \in Quotes, Long(p),
         NEW terms, terms = portfolios[p].terms, NEW total, total = TotalOf(p, quote),
         NEW over, over = Exceeding(Rows(p), quote, total, terms.threshold), over # {}
  PROVE  Cardinality(over) * terms.threshold[1] < terms.threshold[2]
<1>. DEFINE low == terms.threshold[1]
            high == terms.threshold[2]
            n == Cardinality(over)
<1>1. terms.threshold \in (Nat \ {0}) \X (Nat \ {0}) /\ low \in Nat /\ high \in Nat /\ high > 0
  BY SummaryOperands
<1>2. total \in Nat /\ total > 0
  <2>1. total # 0
    BY <1>1, ExceedingHasTotal DEF Exceeding, PositionWeight
  <2>. QED  BY <2>1, LongOperands
<1>3. over \in SUBSET Rows(p) /\ IsFiniteSet(Rows(p)) /\ n \in Nat
  BY SummaryOperands, FS_Subset, FS_CardinalityType DEF Exceeding
<1>4. \A b \in Rows(p) : MarketValue(b, quote) \in Nat /\ MarketValue(b, quote) \in Int
  BY LongOperands
<1>5. PICK it : Sums(it, Rows(p), Values(Rows(p), quote))
  BY <1>3, <1>4, HeldIsSum
<1>6. it[over] = Held(over, quote) /\ Held(over, quote) \in Nat /\ Held(over, quote) <= total
  <2>1. /\ Held(over, quote) \in Nat /\ Held(over, quote) <= Held(Rows(p), quote)
        /\ it[over] = Held(over, quote)
    BY <1>3, <1>4, <1>5, HeldIsMonotone
  <2>. QED  BY <2>1, LongOperands
<1>7. \A b \in over : low * total < Values(Rows(p), quote)[b] * high
  BY <1>2, <1>3 DEF Exceeding, PositionWeight, Weight, Fraction, Below, Values
<1>8. n * (low * total) < it[over] * high
  <2>1. low * total \in Int /\ high \in Int
    BY <1>1, <1>2
  <2>2. \A b \in Rows(p) : Values(Rows(p), quote)[b] \in Int
    BY <1>4 DEF Values
  <2>. DEFINE floor == low * total
             f == Values(Rows(p), quote)
  <2>3. \A b \in over : floor < f[b] * high
    BY <1>7
  <2>. HIDE DEF low, high, floor, f
  <2>4. Cardinality(over) * floor < it[over] * high
    BY <1>3, <1>5, <2>1, <2>2, <2>3, SumIsAbove DEF floor, f
  <2>. QED  BY <2>4 DEF floor
<1>. HIDE DEF low, high, n
<1>9. it[over] * high <= total * high
  BY <1>1, <1>2, <1>6, Cancel
<1>10. (n * low) * total < high * total
  <2>1. n * (low * total) = (n * low) * total /\ total * high = high * total
    BY <1>1, <1>2, <1>3
  <2>2. (n * low) * total \in Int /\ it[over] * high \in Int /\ high * total \in Int
    BY <1>1, <1>2, <1>3, <1>6
  <2>. QED  BY <1>8, <1>9, <2>1, <2>2
<1>11. n * low \in Int
  BY <1>1, <1>3
<1>12. n * low < high
  BY <1>1, <1>2, <1>10, <1>11, Cancel
<1>. QED  BY <1>12 DEF low, high, n

LEMMA ExposuresAlwaysConsistent ==
  ASSUME TypeInv, NEW p \in Portfolio, portfolios[p] # Absent, NEW quote \in Quotes, Long(p)
  PROVE  ExposuresAreConsistent(p, SummaryOf(p, quote), quote)
<1>. DEFINE summary == SummaryOf(p, quote)
            terms == portfolios[p].terms
            total == TotalOf(p, quote)
            rows == Rows(p)
            over == Exceeding(rows, quote, total, terms.threshold)
            names == Of(summary, "name")
            NameOf(b) == [code |-> "name", of |-> b.asset,
                          level |-> RiskLevel(PositionWeight(b, quote, total), terms.threshold)]
<1>1. summary.exposures = RiskExposures(rows, quote, total, terms.cash, terms.threshold)
  BY DEF SummaryOf, Summary, TotalOf
<1>2. /\ names = NameExposures(rows, quote, total, terms.threshold)
      /\ Of(summary, "sector") = SectorExposures(rows, quote, total, terms.threshold)
  BY <1>1 DEF Of, RiskExposures, SectorExposures, NameExposures, CashShortage
<1>3. names = {NameOf(b) : b \in over}
  BY <1>2 DEF NameExposures
<1>4. ASSUME NEW e \in names, SectorOf[e.of] # Unknown
      PROVE  \E f \in Of(summary, "sector") : f.of = SectorOf[e.of] /\ Covers(f, e)
  <2>1. PICK b \in over : e = NameOf(b)
    BY <1>3
  <2>. DEFINE s == SectorOf[b.asset]
              f == [code |-> "sector", of |-> s,
                    level |-> RiskLevel(SectorWeight(s, rows, quote, total), terms.threshold)]
  <2>2. /\ s \in ExceedingSectors(rows, quote, total, terms.threshold)
        /\ RiskLevel(PositionWeight(b, quote, total), terms.threshold) = "HIGH" =>
             RiskLevel(SectorWeight(s, rows, quote, total), terms.threshold) = "HIGH"
    BY NamesConcentrateSectors
  <2>3. e.of = b.asset /\ s # Unknown
    BY <1>4, <2>1
  <2>4. f \in Of(summary, "sector")
    BY <1>2, <2>2, <2>3 DEF SectorExposures
  <2>5. f.of = SectorOf[e.of] /\ Covers(f, e)
    BY <2>1, <2>2, <2>3 DEF Covers, RiskLevel
  <2>. QED  BY <2>4, <2>5
<1>5. ASSUME names # {} PROVE Cardinality(names) * terms.threshold[1] < terms.threshold[2]
  <2>1. over # {} /\ over \subseteq rows /\ IsFiniteSet(over)
    BY <1>3, <1>5, SummaryOperands, FS_Subset DEF Exceeding
  <2>2. Cardinality(over) * terms.threshold[1] < terms.threshold[2]
    BY <2>1, NamesFitInTotal
  <2>3. IsFiniteSet(names) /\ Cardinality(names) <= Cardinality(over)
    <3>. DEFINE name == [b \in over |-> NameOf(b)]
    <3>1. names = {name[b] : b \in over}
      BY <1>3
    <3>. HIDE DEF name, names, over
    <3>. QED  BY <2>1, <3>1, ImageIsFinite
  <2>4. Cardinality(names) \in Nat /\ Cardinality(over) \in Nat
    BY <2>1, <2>3, FS_CardinalityType
  <2>5. terms.threshold[1] \in Nat /\ terms.threshold[2] \in Nat /\ terms.threshold[1] > 0
    BY SummaryOperands
  <2>. DEFINE k == Cardinality(names)  n == Cardinality(over)
              low == terms.threshold[1]  high == terms.threshold[2]
  <2>6. k \in Nat /\ n \in Nat /\ k <= n /\ low \in Nat /\ low > 0 /\ high \in Nat /\ n * low < high
    BY <2>2, <2>3, <2>4, <2>5
  <2>. HIDE DEF k, n, low, high
  <2>7. k * low <= n * low /\ k * low \in Int /\ n * low \in Int
    BY <2>6, Cancel
  <2>. QED  BY <2>6, <2>7 DEF k, n, low, high
<1>6. ASSUME total = 0 PROVE summary.exposures = {}
  <2>1. terms.threshold \in (Nat \ {0}) \X (Nat \ {0})
    BY SummaryOperands
  <2>2. \A value : ~Below(terms.threshold, Weight(value, total))
    BY <1>6, <2>1, ExceedingHasTotal
  <2>3. /\ Exceeding(rows, quote, total, terms.threshold) = {}
        /\ ExceedingSectors(rows, quote, total, terms.threshold) = {}
    BY <2>2 DEF Exceeding, ExceedingSectors, PositionWeight, SectorWeight
  <2>4. CashShortage(total, terms.cash) = {}
    BY <1>6 DEF CashShortage
  <2>. HIDE DEF total, rows, terms
  <2>. QED  BY <1>1, <2>3, <2>4 DEF RiskExposures, SectorExposures, NameExposures
<1>. QED  BY <1>4, <1>5, <1>6 DEF ExposuresAreConsistent

(* The least and the greatest of finitely many numbers.                      *)
LEMMA ExtremesExist ==
  ASSUME NEW numbers \in SUBSET Int, IsFiniteSet(numbers), numbers # {}
  PROVE  \E least \in numbers, most \in numbers : \A n \in numbers : least <= n /\ n <= most
<1>. DEFINE up == {x \in numbers \X numbers : x[1] <= x[2]}
            down == {x \in numbers \X numbers : x[2] <= x[1]}
<1>1. \A x, y \in numbers : (<<x, y>> \in up <=> x <= y) /\ (<<x, y>> \in down <=> y <= x)
  OBVIOUS
<1>2. \A x, y, z \in numbers : (x <= y \/ y <= x) /\ (x <= y /\ y <= z => x <= z)
  OBVIOUS
<1>. HIDE DEF up, down
<1>3. PICK most \in numbers : \A y \in numbers : <<y, most>> \in up
  BY <1>1, <1>2, GreatestExists
<1>4. PICK least \in numbers : \A y \in numbers : <<y, least>> \in down
  BY <1>1, <1>2, GreatestExists
<1>5. \A n \in numbers : least <= n /\ n <= most
  BY <1>1, <1>3, <1>4
<1>. QED  BY <1>5

(* The day's change, of the positions that were taken so far.                *)
LEMMA ChangeSoFarIsWithin ==
  ASSUME TypeInv, NEW p \in Portfolio, portfolios[p] # Absent, NEW quote \in Quotes, Long(p),
         NEW least \in Int, NEW most \in Int, least <= 0, 0 <= most,
         \A b \in Rows(p) : least <= quote[b.asset].change /\ quote[b.asset].change <= most
  PROVE  /\ DayChangeValue(Rows(p), quote) \in FractionType
         /\ Within(DayChangeValue(Rows(p), quote), Held(Rows(p), quote), least, most)
<1>. DEFINE rows == Rows(p)
<1>1. /\ IsFiniteSet(rows)
      /\ \A b \in rows : /\ MarketValue(b, quote) \in Nat /\ MarketValue(b, quote) \in Int
                         /\ quote[b.asset].change \in Int /\ quote[b.asset].change >= -100
                         /\ quote[b.asset].price \in Nat
  BY SummaryOperands, LongOperands
<1>2. ASSUME NEW b \in rows
      PROVE  /\ DayChange(b, quote) \in FractionType
             /\ Within(DayChange(b, quote), MarketValue(b, quote), least, most)
  <2>. DEFINE m == MarketValue(b, quote)  c == quote[b.asset].change
  <2>1. m \in Nat /\ c \in Int /\ c >= -100 /\ least <= c /\ c <= most
    BY <1>1
  <2>2. CASE quote[b.asset].price = 0 \/ c = -100
    <3>1. DayChange(b, quote) = Zero
      BY <2>2 DEF DayChange
    <3>2. Within(Zero, m, least, most)
      BY <2>1, NoChangeIsWithin
    <3>3. Zero \in FractionType
      BY DEF FractionType, Zero, Whole
    <3>. QED  BY <3>1, <3>2, <3>3
  <2>3. CASE ~(quote[b.asset].price = 0 \/ c = -100)
    <3>1. DayChange(b, quote) = Fraction(m * c, 100 + c)
      BY <2>3 DEF DayChange
    <3>2. m * c \in Int /\ 100 + c \in Int /\ 100 + c > 0 /\ c > -100
      BY <2>1, <2>3
    <3>. HIDE DEF m, c
    <3>3. Fraction(m * c, 100 + c) \in FractionType
      BY <3>2 DEF Fraction, FractionType
    <3>. QED  BY <2>1, <3>1, <3>2, <3>3, OneIsWithin DEF m, c
  <2>. QED  BY <2>2, <2>3
<1>3. PICK held : Sums(held, rows, Values(rows, quote)) /\ Held(rows, quote) = held[rows]
  BY <1>1, HeldIsSum
<1>4. PICK it :
        /\ it = [s \in SUBSET rows |-> IF s = {} THEN Zero
                                       ELSE Plus(DayChange(Pick(s), quote), it[s \ {Pick(s)}])]
        /\ \A s \in SUBSET rows : it[s] \in FractionType
        /\ DayChangeValue(rows, quote) = it[rows]
  BY <1>1, <1>2, DayChangeIsSum
<1>5. \A s \in SUBSET rows : held[s] \in Int
  <2>1. \A b \in rows : Values(rows, quote)[b] \in Int
    BY <1>1 DEF Values
  <2>. QED  BY <1>1, <1>3, <2>1, SumIsInteger
<1>. DEFINE Good == {s \in SUBSET rows : Within(it[s], held[s], least, most)}
<1>6. {} \in Good
  <2>1. held[{}] = 0 /\ it[{}] = Zero
    BY <1>3, <1>4 DEF Sums
  <2>2. Within(Zero, 0, least, most)
    BY NoChangeIsWithin
  <2>. QED  BY <2>1, <2>2
<1>7. ASSUME NEW s \in SUBSET rows, s # {}, s \ {Pick(s)} \in Good
      PROVE  s \in Good
  <2>. DEFINE b == Pick(s)  rest == s \ {b}
  <2>1. b \in rows /\ rest \in SUBSET rows
    BY <1>7, PickIsMember
  <2>2. it[s] = Plus(DayChange(b, quote), it[rest])
    BY <1>4, <1>7
  <2>3. held[s] = MarketValue(b, quote) + held[rest]
    BY <1>3, <1>7, <2>1 DEF Sums, Values
  <2>4. Within(it[rest], held[rest], least, most)
    BY <1>7
  <2>5. Within(DayChange(b, quote), MarketValue(b, quote), least, most)
    BY <1>2, <2>1
  <2>6. /\ DayChange(b, quote) \in FractionType /\ it[rest] \in FractionType
        /\ MarketValue(b, quote) \in Int /\ held[rest] \in Int
    BY <1>1, <1>2, <1>4, <1>5, <2>1
  <2>. HIDE DEF b, rest
  <2>7. Within(it[s], held[s], least, most)
    BY <2>2, <2>3, <2>4, <2>5, <2>6, SumIsWithin
  <2>. QED  BY <2>7
<1>8. rows \in Good
  <2>. HIDE DEF Good
  <2>. QED  BY <1>1, <1>6, <1>7, FoldInduction
<1>. QED  BY <1>3, <1>4, <1>8

LEMMA DayChangeAlwaysBounded ==
  ASSUME TypeInv, NEW p \in Portfolio, portfolios[p] # Absent, NEW quote \in Quotes, Long(p)
  PROVE  DayChangeIsBounded(p, SummaryOf(p, quote), quote)
<1>. DEFINE changes == {0} \cup {quote[b.asset].change : b \in Rows(p)}
            total == TotalOf(p, quote)
            change == DayChangeValue(Rows(p), quote)
            before == Minus(Whole(total), change)
            percent == SummaryOf(p, quote).change
<1>1. PICK least \in changes, most \in changes : \A n \in changes : least <= n /\ n <= most
  <2>. DEFINE changeOf == [b \in Rows(p) |-> quote[b.asset].change]
  <2>1. IsFiniteSet({changeOf[b] : b \in Rows(p)})
    <3>1. IsFiniteSet(Rows(p))
      BY SummaryOperands
    <3>. HIDE DEF changeOf
    <3>. QED  BY <3>1, ImageIsFinite
  <2>2. IsFiniteSet(changes)
    <3>1. changes = {changeOf[b] : b \in Rows(p)} \cup {0}
      OBVIOUS
    <3>. HIDE DEF changeOf, changes
    <3>. QED  BY <2>1, <3>1, FS_AddElement
  <2>3. changes \in SUBSET Int /\ changes # {}
    BY SummaryOperands
  <2>. HIDE DEF changes
  <2>. QED  BY <2>2, <2>3, ExtremesExist
<1>2. /\ least \in Int /\ most \in Int /\ least <= 0 /\ 0 <= most
      /\ \A b \in Rows(p) : least <= quote[b.asset].change /\ quote[b.asset].change <= most
  BY <1>1, SummaryOperands
<1>3. change \in FractionType /\ Within(change, Held(Rows(p), quote), least, most)
  BY <1>2, ChangeSoFarIsWithin
<1>4. percent = IF before[1] = 0 THEN Zero ELSE Fraction(100 * change[1], before[1])
  BY DEF SummaryOf, Summary, TotalOf, DayChangePercent
<1>. DEFINE v == change[1]  w == change[2]  cash == portfolios[p].terms.cash
            held == Held(Rows(p), quote)
            kept == held * w - v
<1>5. /\ v \in Int /\ w \in Int /\ w > 0 /\ cash \in Nat /\ held \in Nat /\ total = held + cash
      /\ kept >= 0 /\ 100 * v <= most * kept /\ least * kept <= 100 * v
  BY <1>3, SummaryOperands, LongOperands DEF FractionType, Within, TotalOf, TotalValue
<1>6. before[1] = total * w + (-v) * 1
  BY DEF Minus, Plus, Whole
<1>. HIDE DEF total, change, before, percent, v, w, cash, held, changes
<1>7. before[1] = cash * w + kept /\ kept \in Int
  BY <1>5, <1>6
<1>8. cash * w \in Nat
  BY <1>5
<1>9. most * (cash * w) >= 0 /\ least * (cash * w) <= 0
  BY <1>2, <1>8
<1>. HIDE DEF kept
<1>10. /\ most * before[1] = most * (cash * w) + most * kept
       /\ least * before[1] = least * (cash * w) + least * kept
  BY <1>2, <1>7, <1>8
<1>11. /\ most * (cash * w) \in Int /\ most * kept \in Int
       /\ least * (cash * w) \in Int /\ least * kept \in Int
  BY <1>2, <1>7, <1>8
<1>12. 100 * v <= most * before[1] /\ least * before[1] <= 100 * v
  BY <1>5, <1>9, <1>10, <1>11
<1>13. before[1] \in Nat
  BY <1>5, <1>7, <1>8
<1>14. AtMost(Whole(least), percent) /\ AtMost(percent, Whole(most))
  <2>1. CASE before[1] = 0
    BY <1>2, <1>4, <2>1 DEF AtMost, Whole, Zero
  <2>2. CASE before[1] # 0
    <3>1. percent = <<100 * v, before[1]>>
      BY <1>4, <1>5, <1>13, <2>2 DEF Fraction, v
    <3>. QED  BY <1>2, <1>5, <1>12, <1>13, <3>1 DEF AtMost, Whole
  <2>. QED  BY <2>1, <2>2
<1>. QED  BY <1>1, <1>14 DEF DayChangeIsBounded, changes, percent

LEMMA SummariesAreConsistent == TypeInv => SummaryIsConsistent
BY ReadersAlwaysAgree, ExposuresAlwaysConsistent, DayChangeAlwaysBounded DEF SummaryIsConsistent

-----------------------------------------------------------------------------
LEMMA InitIInv == Init => IInv
<1>. SUFFICES ASSUME Init PROVE IInv
  OBVIOUS
<1>1. PositionsInv
  BY DEF Init, PositionsInv, RowsInHand, RowsAreThere, ErrorsAreExplained
<1>2. ChecksInv
  BY DEF Init, ChecksInv, ChecksHaveWork, SeenIsHandled, ChecksMadeThem, ChecksMeet, RepeatsOverlap,
     DuplicatesNeedOverlap, Checking
<1>. QED  BY <1>1, <1>2, InitTypeInv DEF IInv

LEMMA NextIInv == IInv /\ [Next]_vars => IInv'
BY NextTypeInv, NextPositionsInv, ChecksHaveWorkNext, SeenIsHandledNext, ChecksMadeThemNext,
   ChecksMeetNext, RepeatsOverlapNext, DuplicatesNeedOverlapNext DEF IInv, ChecksInv

LEMMA Invariance == Spec => []IInv
BY InitIInv, NextIInv, PTL DEF Spec

(* Whatever the portfolios, quantities and quotes, a score lies within 0 and *)
(* 100 and a row keeps its columns' types.                                   *)
THEOREM TypeCorrect == Spec => []TypeOK
<1>1. IInv => TypeOK  BY DEF IInv, TypeInv
<1>. QED  BY <1>1, Invariance, PTL

(* No asset a check saw over the threshold goes unsignalled once the check   *)
(* is answered, whoever signals beside it.                                   *)
THEOREM NothingSeenIsDropped == Spec => []CheckedIsSignalled
<1>1. IInv => CheckedIsSignalled
  BY DEF IInv, ChecksInv, ChecksHaveWork, SeenIsHandled, SignalledSince, CheckedIsSignalled
<1>. QED  BY <1>1, Invariance, PTL

(* Only checks that ran at the same time signal an asset twice.              *)
THEOREM RepeatsNeedOverlap == Spec => []DuplicatesNeedOverlap
<1>1. IInv => DuplicatesNeedOverlap  BY DEF IInv, ChecksInv
<1>. QED  BY <1>1, Invariance, PTL

(* An unhandled error is a null sent for a column, or a position removed     *)
(* between a request's read and its write or its answer.                     *)
THEOREM ErrorsHaveACause == Spec => []ErrorsAreExplained
<1>1. IInv => ErrorsAreExplained  BY DEF IInv, PositionsInv
<1>. QED  BY <1>1, Invariance, PTL

(* Whatever is held and quoted, the three readers of a summary agree whether *)
(* a portfolio is concentrated; without short positions its exposures agree  *)
(* with each other and with its total, and its change with its assets'.      *)
THEOREM SummariesAgree == Spec => []SummaryIsConsistent
<1>1. IInv => SummaryIsConsistent  BY SummariesAreConsistent DEF IInv
<1>. QED  BY <1>1, Invariance, PTL
-----------------------------------------------------------------------------
(* What is removed stays removed. *)

\* A request inserts one row, its own, and has inserted none before that.
InsertedOnce ==
    \A r \in Requests :
        /\ pc[r] \in {"idle", "insert"} =>
              (\A b \in positions : b.by # r) /\ (\A id \in removed : id.by # r)
        /\ pc[r] = "insert" => row[r].by = r

(* A position that was removed never comes back, neither by the update that  *)
(* had read it before nor by the request that inserts its asset again: its   *)
(* UPDATE matches no row, and an INSERT gives out a new id.                  *)
RemovedStayGone == \A b \in positions : Id(b) \notin removed

\* The ways the tables of positions change in a step.
Inserts(r) ==
    /\ pc[r] = "insert" /\ pc' = [pc EXCEPT ![r] = "refresh"]
    /\ ~Duplicate(row[r].portfolio, row[r].asset)
    /\ positions' = positions \cup {row[r]}
    /\ UNCHANGED <<removed, row>>

Writes(r) ==
    /\ pc[r] = "update" /\ pc' = [pc EXCEPT ![r] = "refresh"]
    /\ \E b \in Current(r) :
          /\ positions' = (positions \ {b}) \cup {Written(b, row[r], data[r])}
          /\ Written(b, row[r], data[r]) \in RowType /\ Id(Written(b, row[r], data[r])) = Id(b)
    /\ UNCHANGED <<removed, row>>

Removes(r) ==
    /\ pc[r] = "remove" /\ pc' = [pc EXCEPT ![r] = "ok"]
    /\ positions' = positions \ Current(r)
    /\ removed' = removed \cup {Id(b) : b \in Current(r)}
    /\ row' = [row EXCEPT ![r] = Absent]

(* A step inserts a row, writes one, removes one or leaves all of them alone *)
(* and moves one request on.                                                 *)
LEMMA StepsOfPositions ==
  ASSUME IInv, [Next]_vars
  PROVE  \/ \E r \in Requests : Inserts(r) \/ Writes(r) \/ Removes(r)
         \/ /\ UNCHANGED <<positions, removed>>
            /\ \/ UNCHANGED <<pc, row>>
               \/ \E r \in Requests :
                    /\ \A q \in Requests \ {r} : pc'[q] = pc[q] /\ row'[q] = row[q]
                    /\ \/ pc'[r] \notin {"idle", "insert"}
                       \/ pc[r] = "idle" /\ pc'[r] = "insert" /\ row'[r].by = r
<1>. USE DEF IInv, TypeInv, TypeOK
<1>1. ASSUME NEW r \in Requests, InsertPosition(r) PROVE Inserts(r)
  BY <1>1 DEF InsertPosition, Inserts, Goto
<1>2. ASSUME NEW r \in Requests, UpdatePosition(r) PROVE Writes(r)
  <2>1. row[r] \in RowType /\ data[r] \in UpdateType
    BY <1>2 DEF UpdatePosition, PositionsInv, RowsInHand
  <2>2. PICK b \in Current(r) :
           positions' = (positions \ {b}) \cup {Written(b, row[r], data[r])}
    BY <1>2 DEF UpdatePosition
  <2>3. Written(b, row[r], data[r]) \in RowType /\ Id(Written(b, row[r], data[r])) = Id(b)
    BY <1>2, <2>1, WrittenType DEF UpdatePosition, Current
  <2>. QED  BY <1>2, <2>2, <2>3 DEF UpdatePosition, Writes, Goto
<1>3. ASSUME NEW r \in Requests, RemovePosition(r) PROVE Removes(r)
  BY <1>3 DEF RemovePosition, Removes, Answer, Goto
<1> DEFINE Moves(r) ==
      /\ \A q \in Requests \ {r} : pc'[q] = pc[q] /\ row'[q] = row[q]
      /\ \/ pc'[r] \notin {"idle", "insert"}
         \/ pc[r] = "idle" /\ pc'[r] = "insert" /\ row'[r].by = r
<1>4. ASSUME NEW r \in Requests, AddPosition(r)
      PROVE  Moves(r) /\ UNCHANGED <<positions, removed>>
  BY <1>4 DEF AddPosition, Goto, tables
<1>5. ASSUME NEW r \in Requests,
             \/ CreatePortfolio(r) \/ RefuseStranger(r) \/ RefuseDuplicate(r) \/ RefusePosition(r)
             \/ InsertMeetsDuplicate(r) \/ LoadForUpdate(r) \/ UpdateFails(r)
             \/ RefreshPosition(r) \/ RefreshFails(r) \/ LoadForRemoval(r)
      PROVE  Moves(r) /\ UNCHANGED <<positions, removed>>
  BY <1>5 DEF CreatePortfolio, RefuseStranger, RefuseDuplicate, RefusePosition,
       InsertMeetsDuplicate, LoadForUpdate, UpdateFails, RefreshPosition, RefreshFails,
       LoadForRemoval, Refuse, Fails, Answer, Goto, tables
<1>6. ASSUME NEW r \in Requests,
             \/ GetSummary(r) \/ Check(r) \/ SkipSignalled(r) \/ LookUpSignal(r)
             \/ CreateSignal(r) \/ CreateOther(r) \/ Crash(r)
      PROVE  Moves(r) /\ UNCHANGED <<positions, removed>>
  BY <1>6 DEF GetSummary, Check, SkipSignalled, LookUpSignal, CreateSignal, CreateOther, Crash,
       AfterPosition, Goto, tables
<1>7. CASE Tick \/ Terminated \/ UNCHANGED vars
  BY <1>7 DEF Tick, Terminated, vars, tables
<1>. QED  BY <1>1, <1>2, <1>3, <1>4, <1>5, <1>6, <1>7 DEF Next, Handle

LEMMA RemovedStayGoneStep ==
  ASSUME IInv, InsertedOnce, RemovedStayGone, [Next]_vars
  PROVE  InsertedOnce' /\ RemovedStayGone'
<1>. USE DEF InsertedOnce, RemovedStayGone
<1>t. /\ pc \in [Requests -> {"idle", "insert", "update", "refresh", "remove", "look", "signal"} \cup Answered]
      /\ row \in [Requests -> RowType \cup {Absent}]
  BY DEF IInv, TypeInv, TypeOK
<1>i. \A b : Id(b).by = b.by
  BY DEF Id
<1>1. ASSUME NEW r \in Requests, Inserts(r) PROVE InsertedOnce' /\ RemovedStayGone'
  <2>1. row[r].by = r /\ \A id \in removed : id.by # r
    BY <1>1 DEF Inserts
  <2>2. RemovedStayGone'
    BY <1>1, <1>i, <2>1 DEF Inserts
  <2>3. InsertedOnce'
    BY <1>1, <1>t, <2>1 DEF Inserts
  <2>. QED  BY <2>2, <2>3
<1>2. ASSUME NEW r \in Requests, Writes(r) PROVE InsertedOnce' /\ RemovedStayGone'
  <2>1. PICK b \in Current(r) :
          /\ positions' = (positions \ {b}) \cup {Written(b, row[r], data[r])}
          /\ Id(Written(b, row[r], data[r])) = Id(b)
    BY <1>2 DEF Writes
  <2>2. b \in positions /\ Written(b, row[r], data[r]).by = b.by
    BY <1>i, <2>1 DEF Current
  <2>3. RemovedStayGone'
    BY <1>2, <2>1, <2>2 DEF Writes
  <2>4. InsertedOnce'
    BY <1>2, <1>t, <2>1, <2>2 DEF Writes
  <2>. QED  BY <2>3, <2>4
<1>3. ASSUME NEW r \in Requests, Removes(r) PROVE InsertedOnce' /\ RemovedStayGone'
  <2>1. Current(r) \subseteq positions /\ \A b \in positions : Id(b) = Id(row[r]) <=> b \in Current(r)
    BY DEF Current
  <2>2. RemovedStayGone'
    BY <1>3, <2>1 DEF Removes
  <2>3. InsertedOnce'
    BY <1>3, <1>t, <1>i, <2>1 DEF Removes
  <2>. QED  BY <2>2, <2>3
<1>4. ASSUME UNCHANGED <<positions, removed>>,
             \/ UNCHANGED <<pc, row>>
             \/ \E r \in Requests :
                  /\ \A q \in Requests \ {r} : pc'[q] = pc[q] /\ row'[q] = row[q]
                  /\ \/ pc'[r] \notin {"idle", "insert"}
                     \/ pc[r] = "idle" /\ pc'[r] = "insert" /\ row'[r].by = r
      PROVE  InsertedOnce' /\ RemovedStayGone'
  BY <1>4
<1>. QED  BY <1>1, <1>2, <1>3, <1>4, StepsOfPositions

(* No race between an update, a removal and an insertion brings a removed    *)
(* position back.                                                            *)
THEOREM RemovalIsFinal == Spec => []RemovedStayGone
<1>1. Init => InsertedOnce /\ RemovedStayGone
  <2>. SUFFICES ASSUME Init PROVE InsertedOnce
    BY DEF Init, RemovedStayGone
  <2>1. positions \in Books
    BY DEF Init
  <2>2. \A b \in positions : b.by \notin Requests
    BY <2>1, BooksType, NobodyInsertsBefore
  <2>. QED  BY <2>2 DEF Init, InsertedOnce
<1>2. IInv /\ InsertedOnce /\ RemovedStayGone /\ [Next]_vars => (InsertedOnce /\ RemovedStayGone)'
  BY RemovedStayGoneStep
<1>. QED  BY <1>1, <1>2, Invariance, PTL DEF Spec

(* A step may write a position only as an update of that row says it, column *)
(* by column, take one away only by remembering it as removed, and add one   *)
(* only for an asset the portfolio does not hold.                            *)
PositionStep ==
    /\ \A b \in positions \ positions' :
          \/ Id(b) \in removed'
          \/ \E r \in Requests : /\ pc[r] = "update" /\ Id(b) = Id(row[r])
                                 /\ Written(b, row[r], data[r]) \in positions'
    /\ \A c \in positions' \ positions :
          \/ ~Duplicate(c.portfolio, c.asset)
          \/ \E r \in Requests : /\ pc[r] = "update" /\ Id(c) = Id(row[r])
                                 /\ \E b \in Current(r) : c = Written(b, row[r], data[r])

PositionsAreKept == [][PositionStep]_vars

(* No step loses a position, or a column of one that its update did not      *)
(* change: of two updates side by side both columns survive.                 *)
THEOREM NoPositionIsLost == Spec => PositionsAreKept
<1>1. ASSUME IInv, [Next]_vars PROVE PositionStep
  <2>1. ASSUME NEW r \in Requests, Inserts(r) PROVE PositionStep
    BY <2>1 DEF Inserts, PositionStep
  <2>2. ASSUME NEW r \in Requests, Writes(r) PROVE PositionStep
    BY <2>2 DEF Writes, PositionStep, Current
  <2>3. ASSUME NEW r \in Requests, Removes(r) PROVE PositionStep
    BY <2>3 DEF Removes, PositionStep
  <2>4. CASE positions' = positions
    BY <2>4 DEF PositionStep
  <2>. QED  BY <1>1, <2>1, <2>2, <2>3, <2>4, StepsOfPositions
<1>. QED  BY <1>1, Invariance, PTL DEF Spec, PositionsAreKept

-----------------------------------------------------------------------------
(* Checks that run alone. *)

ChecksAlone == \A q, r \in Requests : Checking(q) /\ Checking(r) => q = r

\* What signalled, or is about to, met no other check when it began.
NobodyMet ==
    \A r \in Requests :
        Checking(r) \/ (\E s \in signals : s.from = "check" /\ s.by = r) => alongside[r] = {}

(* An asset is signalled by one check only, and by that one once.            *)
SignalledOnce ==
    \A s, t \in signals :
        (s.from = "check" /\ t.from = "check" /\ s.asset = t.asset) => s = t

LEMMA NobodyMetStep ==
  ASSUME IInv, NobodyMet, ChecksAlone', [Next]_vars
  PROVE  NobodyMet'
<1>. USE DEF IInv, NobodyMet, Checking
<1>t. /\ pc \in [Requests -> {"idle", "insert", "update", "refresh", "remove", "look", "signal"} \cup Answered]
      /\ alongside \in [Requests -> SUBSET Requests]
      /\ \A s \in signals : s.by \in Requests
  BY DEF TypeInv, TypeOK, SignalType
<1>1. ASSUME NEW r \in Requests, Check(r) PROVE NobodyMet'
  <2>1. /\ pc[r] = "idle" /\ signals' = signals
        /\ alongside' = [alongside EXCEPT ![r] = {q \in Requests : Checking(q)}]
        /\ \A q \in Requests \ {r} : pc'[q] = pc[q]
    BY <1>1, <1>t DEF Check, Goto, tables
  <2>2. \A s \in signals : s.from = "check" => s.by # r
    BY <2>1 DEF ChecksInv, ChecksMadeThem
  <2>3. Checking(r)' => {q \in Requests : Checking(q)} = {}
    BY <2>1 DEF ChecksAlone
  <2>. QED  BY <1>t, <2>1, <2>2, <2>3
<1>2. ASSUME NEW r \in Requests, CreateSignal(r) PROVE NobodyMet'
  <2>1. \A s \in signals' \ signals : s.by = r
    BY <1>2 DEF CreateSignal
  <2>2. Checking(r) /\ alongside' = alongside /\ \A q \in Requests \ {r} : pc'[q] = pc[q]
    BY <1>2, <1>t DEF CreateSignal, Goto
  <2>. QED  BY <2>1, <2>2
<1>3. ASSUME NEW r \in Requests, alongside' = alongside,
             \A s \in signals' \ signals : s.from # "check",
             \A q \in Requests : Checking(q)' => Checking(q)
      PROVE  NobodyMet'
  BY <1>3
<1>4. ASSUME NEW r \in Requests, Beside(r) PROVE NobodyMet'
  BY <1>3, <1>4, <1>t DEF Beside, checkVars
<1>5. ASSUME NEW r \in Requests, SkipSignalled(r) \/ LookUpSignal(r) PROVE NobodyMet'
  BY <1>3, <1>5, <1>t DEF SkipSignalled, LookUpSignal, AfterPosition, Goto, checkVars, tables
<1>6. ASSUME NEW r \in Requests, CreateOther(r) PROVE NobodyMet'
  <2>1. \A s \in signals' \ signals : s.from # "check"
    BY <1>6 DEF CreateOther
  <2>. QED  BY <1>3, <1>6, <1>t, <2>1 DEF CreateOther, Goto, checkVars
<1>7. ASSUME NEW r \in Requests, Crash(r) PROVE NobodyMet'
  BY <1>3, <1>7, <1>t DEF Crash, Goto, checkVars, tables
<1>8. CASE Tick \/ UNCHANGED vars
  BY <1>8 DEF Tick, vars, checkVars, tables
<1>. QED  BY <1>1, <1>2, <1>4, <1>5, <1>6, <1>7, <1>8, StepKinds

(* Checks that do not run at the same time, whoever's portfolios they are    *)
(* of, never signal an asset twice: the look-up before the commit is enough. *)
THEOREM LoneChecksSignalOnce == Spec /\ []ChecksAlone => []SignalledOnce
<1>1. Init => NobodyMet
  BY DEF Init, NobodyMet, Checking
<1>2. IInv /\ NobodyMet /\ ChecksAlone' /\ [Next]_vars => NobodyMet'
  BY NobodyMetStep
<1>3. IInv /\ NobodyMet => SignalledOnce
  <2>. SUFFICES ASSUME IInv, NobodyMet,
                       NEW s \in signals, NEW t \in signals, s # t,
                       s.from = "check", t.from = "check", s.asset = t.asset
                PROVE  FALSE
    BY DEF SignalledOnce
  <2>1. s.by \in Requests /\ t.by \in Requests
    BY DEF IInv, TypeInv, TypeOK, SignalType
  <2>2. alongside[s.by] = {} /\ alongside[t.by] = {}
    BY <2>1 DEF NobodyMet
  <2>. QED  BY <2>2 DEF IInv, ChecksInv, DuplicatesNeedOverlap
<1>. QED  BY <1>1, <1>2, <1>3, Invariance, PTL DEF Spec
=============================================================================
