------------------------------ MODULE SumProofs ------------------------------
(***************************************************************************)
(* Folds over finite sets, and sums above all.  The library defines one by *)
(* a recursive function on the subsets of the set, that takes one element  *)
(* at a time.                                                              *)
(*                                                                         *)
(* Induction is stated of a set: of the numbers, or of the subsets, that   *)
(* have the property to be shown.                                          *)
(***************************************************************************)
EXTENDS Integers, Functions, FiniteSetTheorems, TLAPS

\* The element a fold takes next.
Pick(s) == CHOOSE x \in s : TRUE

\* it is the function a fold defines on these sets, if next says what an element
\* makes of the result for the others.
Folds(it, family, base, next) ==
    it = [s \in family |-> IF s = {} THEN base ELSE next[Pick(s)][it[s \ {Pick(s)}]]]

\* ... the one for the sum of the values of f, on the subsets of rows.
Sums(it, rows, f) ==
    it = [s \in SUBSET rows |-> IF s = {} THEN 0 ELSE f[Pick(s)] + it[s \ {Pick(s)}]]

-----------------------------------------------------------------------------
LEMMA LeastOf ==
  ASSUME NEW T \in SUBSET Nat, T # {}
  PROVE  \E n \in T : \A m \in T : n <= m
<1>1. PICK n \in T : \A m \in T : <<m, n>> \notin OpToRel(<, Nat)
  BY NatLessThanWellFounded, WFMin, Zenon
<1>2. \A m \in T : ~(m < n)
  BY <1>1 DEF OpToRel
<1>. QED  BY <1>2

LEMMA PickIsMember == ASSUME NEW s, s # {} PROVE Pick(s) \in s
BY DEF Pick

LEMMA MinimalSubset ==
  ASSUME NEW rows, IsFiniteSet(rows), NEW Bad, Bad \subseteq SUBSET rows, Bad # {}
  PROVE  \E s \in Bad : \A t \in Bad : ~(t \subseteq s /\ t # s)
<1>1. IsWellFoundedOn(StrictSubsetOrdering(rows), SUBSET rows)
  BY FS_StrictSubsetOrderingWellFounded, FS_FiniteSubsetsOfFinite
<1>2. PICK s \in Bad : \A t \in Bad : <<t, s>> \notin StrictSubsetOrdering(rows)
  BY <1>1, WFMin, Zenon
<1>. QED  BY <1>2 DEF StrictSubsetOrdering

(* Induction over the subsets of a finite set.                               *)
LEMMA SubsetInduction ==
  ASSUME NEW rows, IsFiniteSet(rows), NEW Good,
         \A s \in SUBSET rows : (\A t \in SUBSET s : t # s => t \in Good) => s \in Good
  PROVE  \A s \in SUBSET rows : s \in Good
<1> DEFINE Bad == {s \in SUBSET rows : s \notin Good}
<1>1. SUFFICES ASSUME Bad # {} PROVE FALSE
  OBVIOUS
<1>2. PICK s \in Bad : \A t \in Bad : ~(t \subseteq s /\ t # s)
  <2>1. Bad \subseteq SUBSET rows
    OBVIOUS
  <2> HIDE DEF Bad
  <2>. QED  BY <1>1, <2>1, MinimalSubset
<1>3. \A t \in SUBSET s : t # s => t \in Good
  BY <1>2
<1>. QED  BY <1>2, <1>3

(* ... along the elements a fold takes.                                      *)
LEMMA FoldInduction ==
  ASSUME NEW rows, IsFiniteSet(rows), NEW Good, {} \in Good,
         \A s \in SUBSET rows : (s # {} /\ s \ {Pick(s)} \in Good) => s \in Good
  PROVE  \A s \in SUBSET rows : s \in Good
<1>1. ASSUME NEW s \in SUBSET rows, \A t \in SUBSET s : t # s => t \in Good, s # {}
      PROVE  s \ {Pick(s)} \in Good
  BY <1>1, PickIsMember
<1>2. \A s \in SUBSET rows : (\A t \in SUBSET s : t # s => t \in Good) => s \in Good
  BY <1>1
<1>. QED  BY <1>2, SubsetInduction

(* The values of a function on a finite set are finitely many.               *)
LEMMA ImageIsFinite ==
  ASSUME NEW S, IsFiniteSet(S), NEW f
  PROVE  /\ IsFiniteSet({f[x] : x \in S})
         /\ Cardinality({f[x] : x \in S}) <= Cardinality(S)
<1>1. [x \in S |-> f[x]] \in Surjection(S, {f[x] : x \in S})
  BY DEF Surjection
<1>. QED  BY <1>1, FS_Surjection

-----------------------------------------------------------------------------
(* The fold is defined: there is such a function on the subsets of no more   *)
(* than n elements, and one on those of n + 1 from it.                       *)
UpTo(n, rows) == {s \in SUBSET rows : Cardinality(s) <= n}

LEMMA RestIsSmaller ==
  ASSUME NEW rows, IsFiniteSet(rows), NEW n \in Nat, NEW s \in UpTo(n + 1, rows), s # {}
  PROVE  s \ {Pick(s)} \in UpTo(n, rows)
<1>1. IsFiniteSet(s)  BY FS_Subset DEF UpTo
<1>2. Cardinality(s) \in Nat /\ Cardinality(s \ {Pick(s)}) = Cardinality(s) - 1
  BY <1>1, PickIsMember, FS_RemoveElement, FS_CardinalityType
<1>. QED  BY <1>2 DEF UpTo

LEMMA FoldsExistUpTo ==
  ASSUME NEW rows, IsFiniteSet(rows), NEW base, NEW next
  PROVE  \A n \in Nat : \E it : Folds(it, UpTo(n, rows), base, next)
<1> DEFINE Missing == {n \in Nat : ~ \E it : Folds(it, UpTo(n, rows), base, next)}
<1>1. SUFFICES ASSUME Missing # {} PROVE FALSE
  OBVIOUS
<1>2. PICK n \in Missing : \A m \in Missing : n <= m
  BY <1>1, LeastOf
<1>3. n # 0
  <2>1. UpTo(0, rows) = {{}}
    <3>1. ASSUME NEW s \in SUBSET rows PROVE Cardinality(s) <= 0 <=> s = {}
      BY FS_Subset, FS_EmptySet, FS_CardinalityType
    <3>. QED  BY <3>1 DEF UpTo
  <2>2. Folds([s \in {{}} |-> base], UpTo(0, rows), base, next)
    BY <2>1 DEF Folds
  <2>. QED  BY <2>2
<1>4. n - 1 \in Nat /\ n - 1 \notin Missing
  BY <1>2, <1>3
<1>5. PICK it : Folds(it, UpTo(n - 1, rows), base, next)
  BY <1>4
<1> DEFINE more == [s \in UpTo(n, rows) |->
                      IF s = {} THEN base ELSE next[Pick(s)][it[s \ {Pick(s)}]]]
<1>6. ASSUME NEW s \in UpTo(n, rows), s # {}
      PROVE  more[s \ {Pick(s)}] = it[s \ {Pick(s)}]
  <2>1. s \ {Pick(s)} \in UpTo(n - 1, rows)
    BY <1>4, <1>6, RestIsSmaller, (n - 1) + 1 = n
  <2>2. s \ {Pick(s)} \in UpTo(n, rows)
    <3>1. IsFiniteSet(s \ {Pick(s)})
      BY <2>1, FS_Subset DEF UpTo
    <3>. QED  BY <2>1, <3>1, FS_CardinalityType DEF UpTo
  <2>. QED  BY <2>1, <2>2, <1>5 DEF Folds
<1>7. Folds(more, UpTo(n, rows), base, next)
  BY <1>6 DEF Folds
<1>. QED  BY <1>7, <1>2

LEMMA FoldsExist ==
  ASSUME NEW rows, IsFiniteSet(rows), NEW base, NEW next
  PROVE  \E it : Folds(it, SUBSET rows, base, next)
<1>1. UpTo(Cardinality(rows), rows) = SUBSET rows
  BY FS_Subset, Zenon DEF UpTo
<1>2. Cardinality(rows) \in Nat
  BY FS_CardinalityType
<1>3. \E it : Folds(it, UpTo(Cardinality(rows), rows), base, next)
  BY <1>2, FoldsExistUpTo, Zenon
<1>. QED  BY <1>1, <1>3

(* A fold stays where it begins, if no element leads out of there.           *)
LEMMA FoldIsTyped ==
  ASSUME NEW rows, IsFiniteSet(rows), NEW values, NEW base \in values,
         NEW next \in [rows -> [values -> values]],
         NEW it, Folds(it, SUBSET rows, base, next)
  PROVE  \A s \in SUBSET rows : it[s] \in values
<1> DEFINE Good == {s \in SUBSET rows : it[s] \in values}
<1>1. {} \in Good
  BY DEF Folds
<1>2. ASSUME NEW s \in SUBSET rows, s # {}, s \ {Pick(s)} \in Good
      PROVE  s \in Good
  <2>1. it[s] = next[Pick(s)][it[s \ {Pick(s)}]]
    BY <1>2 DEF Folds
  <2>2. Pick(s) \in rows
    BY <1>2, PickIsMember
  <2>. QED  BY <1>2, <2>1, <2>2
<1> HIDE DEF Good
<1>3. \A s \in SUBSET rows : s \in Good
  BY <1>1, <1>2, FoldInduction
<1>. QED  BY <1>3 DEF Good

-----------------------------------------------------------------------------
LEMMA SumsExist ==
  ASSUME NEW rows, IsFiniteSet(rows), NEW f, \A x \in rows : f[x] \in Int
  PROVE  \E it : Sums(it, rows, f) /\ \A s \in SUBSET rows : it[s] \in Int
<1> DEFINE next == [x \in rows |-> [n \in Int |-> f[x] + n]]
<1>1. PICK it : Folds(it, SUBSET rows, 0, next)
  <2> HIDE DEF next
  <2>. QED  BY FoldsExist
<1>2. next \in [rows -> [Int -> Int]]
  OBVIOUS
<1>3. \A s \in SUBSET rows : it[s] \in Int
  <2>1. 0 \in Int
    OBVIOUS
  <2> HIDE DEF next
  <2>. QED  BY <1>1, <1>2, <2>1, FoldIsTyped, Zenon
<1>4. \A s \in SUBSET rows : s # {} => next[Pick(s)][it[s \ {Pick(s)}]] = f[Pick(s)] + it[s \ {Pick(s)}]
  BY <1>3, PickIsMember
<1>5. Sums(it, rows, f)
  BY <1>1, <1>4 DEF Folds, Sums
<1>. QED  BY <1>3, <1>5

LEMMA SumIsFold ==
  ASSUME NEW f, IsFiniteSet(DOMAIN f), \A x \in DOMAIN f : f[x] \in Int
  PROVE  \E it : Sums(it, DOMAIN f, f) /\ SumFunction(f) = it[DOMAIN f]
<1> DEFINE it == CHOOSE g : Sums(g, DOMAIN f, f)
<1>1. SumFunction(f) = it[DOMAIN f]
  BY DEF SumFunction, SumFunctionOnSet, FoldFunctionOnSet, MapThenFoldSet, Sums, Pick
<1>2. Sums(it, DOMAIN f, f)
  BY SumsExist
<1>. QED  BY <1>1, <1>2

LEMMA SumIsInteger ==
  ASSUME NEW rows, IsFiniteSet(rows), NEW f, \A x \in rows : f[x] \in Int,
         NEW it, Sums(it, rows, f)
  PROVE  \A s \in SUBSET rows : it[s] \in Int
<1> DEFINE Good == {s \in SUBSET rows : it[s] \in Int}
<1>1. {} \in Good
  BY DEF Sums
<1>2. ASSUME NEW s \in SUBSET rows, s # {}, s \ {Pick(s)} \in Good
      PROVE  s \in Good
  <2>1. it[s] = f[Pick(s)] + it[s \ {Pick(s)}]
    BY <1>2 DEF Sums
  <2>2. Pick(s) \in rows
    BY <1>2, PickIsMember
  <2>. QED  BY <1>2, <2>1, <2>2
<1> HIDE DEF Good
<1>3. \A s \in SUBSET rows : s \in Good
  BY <1>1, <1>2, FoldInduction
<1>. QED  BY <1>3 DEF Good

(* The order in which a fold takes the elements makes no difference to a     *)
(* sum.                                                                      *)
LEMMA SumsTakeAny ==
  ASSUME NEW rows, IsFiniteSet(rows), NEW f, \A x \in rows : f[x] \in Int,
         NEW it, Sums(it, rows, f)
  PROVE  \A s \in SUBSET rows : \A x \in s : it[s] = f[x] + it[s \ {x}]
<1> DEFINE Good == {s \in SUBSET rows : \A x \in s : it[s] = f[x] + it[s \ {x}]}
<1>1. \A s \in SUBSET rows : it[s] \in Int
  BY SumIsInteger
<1>2. ASSUME NEW s \in SUBSET rows, \A t \in SUBSET s : t # s => t \in Good, NEW x \in s
      PROVE  it[s] = f[x] + it[s \ {x}]
  <2> DEFINE y == Pick(s)
             rest == s \ {x, y}
  <2>1. y \in s /\ it[s] = f[y] + it[s \ {y}]
    BY PickIsMember DEF Sums
  <2>2. CASE x = y
    BY <2>1, <2>2
  <2>3. CASE x # y
    <3>1. s \ {x} \in Good /\ s \ {y} \in Good
      BY <1>2, <2>1
    <3>2. x \in s \ {y} /\ (s \ {y}) \ {x} = rest /\ y \in s \ {x} /\ (s \ {x}) \ {y} = rest
      BY <2>1, <2>3
    <3>3. it[s \ {y}] = f[x] + it[rest] /\ it[s \ {x}] = f[y] + it[rest]
      <4> HIDE DEF rest, y
      <4>. QED  BY <3>1, <3>2
    <3>4. f[x] \in Int /\ f[y] \in Int /\ it[rest] \in Int
      BY <1>1, <2>1
    <3> HIDE DEF rest, y
    <3>. QED  BY <2>1, <3>3, <3>4
  <2>. QED  BY <2>2, <2>3
<1>3. \A s \in SUBSET rows : (\A t \in SUBSET s : t # s => t \in Good) => s \in Good
  BY <1>2
<1> HIDE DEF Good
<1>4. \A s \in SUBSET rows : s \in Good
  BY <1>3, SubsetInduction
<1>. QED  BY <1>4 DEF Good

(* ... and what a set is part of makes none either.                          *)
LEMMA SumsAgree ==
  ASSUME NEW rows, IsFiniteSet(rows), NEW f, NEW it, Sums(it, rows, f),
         NEW part, part \subseteq rows, NEW g, NEW other, Sums(other, part, g),
         \A x \in part : f[x] = g[x]
  PROVE  it[part] = other[part]
<1> DEFINE Good == {s \in SUBSET part : it[s] = other[s]}
<1>1. {} \in Good
  BY DEF Sums
<1>2. ASSUME NEW s \in SUBSET part, s # {}, s \ {Pick(s)} \in Good
      PROVE  s \in Good
  <2>1. Pick(s) \in part
    BY <1>2, PickIsMember
  <2>2. it[s] = f[Pick(s)] + it[s \ {Pick(s)}]
    BY <1>2 DEF Sums
  <2>3. other[s] = g[Pick(s)] + other[s \ {Pick(s)}]
    BY <1>2 DEF Sums
  <2>. QED  BY <1>2, <2>1, <2>2, <2>3
<1>3. IsFiniteSet(part)
  BY FS_Subset
<1> HIDE DEF Good
<1>4. \A s \in SUBSET part : s \in Good
  BY <1>1, <1>2, <1>3, FoldInduction
<1>. QED  BY <1>4 DEF Good

(* More of what is not negative is no less.                                  *)
LEMMA SumIsMonotone ==
  ASSUME NEW rows, IsFiniteSet(rows), NEW f, \A x \in rows : f[x] \in Nat,
         NEW it, Sums(it, rows, f), NEW part \in SUBSET rows
  PROVE  it[part] <= it[rows]
<1> DEFINE Good == {s \in SUBSET rows : it[part] <= it[part \cup s]}
<1>0. \A x \in rows : f[x] \in Int
  OBVIOUS
<1>1. \A s \in SUBSET rows : it[s] \in Int
  BY <1>0, SumIsInteger
<1>2. {} \in Good
  <2>1. part \cup {} = part
    OBVIOUS
  <2>. QED  BY <1>1, <2>1
<1>3. ASSUME NEW s \in SUBSET rows, s # {}, s \ {Pick(s)} \in Good
      PROVE  s \in Good
  <2> DEFINE x == Pick(s)
             less == part \cup (s \ {x})
             more == part \cup s
  <2>1. x \in s /\ it[part] <= it[less]
    BY <1>3, PickIsMember
  <2>2. less \in SUBSET rows /\ more \in SUBSET rows
    OBVIOUS
  <2>3. CASE x \in part
    <3>1. less = more
      BY <2>1, <2>3
    <3>. QED  BY <2>1, <3>1
  <2>4. CASE x \notin part
    <3>1. less = more \ {x} /\ x \in more
      BY <2>1, <2>4
    <3>2. it[more] = f[x] + it[less]
      BY <1>0, <2>2, <3>1, SumsTakeAny
    <3>3. it[part] \in Int /\ it[less] \in Int /\ f[x] \in Nat
      BY <1>1, <2>1, <2>2
    <3>4. it[part] <= it[more]
      <4> HIDE DEF less, more, x
      <4>. QED  BY <2>1, <3>2, <3>3
    <3>. QED  BY <3>4
  <2>. QED  BY <2>3, <2>4
<1>4. part \cup rows = rows
  OBVIOUS
<1> HIDE DEF Good
<1>5. rows \in Good
  BY <1>2, <1>3, FoldInduction
<1>. QED  BY <1>4, <1>5 DEF Good

(* A sum is more than so many times what each is more than.                  *)
LEMMA SumIsAbove ==
  ASSUME NEW rows, IsFiniteSet(rows), NEW f, \A x \in rows : f[x] \in Int,
         NEW it, Sums(it, rows, f), NEW part \in SUBSET rows, part # {},
         NEW floor \in Int, NEW unit \in Int, \A x \in part : floor < f[x] * unit
  PROVE  Cardinality(part) * floor < it[part] * unit
<1> DEFINE Above(s) == Cardinality(s) * floor < it[s] * unit
           Good == {s \in SUBSET part : s = {} \/ Above(s)}
<1>1. \A s \in SUBSET rows : it[s] \in Int
  BY SumIsInteger
<1>2. ASSUME NEW s \in SUBSET part, s # {}, s \ {Pick(s)} \in Good
      PROVE  Above(s)
  <2> DEFINE x == Pick(s)
             n == Cardinality(s \ {x})
             v == it[s \ {x}]
  <2>1. x \in s
    BY <1>2, PickIsMember
  <2>2. n \in Nat /\ Cardinality(s) = n + 1
    <3>1. IsFiniteSet(s \ {x}) /\ (s \ {x}) \cup {x} = s
      BY <2>1, FS_Subset
    <3>2. Cardinality((s \ {x}) \cup {x}) = Cardinality(s \ {x}) + 1
      BY <3>1, FS_AddElement
    <3>. QED  BY <3>1, <3>2, FS_CardinalityType
  <2>3. it[s] = f[x] + v /\ v \in Int /\ f[x] \in Int /\ floor < f[x] * unit
    BY <1>1, <1>2, <2>1 DEF Sums
  <2>4. n * floor <= v * unit
    <3>1. CASE s \ {x} = {}
      <4>1. n = 0 /\ v = 0
        BY <3>1, FS_EmptySet DEF Sums
      <4>. QED  BY <4>1
    <3>2. CASE s \ {x} # {}
      BY <1>2, <2>2, <2>3, <3>2
    <3>. QED  BY <3>1, <3>2
  <2>5. (n + 1) * floor < (f[x] + v) * unit
    <3> HIDE DEF n, v, x
    <3>1. (n + 1) * floor = n * floor + floor /\ (f[x] + v) * unit = f[x] * unit + v * unit
      BY <2>2, <2>3
    <3>2. n * floor \in Int /\ v * unit \in Int /\ f[x] * unit \in Int
      BY <2>2, <2>3
    <3>. QED  BY <2>3, <2>4, <3>1, <3>2
  <2>. QED  BY <2>2, <2>3, <2>5
<1>3. IsFiniteSet(part) /\ {} \in Good
  BY FS_Subset
<1>4. \A s \in SUBSET part : (s # {} /\ s \ {Pick(s)} \in Good) => s \in Good
  BY <1>2
<1> HIDE DEF Good
<1>5. part \in Good
  BY <1>3, <1>4, FoldInduction
<1>. QED  BY <1>5 DEF Good

(* A finite set that is not empty has a greatest element, for any order of   *)
(* all of them.                                                              *)
LEMMA GreatestExists ==
  ASSUME NEW S, IsFiniteSet(S), S # {}, NEW order,
         \A x, y \in S : <<x, y>> \in order \/ <<y, x>> \in order,
         \A x, y, z \in S : <<x, y>> \in order /\ <<y, z>> \in order => <<x, z>> \in order
  PROVE  \E x \in S : \A y \in S : <<y, x>> \in order
<1> DEFINE Good == {s \in SUBSET S : s = {} \/ \E x \in s : \A y \in s : <<y, x>> \in order}
<1>1. {} \in Good
  OBVIOUS
<1>2. ASSUME NEW s \in SUBSET S, s # {}, s \ {Pick(s)} \in Good
      PROVE  s \in Good
  <2> DEFINE x == Pick(s)
  <2>1. x \in s /\ <<x, x>> \in order
    BY <1>2, PickIsMember
  <2> HIDE DEF x
  <2>2. CASE s \ {x} = {}
    BY <2>1, <2>2
  <2>3. CASE s \ {x} # {}
    <3>1. PICK z \in s \ {x} : \A y \in s \ {x} : <<y, z>> \in order
      BY <1>2, <2>3 DEF x
    <3>2. CASE <<x, z>> \in order
      BY <3>1, <3>2, <2>1
    <3>3. CASE <<z, x>> \in order
      <4>1. ASSUME NEW y \in s PROVE <<y, x>> \in order
        BY <2>1, <3>1, <3>3
      <4>. QED  BY <2>1, <4>1
    <3>. QED  BY <3>1, <3>2, <3>3, <2>1
  <2>. QED  BY <2>2, <2>3
<1> HIDE DEF Good
<1>3. S \in Good
  BY <1>1, <1>2, FoldInduction
<1>. QED  BY <1>3 DEF Good

(* How many elements are of one class or another is the sum of how many are  *)
(* of each.                                                                  *)
LEMMA SumOfClasses ==
  ASSUME NEW rows, IsFiniteSet(rows), NEW class, NEW classes, IsFiniteSet(classes),
         NEW f, f = [d \in classes |-> Cardinality({x \in rows : class[x] = d})]
  PROVE  SumFunction(f) = Cardinality({x \in rows : class[x] \in classes})
<1> DEFINE Of(s) == {x \in rows : class[x] \in s}
<1>1. PICK it : Sums(it, classes, f) /\ SumFunction(f) = it[classes]
  <2>1. DOMAIN f = classes /\ \A d \in classes : f[d] \in Int
    BY FS_Subset, FS_CardinalityType
  <2>. QED  BY <2>1, SumIsFold
<1> DEFINE Good == {s \in SUBSET classes : it[s] = Cardinality(Of(s))}
<1>2. {} \in Good
  <2>1. Of({}) = {}
    OBVIOUS
  <2>. QED  BY <1>1, <2>1, FS_EmptySet DEF Sums
<1>3. ASSUME NEW s \in SUBSET classes, s # {}, s \ {Pick(s)} \in Good
      PROVE  s \in Good
  <2> DEFINE d == Pick(s)
             rest == Of(s \ {d})
             those == {x \in rows : class[x] = d}
  <2>1. d \in s /\ d \in classes
    BY <1>3, PickIsMember
  <2>2. it[s] = Cardinality(those) + Cardinality(rest)
    BY <1>1, <1>3, <2>1 DEF Sums
  <2>3. IsFiniteSet(those) /\ IsFiniteSet(rest)
    BY FS_Subset
  <2>4. those \cap rest = {} /\ those \cup rest = Of(s)
    BY <2>1
  <2>5. Cardinality(those \cup rest) = Cardinality(those) + Cardinality(rest)
    <3> HIDE DEF those, rest
    <3>1. Cardinality(those \cap rest) = 0
      BY <2>4, FS_EmptySet
    <3>2. Cardinality(those) \in Nat /\ Cardinality(rest) \in Nat
      BY <2>3, FS_CardinalityType
    <3>3. Cardinality(those \cup rest) =
            Cardinality(those) + Cardinality(rest) - Cardinality(those \cap rest)
      BY <2>3, FS_Union
    <3>. QED  BY <3>1, <3>2, <3>3
  <2>. QED  BY <2>2, <2>4, <2>5
<1> HIDE DEF Good
<1>4. classes \in Good
  BY <1>2, <1>3, FoldInduction
<1>. QED  BY <1>1, <1>4 DEF Good
=============================================================================
