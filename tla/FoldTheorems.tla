---------------------------- MODULE FoldTheorems ----------------------------
(***************************************************************************)
(* Induction over finite sets and over numbers, and what Total(f, S) is,   *)
(* for every finite set S and every f whose values on S are natural        *)
(* numbers.                                                                *)
(*                                                                         *)
(* Total is a fold, defined by recursion over the subsets of S.  That the  *)
(* recursion has a solution is shown by giving one, the number of units    *)
(* {x} \X 1 .. f[x] of the elements x of S; that it has no other, by       *)
(* induction over the subsets of S.  For folds over sequences, FoldExists  *)
(* gives a solution of the recursion.                                      *)
(***************************************************************************)
EXTENDS Sums, FiniteSetTheorems, WellFoundedInduction, TLAPS

\* Induction over the subsets of a finite set; B is the set of those for which
\* the claim holds.
LEMMA FiniteInduction ==
  ASSUME NEW S, IsFiniteSet(S), NEW B, {} \in B,
         \A s \in SUBSET S : \A x \in S \ s : s \in B => s \cup {x} \in B
  PROVE  S \in B
<1> SUFFICES ASSUME S \notin B PROVE FALSE
  OBVIOUS
<1> DEFINE T == {s \in SUBSET S : s \notin B}
           R == StrictSubsetOrdering(S)
<1>1. IsWellFoundedOn(R, SUBSET S)
  BY FS_StrictSubsetOrderingWellFounded, FS_FiniteSubsetsOfFinite
<1>2. T \subseteq SUBSET S /\ T # {}
  OBVIOUS
<1>3. PICK m \in T : \A y \in T : ~(<<y, m>> \in R)
  <2> HIDE DEF T, R
  <2> QED BY <1>1, <1>2, WFMin
<1>4. PICK x \in m : TRUE
  OBVIOUS
<1>5. m \ {x} \in SUBSET S /\ x \in S \ (m \ {x}) /\ (m \ {x}) \cup {x} = m
  OBVIOUS
<1>6. m \ {x} \notin B
  BY <1>5
<1>7. <<m \ {x}, m>> \in R
  BY <1>4, <1>5 DEF StrictSubsetOrdering
<1> QED BY <1>3, <1>5, <1>6, <1>7

\* Induction over the numbers up to m.
LEMMA NumberInduction ==
  ASSUME NEW m \in Nat, NEW B, 0 \in B,
         \A i \in Nat : i < m /\ i \in B => i + 1 \in B
  PROVE  \A i \in 0 .. m : i \in B
<1> SUFFICES ASSUME NEW b \in 0 .. m, b \notin B PROVE FALSE
  OBVIOUS
<1> DEFINE T == {i \in 0 .. m : i \notin B}
           R == {ss \in Nat \X Nat : ss[1] < ss[2]}
<1>1. IsWellFoundedOn(R, Nat)
  BY NatLessThanWellFounded, Zenon DEF OpToRel
<1>2. T \subseteq Nat /\ T # {}
  OBVIOUS
<1>3. PICK x \in T : \A y \in T : ~(<<y, x>> \in R)
  <2> HIDE DEF T, R
  <2> QED BY <1>1, <1>2, WFMin
<1>4. x \in Nat /\ x <= m /\ x # 0 /\ x \notin B
  OBVIOUS
<1>5. x - 1 \in Nat /\ x - 1 < m /\ (x - 1) + 1 = x /\ x - 1 < x /\ x - 1 \in 0 .. m
  BY <1>4
<1>6. x - 1 \notin B
  <2>1. \A i \in Nat : i < m /\ i \in B => i + 1 \in B
    OBVIOUS
  <2>2. x - 1 \in B => (x - 1) + 1 \in B
    BY <1>5, <2>1
  <2> QED BY <1>4, <1>5, <2>2
<1>7. x - 1 \in T
  BY <1>5, <1>6
<1>8. <<x - 1, x>> \in R
  <2>1. <<x - 1, x>> \in Nat \X Nat
    BY <1>4, <1>5
  <2>2. <<x - 1, x>>[1] = x - 1 /\ <<x - 1, x>>[2] = x
    OBVIOUS
  <2> QED BY <1>5, <2>1, <2>2
<1> QED BY <1>3, <1>7, <1>8

\* Max of a finite set of numbers is its largest element.
LEMMA MaxIsLargest ==
  ASSUME NEW S \in SUBSET Nat, IsFiniteSet(S), S # {}
  PROVE  Max(S) \in S /\ \A y \in S : y <= Max(S)
<1> DEFINE B == {s \in SUBSET S : s = {} \/ \E x \in s : \A y \in s : y <= x}
<1>1. {} \in B
  OBVIOUS
<1>2. ASSUME NEW s \in SUBSET S, NEW x \in S \ s, s \in B PROVE s \cup {x} \in B
  <2>1. CASE s = {}
    BY <2>1
  <2>2. CASE s # {}
    <3>1. PICK m \in s : \A y \in s : y <= m
      BY <1>2, <2>2
    <3>2. CASE x <= m
      <4>1. \A y \in s \cup {x} : y <= m
        BY <3>1, <3>2
      <4> QED BY <4>1
    <3>3. CASE ~(x <= m)
      <4>1. \A y \in s \cup {x} : y \in Nat /\ y <= x
        BY <3>1, <3>3
      <4> QED BY <4>1
    <3> QED BY <3>2, <3>3
  <2> QED BY <2>1, <2>2
<1>3. S \in B
  <2> HIDE DEF B
  <2> QED BY <1>1, <1>2, FiniteInduction
<1>4. \E x \in S : \A y \in S : x >= y
  BY <1>3
<1>5. Max(S) \in S /\ \A y \in S : Max(S) >= y
  BY <1>4 DEF Max
<1> QED BY <1>5

-----------------------------------------------------------------------------
(* The units of a sum *)

Unit(f, x) == {x} \X (1 .. f[x])
Units(f, S) == UNION {Unit(f, x) : x \in S}
Count(f, S) == Cardinality(Units(f, S))
Summable(f, S) == IsFiniteSet(S) /\ \A x \in S : f[x] \in Nat

\* An element has as many units as its value says.
LEMMA UnitCount ==
  ASSUME NEW f, NEW x, f[x] \in Nat
  PROVE  IsFiniteSet(Unit(f, x)) /\ Cardinality(Unit(f, x)) = f[x]
<1>1. IsFiniteSet({x}) /\ Cardinality({x}) = 1
  BY FS_Singleton
<1>2. 1 \in Int /\ f[x] \in Int
  OBVIOUS
<1>3. IsFiniteSet(1 .. f[x]) /\ Cardinality(1 .. f[x]) = f[x]
  <2>1. /\ IsFiniteSet(1 .. f[x])
        /\ Cardinality(1 .. f[x]) = IF 1 > f[x] THEN 0 ELSE f[x] - 1 + 1
    BY <1>2, FS_Interval
  <2> QED BY <2>1
<1>4. /\ IsFiniteSet({x} \X (1 .. f[x]))
      /\ Cardinality({x} \X (1 .. f[x])) = Cardinality({x}) * Cardinality(1 .. f[x])
  BY <1>1, <1>3, FS_Product
<1> QED BY <1>1, <1>3, <1>4 DEF Unit

\* The units of a summable function are finitely many.
LEMMA UnitsFinite ==
  ASSUME NEW f, NEW S, Summable(f, S)
  PROVE  IsFiniteSet(Units(f, S)) /\ Count(f, S) \in Nat
<1> DEFINE T == {Unit(f, x) : x \in S}
           F == [x \in S |-> Unit(f, x)]
<1>1. F \in Surjection(S, T)
  BY DEF Surjection
<1>2. IsFiniteSet(T)
  <2> HIDE DEF F, T
  <2> QED BY <1>1, FS_Surjection DEF Summable
<1>3. \A u \in T : IsFiniteSet(u)
  BY UnitCount DEF Summable
<1>4. IsFiniteSet(UNION T)
  <2> HIDE DEF T
  <2> QED BY <1>2, <1>3, FS_UNION
<1> QED BY <1>4, FS_CardinalityType DEF Units, Count

\* One element more adds its value.
LEMMA CountAdd ==
  ASSUME NEW f, NEW S, NEW x, x \notin S, Summable(f, S), f[x] \in Nat
  PROVE  Count(f, S \cup {x}) = Count(f, S) + f[x]
<1>1. Units(f, S \cup {x}) = Units(f, S) \cup Unit(f, x)
  BY DEF Units
<1>2. Units(f, S) \cap Unit(f, x) = {}
  BY DEF Units, Unit
<1>3. IsFiniteSet(Units(f, S)) /\ Count(f, S) \in Nat
  BY UnitsFinite
<1>4. IsFiniteSet(Unit(f, x)) /\ Cardinality(Unit(f, x)) = f[x]
  BY UnitCount
<1>5. Cardinality(Units(f, S) \cup Unit(f, x)) =
        Cardinality(Units(f, S)) + Cardinality(Unit(f, x))
          - Cardinality(Units(f, S) \cap Unit(f, x))
  BY <1>3, <1>4, FS_Union
<1>6. Cardinality(Units(f, S) \cap Unit(f, x)) = 0
  BY <1>2, FS_EmptySet
<1>7. ASSUME NEW a \in Nat, NEW b \in Nat PROVE a + b - 0 = a + b
  OBVIOUS
<1>8. Cardinality(Units(f, S)) \in Nat
  BY <1>3 DEF Count
<1>9. Cardinality(Units(f, S) \cup Unit(f, x)) = Cardinality(Units(f, S)) + f[x]
  BY <1>4, <1>5, <1>6, <1>7, <1>8
<1> QED BY <1>1, <1>9 DEF Count

\* The units of no element.
LEMMA CountEmpty == \A f : Count(f, {}) = 0
<1>1. \A f : Units(f, {}) = {}
  BY DEF Units
<1> QED BY <1>1, FS_EmptySet DEF Count

-----------------------------------------------------------------------------
(* The recursion that defines Total *)

Some(s) == CHOOSE x \in s : TRUE
Step(f, g, S) ==
  [s \in SUBSET S |-> IF s = {} THEN 0 ELSE f[Some(s)] + g[s \ {Some(s)}]]
Fold(f, S) == CHOOSE g : g = Step(f, g, S)

\* Subsets of what can be summed can be summed.
LEMMA SummableSubset ==
  ASSUME NEW f, NEW S, Summable(f, S), NEW s \in SUBSET S
  PROVE  Summable(f, s)
BY FS_Subset DEF Summable

\* The number of units solves the recursion, so the fold does.
LEMMA FoldSteps ==
  ASSUME NEW f, NEW S, Summable(f, S)
  PROVE  Fold(f, S) = Step(f, Fold(f, S), S)
<1> DEFINE g == [s \in SUBSET S |-> Count(f, s)]
<1>1. ASSUME NEW s \in SUBSET S, s # {}
      PROVE  Count(f, s) = f[Some(s)] + Count(f, s \ {Some(s)})
  <2>1. Some(s) \in s
    BY <1>1 DEF Some
  <2> DEFINE x == Some(s)
             r == s \ {x}
  <2>2. r \in SUBSET S /\ x \notin r /\ r \cup {x} = s /\ f[x] \in Nat
    BY <2>1 DEF Summable
  <2>3. Summable(f, r)
    BY <2>2, SummableSubset
  <2>4. Count(f, r) \in Nat
    BY <2>3, UnitsFinite
  <2> HIDE DEF x, r
  <2>5. Count(f, r \cup {x}) = Count(f, r) + f[x]
    BY <2>2, <2>3, CountAdd
  <2>6. Count(f, s) = f[x] + Count(f, r)
    BY <2>2, <2>4, <2>5
  <2> QED BY <2>6 DEF x, r
<1>2. g = Step(f, g, S)
  <2>1. ASSUME NEW s \in SUBSET S
        PROVE  g[s] = IF s = {} THEN 0 ELSE f[Some(s)] + g[s \ {Some(s)}]
    <3>1. s \ {Some(s)} \in SUBSET S
      OBVIOUS
    <3>2. g[s] = Count(f, s) /\ g[s \ {Some(s)}] = Count(f, s \ {Some(s)})
      BY <3>1
    <3> QED BY <1>1, <3>2, CountEmpty
  <2> QED BY <2>1, Zenon DEF Step
<1> HIDE DEF g
<1> QED BY <1>2 DEF Fold

\* Total is the number of units.
LEMMA TotalIsCount ==
  ASSUME NEW f, NEW S, Summable(f, S)
  PROVE  Total(f, S) = Count(f, S)
<1>1. Total(f, S) = Fold(f, S)[S]
  BY DEF Total, MapThenSumSet, MapThenFoldSet, Fold, Step, Some
<1> DEFINE g == Fold(f, S)
<1>2. g = Step(f, g, S)
  BY FoldSteps
<1> HIDE DEF g
<1>3. \A s \in SUBSET S : g[s] = IF s = {} THEN 0 ELSE f[Some(s)] + g[s \ {Some(s)}]
  BY <1>2 DEF Step
<1> DEFINE T == {s \in SUBSET S : g[s] # Count(f, s)}
           R == StrictSubsetOrdering(S)
<1>4. T = {}
  <2> SUFFICES ASSUME T # {} PROVE FALSE
    OBVIOUS
  <2>1. IsWellFoundedOn(R, SUBSET S)
    BY FS_StrictSubsetOrderingWellFounded, FS_FiniteSubsetsOfFinite DEF Summable
  <2>2. T \subseteq SUBSET S
    OBVIOUS
  <2>3. PICK m \in T : \A y \in T : ~(<<y, m>> \in R)
    <3> HIDE DEF T, R
    <3> QED BY <2>1, <2>2, WFMin
  <2>4. m \in SUBSET S /\ g[m] # Count(f, m)
    OBVIOUS
  <2>5. m # {}
    BY <1>3, <2>4, CountEmpty
  <2> DEFINE x == Some(m)
             r == m \ {x}
  <2>6. x \in m
    BY <2>5 DEF Some
  <2>7. r \in SUBSET S /\ x \notin r /\ r \cup {x} = m /\ f[x] \in Nat /\ r # m
    BY <2>4, <2>6 DEF Summable
  <2>8. g[m] = f[x] + g[r]
    BY <1>3, <2>4, <2>5
  <2> HIDE DEF x, r
  <2>9. <<r, m>> \in R
    BY <2>4, <2>7 DEF StrictSubsetOrdering
  <2>10. g[r] = Count(f, r)
    BY <2>3, <2>7, <2>9
  <2>11. Count(f, r) \in Nat /\ Count(f, r \cup {x}) = Count(f, r) + f[x]
    <3>1. Summable(f, r)
      BY <2>7, SummableSubset
    <3> QED BY <2>7, <3>1, UnitsFinite, CountAdd
  <2>12. ASSUME NEW a \in Nat, NEW b \in Nat PROVE a + b = b + a
    OBVIOUS
  <2>13. Count(f, m) = f[x] + Count(f, r)
    BY <2>7, <2>11, <2>12
  <2> QED BY <2>4, <2>8, <2>10, <2>13
<1>5. S \in SUBSET S
  OBVIOUS
<1>6. g[S] = Count(f, S)
  BY <1>4, <1>5
<1> QED BY <1>1, <1>6 DEF g

-----------------------------------------------------------------------------
(* The laws of Total *)

\* A sum is a natural number; the sum of nothing is 0.
LEMMA TotalNat ==
  ASSUME NEW f, NEW S, Summable(f, S)
  PROVE  Total(f, S) \in Nat /\ (S = {} => Total(f, S) = 0)
BY TotalIsCount, UnitsFinite, CountEmpty

\* One element more, one element less.
LEMMA TotalAdd ==
  ASSUME NEW f, NEW S, NEW x, x \notin S, Summable(f, S), f[x] \in Nat
  PROVE  Total(f, S \cup {x}) = Total(f, S) + f[x] /\ Summable(f, S \cup {x})
<1>1. Summable(f, S \cup {x})
  BY FS_AddElement DEF Summable
<1>2. Total(f, S \cup {x}) = Count(f, S \cup {x}) /\ Total(f, S) = Count(f, S)
  BY <1>1, TotalIsCount
<1>3. Count(f, S \cup {x}) = Count(f, S) + f[x]
  BY CountAdd
<1> QED BY <1>1, <1>2, <1>3

LEMMA TotalRemove ==
  ASSUME NEW f, NEW S, NEW x \in S, Summable(f, S)
  PROVE  /\ Summable(f, S \ {x})
         /\ Total(f, S) = Total(f, S \ {x}) + f[x]
         /\ Total(f, S \ {x}) = Total(f, S) - f[x]
         /\ f[x] <= Total(f, S)
<1> DEFINE r == S \ {x}
<1>1. r \in SUBSET S /\ x \notin r /\ r \cup {x} = S /\ f[x] \in Nat
  BY DEF Summable
<1>2. Summable(f, r)
  BY <1>1, SummableSubset
<1> HIDE DEF r
<1>3. Total(f, r \cup {x}) = Total(f, r) + f[x] /\ Total(f, r) \in Nat
  BY <1>1, <1>2, TotalAdd, TotalNat
<1>4. Total(f, S) = Total(f, r) + f[x]
  BY <1>1, <1>3
<1>5. Total(f, r) = Total(f, S) - f[x] /\ f[x] <= Total(f, S)
  BY <1>1, <1>3, <1>4
<1> QED BY <1>2, <1>4, <1>5 DEF r

\* Only the values on S count.
LEMMA TotalSame ==
  ASSUME NEW f, NEW h, NEW S, Summable(f, S), \A x \in S : h[x] = f[x]
  PROVE  Total(h, S) = Total(f, S) /\ Summable(h, S)
<1>1. Summable(h, S)
  BY DEF Summable
<1>2. \A x \in S : Unit(h, x) = Unit(f, x)
  BY DEF Unit
<1>3. Units(h, S) = Units(f, S)
  BY <1>2 DEF Units
<1> QED BY <1>1, <1>3, TotalIsCount DEF Count

\* One value changes.
Differs(f, h, S, x) ==
  Summable(f, S) /\ x \in S /\ h[x] \in Nat /\ \A y \in S \ {x} : h[y] = f[y]

LEMMA TotalUpdate ==
  ASSUME NEW f, NEW h, NEW S, NEW x, Differs(f, h, S, x)
  PROVE  /\ Summable(h, S)
         /\ Total(h, S) = Total(f, S) - f[x] + h[x]
         /\ f[x] <= Total(f, S)
<1> DEFINE r == S \ {x}
<1>1. Summable(h, S) /\ Summable(f, S) /\ x \in S /\ f[x] \in Nat /\ h[x] \in Nat
  BY DEF Summable, Differs
<1>2. Summable(f, r) /\ Total(f, S) = Total(f, r) + f[x] /\ f[x] <= Total(f, S)
  BY <1>1, TotalRemove
<1>3. Total(h, S) = Total(h, r) + h[x]
  BY <1>1, TotalRemove
<1>4. Total(h, r) = Total(f, r) /\ Total(f, r) \in Nat
  BY <1>2, TotalSame, TotalNat DEF Differs
<1> HIDE DEF r
<1>5. ASSUME NEW a \in Nat, NEW b \in Nat, NEW c \in Nat PROVE a + c = (a + b) - b + c
  OBVIOUS
<1> QED BY <1>1, <1>2, <1>3, <1>4, <1>5

\* Values whose ratio to others is bounded have a sum whose ratio is.
LEMMA TotalScaled ==
  ASSUME NEW f, NEW h, NEW S, Summable(f, S), Summable(h, S), NEW m \in Nat, NEW n \in Nat,
         \A x \in S : f[x] * m <= h[x] * n
  PROVE  Total(f, S) * m <= Total(h, S) * n
<1> DEFINE B == {s \in SUBSET S : Total(f, s) * m <= Total(h, s) * n}
<1>1. {} \in B
  <2>1. Summable(f, {}) /\ Summable(h, {})
    BY SummableSubset
  <2>2. Total(f, {}) = 0 /\ Total(h, {}) = 0
    BY <2>1, TotalNat
  <2> QED BY <2>2
<1>2. ASSUME NEW s \in SUBSET S, NEW x \in S \ s, s \in B
      PROVE  s \cup {x} \in B
  <2>1. Summable(f, s) /\ Summable(h, s) /\ f[x] \in Nat /\ h[x] \in Nat
    BY SummableSubset DEF Summable
  <2>2. /\ Total(f, s \cup {x}) = Total(f, s) + f[x] /\ Total(f, s) \in Nat
        /\ Total(h, s \cup {x}) = Total(h, s) + h[x] /\ Total(h, s) \in Nat
    BY <2>1, TotalAdd, TotalNat
  <2>3. ASSUME NEW a \in Nat, NEW b \in Nat, NEW c \in Nat, NEW d \in Nat,
               a * m <= c * n, b * m <= d * n
        PROVE  (a + b) * m <= (c + d) * n
    <3>1. (a + b) * m = a * m + b * m /\ (c + d) * n = c * n + d * n
      OBVIOUS
    <3>2. a * m \in Nat /\ b * m \in Nat /\ c * n \in Nat /\ d * n \in Nat
      OBVIOUS
    <3> QED BY <2>3, <3>1, <3>2
  <2>4. Total(f, s) * m <= Total(h, s) * n /\ f[x] * m <= h[x] * n
    BY <1>2
  <2>5. (Total(f, s) + f[x]) * m <= (Total(h, s) + h[x]) * n
    BY <2>1, <2>2, <2>3, <2>4
  <2> QED BY <2>2, <2>5
<1>3. S \in B
  <2> HIDE DEF B
  <2> QED BY <1>1, <1>2, FiniteInduction DEF Summable
<1> QED BY <1>3

-----------------------------------------------------------------------------
(* Folds over sequences: FoldLeft is defined by recursion over the sets of  *)
(* indices, each without its largest one                                    *)

\* A set of indices has a largest one.
LEMMA IndexMax ==
  ASSUME NEW n \in Nat, NEW s \in SUBSET (1 .. n), s # {}
  PROVE  Max(s) \in s /\ Max(s) \in 1 .. n /\ \A i \in s : i <= Max(s)
<1>1. IsFiniteSet(1 .. n)
  <2>1. 1 \in Int /\ n \in Int
    OBVIOUS
  <2> QED BY <2>1, FS_Interval
<1>2. IsFiniteSet(s)
  BY <1>1, FS_Subset
<1>3. s \in SUBSET Nat
  OBVIOUS
<1> QED BY <1>2, <1>3, MaxIsLargest

\* The largest index up to which a prefix goes.
LEMMA PrefixTop ==
  ASSUME NEW k \in Nat
  PROVE  Max(1 .. (k + 1)) = k + 1 /\ (1 .. (k + 1)) \ {Max(1 .. (k + 1))} = 1 .. k
<1> DEFINE S == 1 .. (k + 1)
<1>1. k + 1 \in Nat /\ S \in SUBSET (1 .. (k + 1)) /\ S # {} /\ k + 1 \in S
  OBVIOUS
<1>2. \A i \in S : i \in Nat /\ i <= k + 1
  OBVIOUS
<1> HIDE DEF S
<1>3. Max(S) \in S /\ \A y \in S : y <= Max(S)
  BY <1>1, IndexMax
<1>4. Max(S) = k + 1
  <2>1. ASSUME NEW m \in S, \A y \in S : y <= m PROVE m = k + 1
    <3>1. m \in Nat /\ m <= k + 1 /\ k + 1 <= m
      BY <1>1, <1>2, <2>1
    <3> QED BY <3>1
  <2> QED BY <1>3, <2>1
<1>5. S \ {k + 1} = 1 .. k
  <2>1. \A i \in S : i # k + 1 => i \in 1 .. k
    BY DEF S
  <2>2. \A i \in 1 .. k : i \in S /\ i # k + 1
    BY DEF S
  <2> QED BY <2>1, <2>2
<1> QED BY <1>4, <1>5 DEF S

\* The recursion has a solution, whatever is done at each index.
Folded(g, n, F, base) ==
  \A s \in SUBSET (1 .. n) :
    g[s] = IF s = {} THEN base ELSE F[<<g[s \ {Max(s)}], Max(s)>>]

LEMMA FoldExists ==
  ASSUME NEW n \in Nat, NEW A, NEW base \in A, NEW F \in [A \X (1 .. n) -> A]
  PROVE  \E g \in [SUBSET (1 .. n) -> A] : Folded(g, n, F, base)
<1> DEFINE B == {k \in 0 .. n : \E g \in [SUBSET (1 .. k) -> A] : Folded(g, k, F, base)}
<1>1. 0 \in B
  <2> DEFINE g == [s \in SUBSET (1 .. 0) |-> base]
  <2>1. \A s \in SUBSET (1 .. 0) : s = {}
    OBVIOUS
  <2>2. g \in [SUBSET (1 .. 0) -> A] /\ Folded(g, 0, F, base)
    BY <2>1 DEF Folded
  <2>3. 0 \in 0 .. n
    OBVIOUS
  <2> HIDE DEF g
  <2> QED BY <2>2, <2>3, Zenon
<1>2. ASSUME NEW k \in Nat, k < n, k \in B PROVE k + 1 \in B
  <2>1. PICK g \in [SUBSET (1 .. k) -> A] : Folded(g, k, F, base)
    BY <1>2
  <2> DEFINE D == 1 .. (k + 1)
             e == [s \in SUBSET D |-> IF k + 1 \in s THEN F[<<g[s \ {k + 1}], k + 1>>]
                                      ELSE g[s]]
  <2>2. \A s \in SUBSET D : s \ {k + 1} \in SUBSET (1 .. k)
    <3>1. \A i \in D : i # k + 1 => i \in 1 .. k
      OBVIOUS
    <3> QED BY <3>1
  <2>3. k + 1 \in 1 .. n
    BY <1>2
  <2>4. \A s \in SUBSET D : e[s] \in A
    <3>1. ASSUME NEW s \in SUBSET D PROVE e[s] \in A
      <4>1. CASE k + 1 \in s
        BY <2>2, <2>3, <4>1
      <4>2. CASE k + 1 \notin s
        <5>1. s \in SUBSET (1 .. k)
          BY <2>2, <4>2
        <5> QED BY <4>2, <5>1
      <4> QED BY <4>1, <4>2
    <3> QED BY <3>1
  <2>5. ASSUME NEW s \in SUBSET D
        PROVE  e[s] = IF s = {} THEN base ELSE F[<<e[s \ {Max(s)}], Max(s)>>]
    <3>1. CASE k + 1 \in s
      <4>1. k + 1 \in Nat /\ s # {}
        BY <3>1
      <4>3. Max(s) \in s /\ \A y \in s : y <= Max(s)
        BY <4>1, IndexMax
      <4>4. Max(s) = k + 1
        <5>1. ASSUME NEW m \in s, \A y \in s : y <= m PROVE m = k + 1
          <6>1. m \in D /\ k + 1 <= m
            BY <3>1, <5>1
          <6> QED BY <6>1
        <5> QED BY <4>3, <5>1
      <4>5. e[s \ {k + 1}] = g[s \ {k + 1}]
        OBVIOUS
      <4>6. e[s] = F[<<g[s \ {k + 1}], k + 1>>]
        BY <3>1
      <4> HIDE DEF e
      <4> QED BY <4>1, <4>4, <4>5, <4>6
    <3>2. CASE k + 1 \notin s
      <4>1. s \in SUBSET (1 .. k) /\ s \ {Max(s)} \in SUBSET (1 .. k)
        BY <2>2, <3>2
      <4>2. g[s] = IF s = {} THEN base ELSE F[<<g[s \ {Max(s)}], Max(s)>>]
        BY <2>1, <4>1 DEF Folded
      <4>3. e[s] = g[s] /\ e[s \ {Max(s)}] = g[s \ {Max(s)}]
        BY <3>2, <4>1
      <4> HIDE DEF e
      <4> QED BY <4>2, <4>3
    <3> QED BY <3>1, <3>2
  <2>6. e \in [SUBSET D -> A]
    BY <2>4
  <2>7. Folded(e, k + 1, F, base)
    <3> HIDE DEF e
    <3> QED BY <2>5 DEF Folded
  <2>8. k + 1 \in 0 .. n
    BY <1>2
  <2> HIDE DEF e
  <2> QED BY <2>6, <2>7, <2>8, Zenon
<1>3. \A i \in 0 .. n : i \in B
  <2> HIDE DEF B
  <2> QED BY <1>1, <1>2, NumberInduction
<1>4. n \in B
  <2>1. n \in 0 .. n
    OBVIOUS
  <2> HIDE DEF B
  <2> QED BY <1>3, <2>1
<1> QED BY <1>4

\* The values of a solution for the prefixes of the sequence, one after the other.
Unrolls(w, n, A, F, base) ==
  /\ n \in Nat /\ base \in A /\ F \in [A \X (1 .. n) -> A]
  /\ w[{}] = base
  /\ \A s \in SUBSET (1 .. n) : s # {} /\ w[s \ {Max(s)}] \in A =>
       w[s] = F[<<w[s \ {Max(s)}], Max(s)>>]
Iterates(w, n, A, F, base) ==
  \E h \in [0 .. n -> A] :
    /\ h[0] = base /\ h[n] = w[1 .. n]
    /\ \A k \in 1 .. n : k - 1 \in 0 .. n /\ h[k] = F[<<h[k - 1], k>>]

LEMMA FoldPrefix ==
  ASSUME NEW w, NEW n, NEW A, NEW F, NEW base, Unrolls(w, n, A, F, base)
  PROVE  Iterates(w, n, A, F, base)
<1>0. n \in Nat /\ base \in A /\ F \in [A \X (1 .. n) -> A]
  BY DEF Unrolls
<1> USE <1>0
<1> DEFINE h == [k \in 0 .. n |-> w[1 .. k]]
           B == {k \in 0 .. n : h[k] \in A}
<1>1. h[0] = base /\ h[n] = w[1 .. n]
  <2>1. 1 .. 0 = {} /\ 0 \in 0 .. n /\ n \in 0 .. n
    OBVIOUS
  <2> QED BY <2>1 DEF Unrolls
<1>2. ASSUME NEW k \in Nat, k < n, h[k] \in A
      PROVE  h[k + 1] = F[<<h[k], k + 1>>] /\ h[k + 1] \in A /\ k + 1 \in 0 .. n
  <2> DEFINE s == 1 .. (k + 1)
  <2>1. k \in 0 .. n /\ k + 1 \in 0 .. n /\ k + 1 \in 1 .. n
    BY <1>2
  <2>2. s \in SUBSET (1 .. n)
    <3>1. \A i \in s : i \in 1 .. n
      BY <1>2
    <3> QED BY <3>1
  <2>3. k + 1 \in s
    OBVIOUS
  <2>4. Max(s) = k + 1 /\ s \ {Max(s)} = 1 .. k
    BY PrefixTop
  <2>5. h[k] = w[1 .. k] /\ h[k + 1] = w[s]
    BY <2>1
  <2> HIDE DEF s, h
  <2>6. w[s] = F[<<w[s \ {Max(s)}], Max(s)>>]
    BY <1>2, <2>2, <2>3, <2>4, <2>5 DEF Unrolls
  <2> QED BY <1>2, <2>1, <2>4, <2>5, <2>6
<1>3. 0 \in B
  <2>1. 0 \in 0 .. n
    OBVIOUS
  <2> HIDE DEF h
  <2> QED BY <1>1, <2>1
<1>4. ASSUME NEW k \in Nat, k < n, k \in B PROVE k + 1 \in B
  <2> HIDE DEF h
  <2> QED BY <1>2, <1>4
<1>5. \A k \in 0 .. n : k \in B
  <2> HIDE DEF B
  <2> QED BY <1>3, <1>4, NumberInduction
<1>6. h \in [0 .. n -> A]
  <2>1. \A k \in 0 .. n : h[k] \in A
    <3> HIDE DEF h
    <3> QED BY <1>5
  <2> QED BY <2>1
<1> HIDE DEF h, B
<1>7. \A k \in 1 .. n : k - 1 \in 0 .. n /\ h[k] = F[<<h[k - 1], k>>]
  <2>1. \A k \in 1 .. n : k - 1 \in Nat /\ k - 1 < n /\ (k - 1) + 1 = k /\ k - 1 \in 0 .. n
    OBVIOUS
  <2> QED BY <1>2, <1>6, <2>1
<1> QED BY <1>1, <1>6, <1>7 DEF Iterates
=============================================================================
