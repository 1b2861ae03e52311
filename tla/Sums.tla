-------------------------------- MODULE Sums --------------------------------
(***************************************************************************)
(* Facts about MapThenSumSet, with which the models add amounts: the sum   *)
(* of a finite set exists, is a number, and loses exactly the term of an   *)
(* element that is taken out; and what follows of sums that change.        *)
(***************************************************************************)
EXTENDS Integers, FiniteSetsExt, FiniteSetTheorems, WellFoundedInduction, TLAPS

SumOver(f, S) == MapThenSumSet(LAMBDA x : f[x], S)

\* The element MapThenSumSet takes next, and the equation of its recursion.
Pick(s) == CHOOSE x \in s : TRUE
Added(f, g, s) == IF s = {} THEN 0 ELSE f[Pick(s)] + g[s \ {Pick(s)}]
Solves(f, S, g) == g = [s \in SUBSET S |-> Added(f, g, s)]

LEMMA Picked == \A s : s # {} => Pick(s) \in s
BY DEF Pick

\* A set of subsets of a finite set has a least one.
LEMMA LeastSubset ==
  ASSUME NEW S, IsFiniteSet(S), NEW C \in SUBSET SUBSET S, C # {}
  PROVE  \E s \in C : \A t \in C : t \subseteq s => t = s
<1>1. IsWellFoundedOn(StrictSubsetOrdering(S), SUBSET S)
  BY FS_StrictSubsetOrderingWellFounded, FS_FiniteSubsetsOfFinite
<1>2. PICK s \in C : \A t \in C : ~(<<t, s>> \in StrictSubsetOrdering(S))
  BY <1>1, WFMin
<1>3. \A t \in C : t \subseteq s /\ t # s => <<t, s>> \in StrictSubsetOrdering(S)
  BY DEF StrictSubsetOrdering
<1>4. \A t \in C : t \subseteq s => t = s
  BY <1>2, <1>3
<1> QED BY <1>4

LEMMA Smaller ==
  ASSUME NEW s, IsFiniteSet(s), s # {}
  PROVE  /\ IsFiniteSet(s \ {Pick(s)}) /\ Cardinality(s) \in Nat \ {0}
         /\ Cardinality(s \ {Pick(s)}) = Cardinality(s) - 1
<1>1. Pick(s) \in s
  BY Picked
<1> QED BY <1>1, FS_RemoveElement, FS_CardinalityType, FS_EmptySet

\* The recursion has a solution.
LEMMA Recursion ==
  ASSUME NEW f, NEW S, IsFiniteSet(S)
  PROVE  \E g : Solves(f, S, g)
<1> DEFINE Level(n) == {s \in SUBSET S : Cardinality(s) <= n}
           Solved(n) == \E g : g = [s \in Level(n) |-> Added(f, g, s)]
           Bad == {s \in SUBSET S : ~Solved(Cardinality(s))}
<1>0. \A s \in SUBSET S : IsFiniteSet(s) /\ Cardinality(s) \in Nat
  BY FS_Subset, FS_CardinalityType
<1>1. Solved(0)
  <2>1. \A s \in Level(0) : s = {}
    BY <1>0, FS_EmptySet
  <2>2. [s \in Level(0) |-> 0] = [s \in Level(0) |-> Added(f, [t \in Level(0) |-> 0], s)]
    BY <2>1 DEF Added
  <2> QED BY <2>2
<1>2. ASSUME NEW n \in Nat, Solved(n) PROVE Solved(n + 1)
  <2>1. PICK h : h = [s \in Level(n) |-> Added(f, h, s)]
    BY <1>2
  <2> DEFINE g == [s \in Level(n + 1) |-> Added(f, h, s)]
  <2>2. ASSUME NEW s \in Level(n + 1), s # {} PROVE s \ {Pick(s)} \in Level(n)
    BY <1>0, <2>2, Smaller
  <2>3. Level(n) \subseteq Level(n + 1)
    BY <1>0
  <2>4. \A s \in Level(n) : g[s] = h[s]
    BY <2>1, <2>3
  <2>5. \A s \in Level(n + 1) : Added(f, h, s) = Added(f, g, s)
    BY <2>2, <2>4 DEF Added
  <2>6. g = [s \in Level(n + 1) |-> Added(f, g, s)]
    BY <2>5
  <2> QED BY <2>6
<1>3. Bad = {}
  <2> SUFFICES ASSUME Bad # {} PROVE FALSE
    OBVIOUS
  <2>1. PICK s \in Bad : \A t \in Bad : t \subseteq s => t = s
    <3>1. Bad \in SUBSET SUBSET S
      OBVIOUS
    <3> HIDE DEF Bad
    <3> QED BY <3>1, LeastSubset
  <2>2. s # {}
    BY <1>1, FS_EmptySet
  <2>3. s \ {Pick(s)} \subseteq s /\ s \ {Pick(s)} # s
    BY <2>2, Picked
  <2>4. Solved(Cardinality(s \ {Pick(s)}))
    BY <2>1, <2>3
  <2>5. /\ Cardinality(s \ {Pick(s)}) \in Nat
        /\ Cardinality(s) = Cardinality(s \ {Pick(s)}) + 1
    BY <1>0, <2>2, Smaller
  <2> HIDE DEF Solved
  <2>6. Solved(Cardinality(s))
    BY <1>2, <2>4, <2>5
  <2> QED BY <2>6
<1>4. Level(Cardinality(S)) = SUBSET S
  BY <1>0, FS_Subset
<1>5. Solved(Cardinality(S))
  BY <1>3
<1> QED BY <1>4, <1>5 DEF Solves

\* So MapThenSumSet obeys it.
LEMMA Fold ==
  ASSUME NEW f, NEW S, IsFiniteSet(S)
  PROVE  \E g : Solves(f, S, g) /\ SumOver(f, S) = g[S]
<1> DEFINE g == CHOOSE iter : iter = [s \in SUBSET S |-> Added(f, iter, s)]
<1>1. Solves(f, S, g)
  BY Recursion DEF Solves
<1>2. SumOver(f, S) = g[S]
  BY DEF SumOver, MapThenSumSet, MapThenFoldSet, Added, Pick
<1> QED BY <1>1, <1>2

\* Two solutions, over sets that may differ, agree where both add the same terms.
LEMMA Unique ==
  ASSUME NEW S, IsFiniteSet(S), NEW T \in SUBSET S, NEW e, NEW f, \A x \in T : e[x] = f[x],
         NEW g, Solves(e, S, g), NEW h, Solves(f, T, h)
  PROVE  \A s \in SUBSET T : g[s] = h[s]
<1> DEFINE Bad == {s \in SUBSET T : g[s] # h[s]}
<1> SUFFICES ASSUME Bad # {} PROVE FALSE
  OBVIOUS
<1>1. IsFiniteSet(T)
  BY FS_Subset
<1>2. PICK s \in Bad : \A t \in Bad : t \subseteq s => t = s
  <2>1. Bad \in SUBSET SUBSET S
    OBVIOUS
  <2> HIDE DEF Bad
  <2> QED BY <2>1, <1>1, LeastSubset
<1>3. CASE s = {}
  BY <1>3 DEF Added, Solves
<1>4. CASE s # {}
  <2>1. Pick(s) \in s /\ s \ {Pick(s)} \subseteq s /\ s \ {Pick(s)} # s
    BY <1>4, Picked
  <2>2. g[s \ {Pick(s)}] = h[s \ {Pick(s)}]
    BY <1>2, <2>1
  <2>3. g[s] = Added(e, g, s) /\ h[s] = Added(f, h, s)
    BY DEF Solves
  <2>4. Added(e, g, s) = Added(f, h, s)
    BY <1>4, <2>1, <2>2 DEF Added
  <2> QED BY <2>3, <2>4
<1> QED BY <1>3, <1>4

------------------------------------------------------------------------------
(* The facts.                                                              *)

LEMMA SumEmpty == \A f : SumOver(f, {}) = 0
<1> SUFFICES ASSUME NEW f PROVE SumOver(f, {}) = 0
  OBVIOUS
<1>1. PICK g : Solves(f, {}, g) /\ SumOver(f, {}) = g[{}]
  BY Fold, FS_EmptySet
<1> QED BY <1>1 DEF Added, Solves

LEMMA SumStep ==
  ASSUME NEW f, NEW S, IsFiniteSet(S), S # {}
  PROVE  SumOver(f, S) = f[Pick(S)] + SumOver(f, S \ {Pick(S)})
<1> DEFINE T == S \ {Pick(S)}
<1>1. IsFiniteSet(T) /\ T \in SUBSET S
  BY Smaller
<1>2. PICK g : Solves(f, S, g) /\ SumOver(f, S) = g[S]
  BY Fold
<1>3. PICK h : Solves(f, T, h) /\ SumOver(f, T) = h[T]
  BY <1>1, Fold
<1>4. g[T] = h[T]
  BY <1>1, <1>2, <1>3, Unique
<1>5. g[S] = Added(f, g, S)
  BY <1>2 DEF Solves
<1> QED BY <1>2, <1>3, <1>4, <1>5 DEF Added

\* Sums of the same terms are equal.
LEMMA SumAgree ==
  ASSUME NEW S, IsFiniteSet(S), NEW e, NEW f, \A x \in S : e[x] = f[x]
  PROVE  SumOver(e, S) = SumOver(f, S)
<1>1. PICK g : Solves(e, S, g) /\ SumOver(e, S) = g[S]
  BY Fold
<1>2. PICK h : Solves(f, S, h) /\ SumOver(f, S) = h[S]
  BY Fold
<1>3. g[S] = h[S]
  BY <1>1, <1>2, Unique
<1> QED BY <1>1, <1>2, <1>3

LEMMA SumTyped ==
  ASSUME NEW S, IsFiniteSet(S), NEW f, \A x \in S : f[x] \in Int
  PROVE  SumOver(f, S) \in Int
<1> DEFINE Bad == {s \in SUBSET S : SumOver(f, s) \notin Int}
<1> SUFFICES ASSUME Bad # {} PROVE FALSE
  OBVIOUS
<1>1. PICK s \in Bad : \A t \in Bad : t \subseteq s => t = s
  <2>1. Bad \in SUBSET SUBSET S
    OBVIOUS
  <2> HIDE DEF Bad
  <2> QED BY <2>1, LeastSubset
<1>2. IsFiniteSet(s) /\ s # {}
  <2>1. SumOver(f, {}) \in Int
    BY SumEmpty
  <2> QED BY <2>1, FS_Subset
<1>3. Pick(s) \in s /\ s \ {Pick(s)} \subseteq s /\ s \ {Pick(s)} # s
  BY <1>2, Picked
<1>4. SumOver(f, s \ {Pick(s)}) \in Int /\ f[Pick(s)] \in Int
  BY <1>1, <1>3
<1> QED BY <1>2, <1>4, SumStep

\* Any element may be taken out.
LEMMA SumRemove ==
  ASSUME NEW S, IsFiniteSet(S), NEW f, \A x \in S : f[x] \in Int, NEW x \in S
  PROVE  SumOver(f, S) = f[x] + SumOver(f, S \ {x})
<1> DEFINE Good(s) == \A y \in s : SumOver(f, s) = f[y] + SumOver(f, s \ {y})
           Bad == {s \in SUBSET S : ~Good(s)}
<1> SUFFICES ASSUME Bad # {} PROVE FALSE
  OBVIOUS
<1>1. PICK s \in Bad : \A t \in Bad : t \subseteq s => t = s
  <2>1. Bad \in SUBSET SUBSET S
    OBVIOUS
  <2> HIDE DEF Bad
  <2> QED BY <2>1, LeastSubset
<1>2. PICK y \in s : SumOver(f, s) # f[y] + SumOver(f, s \ {y})
  BY <1>1
<1>3. PICK z \in s : z = Pick(s)
  BY <1>2, Picked
<1>4. IsFiniteSet(s) /\ SumOver(f, s) = f[z] + SumOver(f, s \ {z}) /\ z # y
  BY <1>2, <1>3, FS_Subset, SumStep
<1>5. Good(s \ {y}) /\ Good(s \ {z})
  <2>1. /\ s \ {y} \subseteq s /\ s \ {y} # s /\ s \ {y} \in SUBSET S
        /\ s \ {z} \subseteq s /\ s \ {z} # s /\ s \ {z} \in SUBSET S
    OBVIOUS
  <2> HIDE DEF Good
  <2> QED BY <1>1, <2>1
<1>6. (s \ {y}) \ {z} = (s \ {z}) \ {y}
  OBVIOUS
<1>7. SumOver(f, s \ {z}) = f[y] + SumOver(f, (s \ {z}) \ {y})
  BY <1>4, <1>5
<1>8. SumOver(f, s \ {y}) = f[z] + SumOver(f, (s \ {z}) \ {y})
  BY <1>4, <1>5, <1>6
<1>9. f[y] \in Int /\ f[z] \in Int /\ SumOver(f, (s \ {z}) \ {y}) \in Int
  <2>1. (s \ {z}) \ {y} \in SUBSET S
    OBVIOUS
  <2>2. IsFiniteSet((s \ {z}) \ {y})
    BY <2>1, FS_Subset
  <2> QED BY <2>2, SumTyped
<1> QED BY <1>2, <1>4, <1>7, <1>8, <1>9

LEMMA SumNatural ==
  ASSUME NEW S, IsFiniteSet(S), NEW f, \A x \in S : f[x] \in Nat
  PROVE  SumOver(f, S) \in Nat
<1> DEFINE Bad == {s \in SUBSET S : SumOver(f, s) \notin Nat}
<1> SUFFICES ASSUME Bad # {} PROVE FALSE
  OBVIOUS
<1>1. PICK s \in Bad : \A t \in Bad : t \subseteq s => t = s
  <2>1. Bad \in SUBSET SUBSET S
    OBVIOUS
  <2> HIDE DEF Bad
  <2> QED BY <2>1, LeastSubset
<1>2. IsFiniteSet(s) /\ s # {}
  <2>1. SumOver(f, {}) \in Nat
    BY SumEmpty
  <2> QED BY <2>1, FS_Subset
<1>3. Pick(s) \in s /\ s \ {Pick(s)} \subseteq s /\ s \ {Pick(s)} # s
  BY <1>2, Picked
<1>4. SumOver(f, s \ {Pick(s)}) \in Nat /\ f[Pick(s)] \in Nat
  BY <1>1, <1>3
<1> QED BY <1>2, <1>4, SumStep

\* A part of natural numbers adds up to no more than the whole.
LEMMA SumPart ==
  ASSUME NEW S, IsFiniteSet(S), NEW f, \A x \in S : f[x] \in Nat, NEW R \in SUBSET S
  PROVE  SumOver(f, R) <= SumOver(f, S)
<1> DEFINE Bad == {s \in SUBSET S : R \subseteq s /\ ~(SumOver(f, R) <= SumOver(f, s))}
<1> SUFFICES ASSUME Bad # {} PROVE FALSE
  BY Zenon
<1>1. PICK s \in Bad : \A t \in Bad : t \subseteq s => t = s
  <2>1. Bad \in SUBSET SUBSET S
    OBVIOUS
  <2> HIDE DEF Bad
  <2> QED BY <2>1, LeastSubset
<1>2. SumOver(f, R) \in Nat /\ SumOver(f, s) \in Nat
  BY FS_Subset, SumNatural
<1>3. PICK x \in s : x \notin R
  BY <1>2
<1>4. SumOver(f, R) <= SumOver(f, s \ {x})
  BY <1>1, <1>3
<1>5. SumOver(f, s) = f[x] + SumOver(f, s \ {x}) /\ f[x] \in Nat
  BY FS_Subset, SumRemove
<1>6. SumOver(f, s \ {x}) \in Nat
  <2>1. s \ {x} \in SUBSET S
    OBVIOUS
  <2> QED BY <2>1, FS_Subset, SumNatural
<1> QED BY <1>2, <1>4, <1>5, <1>6

\* A natural number added is at most the sum.
LEMMA SumTerm ==
  ASSUME NEW S, IsFiniteSet(S), NEW f, \A x \in S : f[x] \in Nat, NEW x \in S
  PROVE  f[x] <= SumOver(f, S)
<1>1. S \ {x} \in SUBSET S /\ IsFiniteSet(S \ {x})
  BY FS_Subset
<1>2. SumOver(f, S) = f[x] + SumOver(f, S \ {x}) /\ SumOver(f, S \ {x}) \in Nat
  BY <1>1, SumRemove, SumNatural
<1> QED BY <1>2

\* An element is put in.
LEMMA SumAdd ==
  ASSUME NEW S, IsFiniteSet(S), NEW f, NEW y, y \notin S, \A x \in S \cup {y} : f[x] \in Int
  PROVE  SumOver(f, S \cup {y}) = SumOver(f, S) + f[y]
<1>1. IsFiniteSet(S \cup {y}) /\ (S \cup {y}) \ {y} = S
  BY FS_AddElement
<1>2. SumOver(f, S \cup {y}) = f[y] + SumOver(f, S)
  BY <1>1, SumRemove
<1>3. SumOver(f, S) \in Int
  BY SumTyped
<1> QED BY <1>2, <1>3

\* One term changes.
LEMMA SumChange ==
  ASSUME NEW S, IsFiniteSet(S), NEW y \in S,
         NEW e, \A x \in S : e[x] \in Int, NEW f, \A x \in S : f[x] \in Int,
         \A x \in S \ {y} : f[x] = e[x]
  PROVE  SumOver(f, S) = SumOver(e, S) + (f[y] - e[y])
<1>1. IsFiniteSet(S \ {y})
  BY FS_Subset
<1>2. SumOver(e, S) = e[y] + SumOver(e, S \ {y}) /\ SumOver(f, S) = f[y] + SumOver(f, S \ {y})
  BY SumRemove
<1>3. SumOver(e, S \ {y}) = SumOver(f, S \ {y})
  BY <1>1, SumAgree
<1>4. SumOver(e, S \ {y}) \in Int
  BY <1>1, SumTyped
<1> QED BY <1>2, <1>3, <1>4

\* The same number, added for every element.
LEMMA SumConstant ==
  ASSUME NEW S, IsFiniteSet(S), NEW f, NEW n \in Int, \A x \in S : f[x] = n
  PROVE  SumOver(f, S) = Cardinality(S) * n
<1> DEFINE Bad == {s \in SUBSET S : SumOver(f, s) # Cardinality(s) * n}
<1> SUFFICES ASSUME Bad # {} PROVE FALSE
  OBVIOUS
<1>1. PICK s \in Bad : \A t \in Bad : t \subseteq s => t = s
  <2>1. Bad \in SUBSET SUBSET S
    OBVIOUS
  <2> HIDE DEF Bad
  <2> QED BY <2>1, LeastSubset
<1>2. IsFiniteSet(s) /\ s # {}
  <2>1. SumOver(f, {}) = Cardinality({}) * n
    BY SumEmpty, FS_EmptySet
  <2> QED BY <2>1, FS_Subset
<1>3. Pick(s) \in s /\ s \ {Pick(s)} \subseteq s /\ s \ {Pick(s)} # s
  BY <1>2, Picked
<1> DEFINE m == Cardinality(s \ {Pick(s)})
<1>4. m \in Nat /\ Cardinality(s) = m + 1
  <2>1. Cardinality(s) \in Nat \ {0} /\ Cardinality(s \ {Pick(s)}) = Cardinality(s) - 1
    BY <1>2, Smaller
  <2> QED BY <2>1
<1> HIDE DEF m
<1>5. SumOver(f, s \ {Pick(s)}) = m * n /\ f[Pick(s)] = n
  BY <1>1, <1>3 DEF m
<1>6. SumOver(f, s) = n + m * n
  BY <1>2, <1>5, SumStep
<1>7. (m + 1) * n = n + m * n
  BY <1>4
<1> QED BY <1>4, <1>6, <1>7

\* Two sets add up to no less than their union.
LEMMA SumUnion ==
  ASSUME NEW S, IsFiniteSet(S), NEW f, \A x \in S : f[x] \in Nat,
         NEW A \in SUBSET S, NEW B \in SUBSET S
  PROVE  SumOver(f, A \cup B) <= SumOver(f, A) + SumOver(f, B)
<1> DEFINE Bad == {b \in SUBSET S : ~(SumOver(f, A \cup b) <= SumOver(f, A) + SumOver(f, b))}
<1> SUFFICES ASSUME Bad # {} PROVE FALSE
  BY Zenon
<1>0. \A s \in SUBSET S : SumOver(f, s) \in Nat /\ IsFiniteSet(s) /\ \A x \in s : f[x] \in Nat
  BY FS_Subset, SumNatural
<1>1. PICK b \in Bad : \A t \in Bad : t \subseteq b => t = b
  <2>1. Bad \in SUBSET SUBSET S
    OBVIOUS
  <2> HIDE DEF Bad
  <2> QED BY <2>1, LeastSubset
<1>2. b # {}
  <2> SUFFICES ASSUME b = {} PROVE FALSE
    OBVIOUS
  <2>1. A \cup b = A /\ SumOver(f, b) = 0
    BY SumEmpty
  <2>2. SumOver(f, A) <= SumOver(f, A) + 0
    BY <1>0
  <2> QED BY <1>1, <2>1, <2>2
<1>3. PICK x \in b : TRUE
  BY <1>2
<1> DEFINE r == b \ {x}
<1>4. r \in SUBSET S /\ r # b /\ r \subseteq b /\ A \cup r \in SUBSET S /\ A \cup b \in SUBSET S
  OBVIOUS
<1>5. SumOver(f, A \cup r) <= SumOver(f, A) + SumOver(f, r)
  BY <1>1, <1>4
<1>6. SumOver(f, b) = f[x] + SumOver(f, r)
  <2>1. IsFiniteSet(b) /\ \A y \in b : f[y] \in Int
    BY <1>0
  <2> QED BY <2>1, SumRemove
<1>7. SumOver(f, A \cup b) <= f[x] + SumOver(f, A \cup r)
  <2>1. CASE x \in A
    <3>1. A \cup b = A \cup r
      BY <2>1
    <3> HIDE DEF r
    <3> QED BY <1>0, <1>4, <3>1
  <2>2. CASE x \notin A
    <3>1. A \cup b = (A \cup r) \cup {x} /\ x \notin A \cup r
      BY <2>2
    <3>2. IsFiniteSet(A \cup r) /\ \A y \in (A \cup r) \cup {x} : f[y] \in Int
      BY <1>0, <1>4
    <3>3. SumOver(f, (A \cup r) \cup {x}) = SumOver(f, A \cup r) + f[x]
      <4> HIDE DEF r
      <4> QED BY <3>1, <3>2, SumAdd
    <3>4. SumOver(f, A \cup r) \in Nat /\ f[x] \in Nat
      BY <1>0, <1>4
    <3>5. SumOver(f, A \cup b) = SumOver(f, A \cup r) + f[x]
      BY <3>1, <3>3, Zenon
    <3> QED BY <3>4, <3>5
  <2> QED BY <2>1, <2>2
<1> HIDE DEF r
<1>8. /\ SumOver(f, A) \in Nat /\ SumOver(f, b) \in Nat /\ SumOver(f, r) \in Nat /\ f[x] \in Nat
      /\ SumOver(f, A \cup r) \in Nat /\ SumOver(f, A \cup b) \in Nat
  BY <1>0, <1>3, <1>4
<1>9. SumOver(f, A \cup b) <= SumOver(f, A) + SumOver(f, b)
  BY <1>5, <1>6, <1>7, <1>8
<1> QED BY <1>1, <1>9

\* One term, and two.
LEMMA SumFew ==
  ASSUME NEW f, NEW x, f[x] \in Int
  PROVE  /\ SumOver(f, {x}) = f[x]
         /\ \A y : y # x /\ f[y] \in Int => SumOver(f, {x, y}) = f[x] + f[y]
<1>1. SumOver(f, {} \cup {x}) = SumOver(f, {}) + f[x]
  BY SumAdd, FS_EmptySet
<1>2. SumOver(f, {x}) = f[x]
  <2>1. {} \cup {x} = {x}
    OBVIOUS
  <2> QED BY <1>1, <2>1, SumEmpty
<1>3. ASSUME NEW y, y # x, f[y] \in Int PROVE SumOver(f, {x, y}) = f[x] + f[y]
  <2>1. IsFiniteSet({x}) /\ y \notin {x} /\ \A z \in {x} \cup {y} : f[z] \in Int
    BY <1>3, FS_Singleton
  <2>2. SumOver(f, {x} \cup {y}) = SumOver(f, {x}) + f[y]
    BY <2>1, SumAdd
  <2>3. {x} \cup {y} = {x, y}
    OBVIOUS
  <2> QED BY <1>2, <2>2, <2>3
<1> QED BY <1>2, <1>3

\* Terms that are zero may be left out.
LEMMA SumPad ==
  ASSUME NEW S, IsFiniteSet(S), NEW f, \A x \in S : f[x] \in Int,
         NEW R \in SUBSET S, \A x \in S \ R : f[x] = 0
  PROVE  SumOver(f, S) = SumOver(f, R)
<1> DEFINE Bad == {s \in SUBSET S : R \subseteq s /\ SumOver(f, s) # SumOver(f, R)}
<1> SUFFICES ASSUME Bad # {} PROVE FALSE
  OBVIOUS
<1>1. PICK s \in Bad : \A t \in Bad : t \subseteq s => t = s
  <2>1. Bad \in SUBSET SUBSET S
    OBVIOUS
  <2> HIDE DEF Bad
  <2> QED BY <2>1, LeastSubset
<1>2. PICK x \in s : x \notin R
  OBVIOUS
<1>3. SumOver(f, s \ {x}) = SumOver(f, R)
  BY <1>1, <1>2
<1>4. SumOver(f, s) = f[x] + SumOver(f, s \ {x}) /\ f[x] = 0
  BY <1>2, FS_Subset, SumRemove
<1>5. SumOver(f, R) \in Int
  BY FS_Subset, SumTyped
<1> QED BY <1>3, <1>4, <1>5

\* The difference, term by term.
LEMMA SumMinus ==
  ASSUME NEW S, IsFiniteSet(S), NEW e, NEW f, NEW h,
         \A x \in S : e[x] \in Int /\ f[x] \in Int /\ h[x] = e[x] - f[x]
  PROVE  SumOver(h, S) = SumOver(e, S) - SumOver(f, S)
<1> DEFINE Bad == {s \in SUBSET S : SumOver(h, s) # SumOver(e, s) - SumOver(f, s)}
<1> SUFFICES ASSUME Bad # {} PROVE FALSE
  OBVIOUS
<1>1. PICK s \in Bad : \A t \in Bad : t \subseteq s => t = s
  <2>1. Bad \in SUBSET SUBSET S
    OBVIOUS
  <2> HIDE DEF Bad
  <2> QED BY <2>1, LeastSubset
<1>2. IsFiniteSet(s) /\ s # {}
  <2>1. SumOver(h, {}) = SumOver(e, {}) - SumOver(f, {})
    BY SumEmpty
  <2> QED BY <2>1, FS_Subset
<1> DEFINE x == Pick(s)
           r == s \ {x}
<1>3. x \in s /\ r \subseteq s /\ r # s
  BY <1>2, Picked
<1>4. SumOver(h, r) = SumOver(e, r) - SumOver(f, r)
  BY <1>1, <1>3
<1>5. /\ SumOver(h, s) = h[x] + SumOver(h, r) /\ SumOver(e, s) = e[x] + SumOver(e, r)
      /\ SumOver(f, s) = f[x] + SumOver(f, r)
  BY <1>2, SumStep
<1>6. /\ e[x] \in Int /\ f[x] \in Int /\ h[x] = e[x] - f[x]
      /\ SumOver(e, r) \in Int /\ SumOver(f, r) \in Int
  BY <1>3, FS_Subset, SumTyped
<1>7. SumOver(h, s) = SumOver(e, s) - SumOver(f, s)
  <2> HIDE DEF x, r
  <2> QED BY <1>4, <1>5, <1>6
<1> QED BY <1>1, <1>7

\* A finite set has an element whose number is the largest.
LEMMA Largest ==
  ASSUME NEW S, IsFiniteSet(S), S # {}, NEW f, \A x \in S : f[x] \in Int
  PROVE  \E x \in S : \A y \in S : f[y] <= f[x]
<1> DEFINE Bad == {s \in SUBSET S : s # {} /\ ~\E x \in s : \A y \in s : f[y] <= f[x]}
<1> SUFFICES ASSUME Bad # {} PROVE FALSE
  OBVIOUS
<1>1. PICK s \in Bad : \A t \in Bad : t \subseteq s => t = s
  <2>1. Bad \in SUBSET SUBSET S
    OBVIOUS
  <2> HIDE DEF Bad
  <2> QED BY <2>1, LeastSubset
<1>2. PICK x \in s : TRUE
  OBVIOUS
<1>3. CASE s \ {x} = {}
  <2>1. \A y \in s : f[y] <= f[x]
    BY <1>3
  <2> QED BY <1>2, <2>1
<1>4. CASE s \ {x} # {}
  <2>0. s \ {x} \notin Bad /\ s \ {x} \in SUBSET S
    BY <1>1, <1>2
  <2>1. PICK z \in s \ {x} : \A y \in s \ {x} : f[y] <= f[z]
    BY <1>4, <2>0
  <2>2. f[x] \in Int /\ f[z] \in Int /\ \A y \in s : f[y] \in Int
    OBVIOUS
  <2>3. CASE f[x] <= f[z]
    BY <2>1, <2>3
  <2>4. CASE f[z] <= f[x]
    <3>1. \A y \in s : f[y] <= f[x]
      BY <2>1, <2>2, <2>4
    <3> QED BY <1>2, <3>1
  <2> QED BY <2>2, <2>3, <2>4
<1> QED BY <1>3, <1>4

------------------------------------------------------------------------------
(* Quotients: days, over which the models add, and shares.                 *)

\* A later time falls on no earlier day.
LEMMA DaysPass ==
  ASSUME NEW d \in Nat \ {0}, NEW s \in Nat, NEW t \in Nat, s <= t
  PROVE  s \div d \in Int /\ t \div d \in Int /\ s \div d <= t \div d
<1> DEFINE q == s \div d
           r == t \div d
<1>1. q \in Int /\ r \in Int
  OBVIOUS
<1>2. d * q <= s /\ t < d * (r + 1)
  OBVIOUS
<1> HIDE DEF q, r
<1>3. d * q < d * (r + 1)
  BY <1>1, <1>2
<1>4. q < r + 1
  BY <1>1, <1>3
<1> QED BY <1>1, <1>4 DEF q, r

\* A share of a number is no more than the number.
LEMMA SharePart ==
  ASSUME NEW c \in Nat, NEW k \in Nat, NEW u \in Nat, k < u
  PROVE  (c * k) \div u \in 0..c
<1> DEFINE x == c * k
           r == x \div u
<1>1. x \in Nat /\ x <= c * u /\ u > 0
  OBVIOUS
<1> HIDE DEF x
<1>2. r \in Int /\ u * r <= x /\ x < u * (r + 1)
  BY <1>1
<1> HIDE DEF r
<1>3. u * r <= u * c /\ 0 < u * (r + 1)
  <2>1. c * u = u * c
    OBVIOUS
  <2> QED BY <1>1, <1>2, <2>1
<1>4. r <= c /\ 0 < r + 1
  BY <1>1, <1>2, <1>3
<1> QED BY <1>2, <1>4 DEF r, x
=============================================================================
