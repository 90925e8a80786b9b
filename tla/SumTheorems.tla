---------------------------- MODULE SumTheorems -----------------------------
(***************************************************************************)
(* What SumFunctionOnSet computes, for every finite set of integers: the   *)
(* facts the supply and quorum theorems rest on.  Induction is done with   *)
(* sets in place of predicates: the set of values for which a claim holds  *)
(* is shown to be everything by looking at a least element outside it.     *)
(* The last section applies them to the stake snapshots of FFG.            *)
(***************************************************************************)
EXTENDS FFG, FiniteSets, FiniteSetTheorems, WellFoundedInduction, TLAPS

\* Every non-empty set of naturals has a least element.
LEMMA LeastNatural ==
    ASSUME NEW T, T \subseteq Nat, T # {}
    PROVE  \E n \in T : \A m \in T : n <= m
<1> DEFINE R == {p \in Nat \X Nat : p[1] < p[2]}
<1>1. IsWellFoundedOn(R, Nat)
  BY NatLessThanWellFounded DEF OpToRel
<1>2. PICK n \in T : \A m \in T : ~(<<m, n>> \in R)
  <2> HIDE DEF R
  <2> QED BY <1>1, WFMin
<1>3. ASSUME NEW m \in T PROVE n <= m
  <2>1. m \in Nat /\ n \in Nat /\ ~(<<m, n>> \in R)
    BY <1>2
  <2>2. ~(m < n)
    BY <2>1
  <2> QED BY <2>1, <2>2
<1> QED BY <1>3

\* Strong induction over the subsets of a finite set.
LEMMA SubsetInduction ==
    ASSUME NEW S, IsFiniteSet(S),
           NEW T,
           \A s \in SUBSET S : (\A r \in SUBSET s : r # s => r \in T) => s \in T
    PROVE  \A s \in SUBSET S : s \in T
<1>1. SUFFICES ASSUME \E s \in SUBSET S : s \notin T PROVE FALSE
  OBVIOUS
<1> DEFINE N == {Cardinality(s) : s \in {x \in SUBSET S : x \notin T}}
<1>2. \A s \in SUBSET S : IsFiniteSet(s) /\ Cardinality(s) \in Nat
  BY FS_Subset, FS_CardinalityType
<1>3. N \subseteq Nat /\ N # {}
  BY <1>1, <1>2
<1>4. PICK n \in N : \A m \in N : n <= m
  BY <1>3, LeastNatural
<1>5. PICK s \in SUBSET S : s \notin T /\ Cardinality(s) = n
  BY <1>4
<1>6. ASSUME NEW r \in SUBSET s, r # s PROVE r \in T
  <2>1. IsFiniteSet(s) /\ IsFiniteSet(r) /\ Cardinality(r) \in Nat /\ Cardinality(s) \in Nat
    BY <1>2
  <2>2. Cardinality(r) < Cardinality(s)
    BY <2>1, <1>6, FS_Subset
  <2>3. r \in SUBSET S
    OBVIOUS
  <2>4. r \notin T => Cardinality(r) \in N
    BY <2>3
  <2> QED BY <2>1, <2>2, <2>4, <1>4, <1>5
<1> QED BY <1>5, <1>6

\* Induction over the naturals.
LEMMA NaturalInduction ==
    ASSUME NEW T, 0 \in T, \A n \in Nat : n \in T => n + 1 \in T
    PROVE  \A n \in Nat : n \in T
<1>1. SUFFICES ASSUME \E n \in Nat : n \notin T PROVE FALSE
  OBVIOUS
<1> DEFINE B == {n \in Nat : n \notin T}
<1>2. PICK n \in B : \A m \in B : n <= m
  BY <1>1, LeastNatural
<1>3. n \in Nat /\ n # 0 /\ n - 1 \in Nat /\ n - 1 \notin B
  BY <1>2
<1>4. n - 1 \in T /\ n = (n - 1) + 1
  BY <1>3
<1> QED BY <1>2, <1>3, <1>4

-----------------------------------------------------------------------------
\* One unfolding of the fold that SumFunctionOnSet is.
Pick(s) == CHOOSE x \in s : TRUE
Unfold(f, g, s) == IF s = {} THEN 0 ELSE f[Pick(s)] + g[s \ {Pick(s)}]
Iter(f, S) == CHOOSE g : g = [s \in SUBSET S |-> Unfold(f, g, s)]

LEMMA SumIsIter ==
    ASSUME NEW f, NEW S
    PROVE  SumFunctionOnSet(f, S) = Iter(f, S)[S]
BY DEF SumFunctionOnSet, FoldFunctionOnSet, MapThenFoldSet, Iter, Unfold, Pick

\* Defines(g, f, S): g is the table of partial sums of f over the subsets of S.
Defines(g, f, S) ==
    g \in [SUBSET S -> Int] /\ \A s \in SUBSET S : g[s] = Unfold(f, g, s)

\* The recursion of the fold has a solution.
LEMMA IterExists ==
    ASSUME NEW S, IsFiniteSet(S), NEW f, \A x \in S : f[x] \in Int
    PROVE  \E g : Defines(g, f, S)
<1> DEFINE Sub(n) == {s \in SUBSET S : Cardinality(s) <= n}
           Good(g, n) == /\ g \in [Sub(n) -> Int]
                         /\ \A s \in Sub(n) : g[s] = Unfold(f, g, s)
           T == {n \in Nat : \E g : Good(g, n)}
<1>1. \A s \in SUBSET S : IsFiniteSet(s) /\ Cardinality(s) \in Nat
  BY FS_Subset, FS_CardinalityType
<1>2. \A s \in SUBSET S : s # {} =>
         /\ Pick(s) \in s
         /\ s \ {Pick(s)} \in SUBSET S
         /\ Cardinality(s \ {Pick(s)}) = Cardinality(s) - 1
  BY <1>1, FS_RemoveElement DEF Pick
<1>3. 0 \in T
  <2> DEFINE g == [s \in Sub(0) |-> 0]
  <2>1. \A s \in Sub(0) : s = {}
    BY <1>1, FS_EmptySet
  <2>2. Good(g, 0)
    BY <2>1 DEF Unfold
  <2> QED BY <2>2
<1>4. ASSUME NEW n \in Nat, n \in T PROVE n + 1 \in T
  <2>1. PICK g : Good(g, n)
    BY <1>4
  <2> DEFINE h == [s \in Sub(n + 1) |->
                     IF Cardinality(s) <= n THEN g[s] ELSE Unfold(f, g, s)]
  <2>2. ASSUME NEW s \in Sub(n + 1), s # {}
        PROVE  /\ s \ {Pick(s)} \in Sub(n)
               /\ s \ {Pick(s)} \in Sub(n + 1)
               /\ h[s \ {Pick(s)}] = g[s \ {Pick(s)}]
               /\ g[s \ {Pick(s)}] \in Int
               /\ f[Pick(s)] \in Int
    <3>1. /\ s \ {Pick(s)} \in SUBSET S
          /\ Cardinality(s \ {Pick(s)}) <= n
          /\ Cardinality(s \ {Pick(s)}) <= n + 1
          /\ Pick(s) \in S
      BY <1>1, <1>2, <2>2
    <3> QED BY <3>1, <2>1
  <2>3. {} \in Sub(n) /\ g[{}] = 0
    BY <2>1, FS_EmptySet DEF Unfold
  <2>4. ASSUME NEW s \in Sub(n + 1) PROVE h[s] \in Int /\ h[s] = Unfold(f, h, s)
    <3>1. CASE s = {}
      BY <3>1, <2>3 DEF Unfold
    <3>2. CASE s # {} /\ Cardinality(s) <= n
      <4>1. s \in Sub(n) /\ h[s] = g[s] /\ g[s] \in Int /\ g[s] = Unfold(f, g, s)
        BY <3>2, <2>1
      <4> QED BY <4>1, <3>2, <2>2 DEF Unfold
    <3>3. CASE s # {} /\ ~(Cardinality(s) <= n)
      <4>1. h[s] = f[Pick(s)] + g[s \ {Pick(s)}]
        BY <3>3 DEF Unfold
      <4>2. /\ h[s \ {Pick(s)}] = g[s \ {Pick(s)}]
            /\ g[s \ {Pick(s)}] \in Int
            /\ f[Pick(s)] \in Int
        BY <3>3, <2>2
      <4> HIDE DEF h, Sub
      <4> QED BY <4>1, <4>2, <3>3 DEF Unfold
    <3> QED BY <3>1, <3>2, <3>3
  <2>5. Good(h, n + 1)
    BY <2>4
  <2> HIDE DEF h, Good
  <2> QED BY <2>5
<1>5. Cardinality(S) \in T
  <2> HIDE DEF T
  <2> QED BY <1>1, <1>3, <1>4, NaturalInduction
<1>6. Sub(Cardinality(S)) = SUBSET S
  BY FS_Subset
<1> QED BY <1>5, <1>6 DEF Defines

\* Iter is that solution.
LEMMA IterDefines ==
    ASSUME NEW S, IsFiniteSet(S), NEW f, \A x \in S : f[x] \in Int
    PROVE  Defines(Iter(f, S), f, S)
<1> DEFINE Sol(g) == g = [s \in SUBSET S |-> Unfold(f, g, s)]
<1>1. PICK g : Defines(g, f, S)
  BY IterExists
<1>2. Sol(g)
  BY <1>1 DEF Defines
<1>3. Sol(Iter(f, S))
  BY <1>2 DEF Iter
<1> DEFINE h == Iter(f, S)
           T == {s \in SUBSET S : h[s] \in Int}
<1>4. \A s \in SUBSET S : h[s] = Unfold(f, h, s)
  BY <1>3
<1>5. ASSUME NEW s \in SUBSET S, \A r \in SUBSET s : r # s => r \in T
      PROVE  s \in T
  <2>1. CASE s = {}
    BY <2>1, <1>4 DEF Unfold
  <2>2. CASE s # {}
    <3>1. Pick(s) \in s /\ s \ {Pick(s)} \in SUBSET s /\ s \ {Pick(s)} # s
      BY <2>2 DEF Pick
    <3>2. h[s \ {Pick(s)}] \in Int /\ f[Pick(s)] \in Int
      BY <3>1, <1>5
    <3>3. h[s] = f[Pick(s)] + h[s \ {Pick(s)}]
      BY <1>4, <2>2 DEF Unfold
    <3> QED BY <3>2, <3>3
  <2> QED BY <2>1, <2>2
<1>6. \A s \in SUBSET S : s \in T
  <2> HIDE DEF T
  <2> QED BY <1>5, SubsetInduction
<1>7. \A s \in SUBSET S : h[s] \in Int
  BY <1>6
<1>8. h \in [SUBSET S -> Int]
  <2> HIDE DEF h
  <2>1. h = [s \in SUBSET S |-> Unfold(f, h, s)]
    BY <1>3 DEF h
  <2> QED BY <2>1, <1>4, <1>7
<1> QED BY <1>4, <1>8 DEF Defines

\* The table of a set and the table of a subset agree.
LEMMA TablesAgree ==
    ASSUME NEW S, IsFiniteSet(S), NEW R \in SUBSET S, NEW f, NEW g, NEW h,
           Defines(g, f, S), Defines(h, f, R)
    PROVE  \A s \in SUBSET R : g[s] = h[s]
<1> DEFINE T == {s \in SUBSET R : g[s] = h[s]}
<1>1. ASSUME NEW s \in SUBSET R, \A r \in SUBSET s : r # s => r \in T
      PROVE  s \in T
  <2>1. s \in SUBSET S /\ g[s] = Unfold(f, g, s) /\ h[s] = Unfold(f, h, s)
    BY DEF Defines
  <2>2. s # {} => g[s \ {Pick(s)}] = h[s \ {Pick(s)}]
    BY <1>1 DEF Pick
  <2> QED BY <2>1, <2>2 DEF Unfold
<1>2. IsFiniteSet(R)
  BY FS_Subset
<1>3. \A s \in SUBSET R : s \in T
  <2> HIDE DEF T
  <2> QED BY <1>1, <1>2, SubsetInduction
<1> QED BY <1>3

-----------------------------------------------------------------------------
\* f has integer values on the finite set S.
Summable(f, S) == IsFiniteSet(S) /\ \A x \in S : f[x] \in Int

LEMMA SummableSubset ==
    ASSUME NEW f, NEW S, Summable(f, S), NEW R \in SUBSET S
    PROVE  Summable(f, R)
BY FS_Subset DEF Summable

\* The empty sum, the type of a sum, and its head.
LEMMA SumHead ==
    ASSUME NEW f, NEW S, Summable(f, S)
    PROVE  /\ SumFunctionOnSet(f, S) \in Int
           /\ S = {} => SumFunctionOnSet(f, S) = 0
           /\ S # {} => SumFunctionOnSet(f, S)
                          = f[Pick(S)] + SumFunctionOnSet(f, S \ {Pick(S)})
<1>1. Defines(Iter(f, S), f, S)
  BY IterDefines DEF Summable
<1>2. SumFunctionOnSet(f, S) = Iter(f, S)[S]
  BY SumIsIter
<1>3. Iter(f, S)[S] \in Int /\ Iter(f, S)[S] = Unfold(f, Iter(f, S), S)
  BY <1>1 DEF Defines
<1>4. ASSUME S # {}
      PROVE  Iter(f, S)[S \ {Pick(S)}] = SumFunctionOnSet(f, S \ {Pick(S)})
  <2> DEFINE R == S \ {Pick(S)}
  <2>1. R \in SUBSET S /\ IsFiniteSet(S) /\ Summable(f, R)
    BY SummableSubset DEF Summable
  <2>2. Defines(Iter(f, R), f, R)
    BY <2>1, IterDefines DEF Summable
  <2>3. Iter(f, S)[R] = Iter(f, R)[R]
    BY <1>1, <2>1, <2>2, TablesAgree
  <2> QED BY <2>3, SumIsIter
<1> QED BY <1>2, <1>3, <1>4 DEF Unfold

LEMMA SumEmpty == \A f : SumFunctionOnSet(f, {}) = 0
BY SumHead, FS_EmptySet DEF Summable

LEMMA SumType ==
    ASSUME NEW f, NEW S, Summable(f, S)
    PROVE  SumFunctionOnSet(f, S) \in Int
BY SumHead

\* Any element can be taken out first.
LEMMA SumRemove ==
    ASSUME NEW f, NEW S, Summable(f, S), NEW x \in S
    PROVE  SumFunctionOnSet(f, S) = f[x] + SumFunctionOnSet(f, S \ {x})
<1> DEFINE Sum(s) == SumFunctionOnSet(f, s)
           T == {s \in SUBSET S : \A y \in s : Sum(s) = f[y] + Sum(s \ {y})}
<1>1. ASSUME NEW s \in SUBSET S, \A r \in SUBSET s : r # s => r \in T
      PROVE  s \in T
  <2>1. SUFFICES ASSUME NEW y \in s PROVE Sum(s) = f[y] + Sum(s \ {y})
    OBVIOUS
  <2> DEFINE z == Pick(s)
  <2>2. z \in s
    BY DEF Pick
  <2>3. Summable(f, s) /\ Summable(f, s \ {z}) /\ Summable(f, s \ {y})
                        /\ Summable(f, (s \ {y}) \ {z})
    BY SummableSubset
  <2>4. Sum(s) = f[z] + Sum(s \ {z})
    BY <2>2, <2>3, SumHead
  <2>5. CASE y = z
    BY <2>4, <2>5
  <2>6. CASE y # z
    <3>1. s \ {z} \in SUBSET s /\ s \ {z} # s /\ y \in s \ {z}
      BY <2>2, <2>6
    <3>2. s \ {y} \in SUBSET s /\ s \ {y} # s /\ z \in s \ {y}
      BY <2>2, <2>6
    <3>3. Sum(s \ {z}) = f[y] + Sum((s \ {z}) \ {y})
      BY <3>1, <1>1
    <3>4. Sum(s \ {y}) = f[z] + Sum((s \ {y}) \ {z})
      BY <3>2, <1>1
    <3>5. (s \ {z}) \ {y} = (s \ {y}) \ {z}
      OBVIOUS
    <3>6. /\ f[y] \in Int /\ f[z] \in Int
          /\ Sum((s \ {y}) \ {z}) \in Int
      BY <2>2, <2>3, SumType DEF Summable
    <3>7. Sum(s) = f[z] + (f[y] + Sum((s \ {y}) \ {z}))
      BY <2>4, <3>3, <3>5
    <3>8. f[y] + Sum(s \ {y}) = f[y] + (f[z] + Sum((s \ {y}) \ {z}))
      BY <3>4
    <3> QED BY <3>6, <3>7, <3>8
  <2> QED BY <2>5, <2>6
<1>2. IsFiniteSet(S)
  BY DEF Summable
<1>3. \A s \in SUBSET S : s \in T
  <2> HIDE DEF T
  <2> QED BY <1>1, <1>2, SubsetInduction
<1> QED BY <1>3

\* A sum depends only on the values it adds up.
LEMMA SumCongruent ==
    ASSUME NEW f, NEW g, NEW S, Summable(f, S), \A x \in S : f[x] = g[x]
    PROVE  SumFunctionOnSet(f, S) = SumFunctionOnSet(g, S)
<1> DEFINE T == {s \in SUBSET S : SumFunctionOnSet(f, s) = SumFunctionOnSet(g, s)}
<1>1. ASSUME NEW s \in SUBSET S, \A r \in SUBSET s : r # s => r \in T
      PROVE  s \in T
  <2>1. Summable(f, s) /\ Summable(g, s)
    BY SummableSubset DEF Summable
  <2>2. CASE s = {}
    BY <2>2, SumEmpty
  <2>3. CASE s # {}
    <3>1. PICK x : x \in s
      BY <2>3
    <3>2. s \ {x} \in SUBSET s /\ s \ {x} # s /\ f[x] = g[x]
      BY <3>1
    <3>3. SumFunctionOnSet(f, s \ {x}) = SumFunctionOnSet(g, s \ {x})
      BY <3>2, <1>1
    <3>4. /\ SumFunctionOnSet(f, s) = f[x] + SumFunctionOnSet(f, s \ {x})
          /\ SumFunctionOnSet(g, s) = g[x] + SumFunctionOnSet(g, s \ {x})
      BY <2>1, <3>1, SumRemove
    <3> QED BY <3>2, <3>3, <3>4
  <2> QED BY <2>2, <2>3
<1>2. IsFiniteSet(S)
  BY DEF Summable
<1>3. \A s \in SUBSET S : s \in T
  <2> HIDE DEF T
  <2> QED BY <1>1, <1>2, SubsetInduction
<1> QED BY <1>3

\* Changing one value changes the sum by the difference.
LEMMA SumChangeOne ==
    ASSUME NEW f, NEW g, NEW S, Summable(f, S), Summable(g, S), NEW a \in S,
           \A x \in S \ {a} : g[x] = f[x]
    PROVE  SumFunctionOnSet(g, S) = SumFunctionOnSet(f, S) - f[a] + g[a]
<1> DEFINE R == S \ {a}
<1>1. Summable(f, R) /\ Summable(g, R)
  BY SummableSubset
<1>2. SumFunctionOnSet(f, R) = SumFunctionOnSet(g, R)
  BY <1>1, SumCongruent
<1>3. /\ SumFunctionOnSet(f, S) = f[a] + SumFunctionOnSet(f, R)
      /\ SumFunctionOnSet(g, S) = g[a] + SumFunctionOnSet(g, R)
  BY SumRemove
<1>4. /\ f[a] \in Int /\ g[a] \in Int
      /\ SumFunctionOnSet(f, R) \in Int
  BY <1>1, SumType DEF Summable
<1> QED BY <1>2, <1>3, <1>4

\* Adding pointwise adds the sums.
LEMMA SumAdd ==
    ASSUME NEW f, NEW g, NEW h, NEW S, Summable(f, S), Summable(g, S),
           \A x \in S : h[x] = f[x] + g[x]
    PROVE  SumFunctionOnSet(h, S) = SumFunctionOnSet(f, S) + SumFunctionOnSet(g, S)
<1> DEFINE T == {s \in SUBSET S : SumFunctionOnSet(h, s)
                     = SumFunctionOnSet(f, s) + SumFunctionOnSet(g, s)}
<1>0. Summable(h, S)
  BY DEF Summable
<1>1. ASSUME NEW s \in SUBSET S, \A r \in SUBSET s : r # s => r \in T
      PROVE  s \in T
  <2>1. Summable(f, s) /\ Summable(g, s) /\ Summable(h, s)
    BY <1>0, SummableSubset
  <2>2. CASE s = {}
    BY <2>2, SumEmpty
  <2>3. CASE s # {}
    <3>1. PICK x : x \in s
      BY <2>3
    <3> DEFINE r == s \ {x}
    <3>2. r \in SUBSET s /\ r # s /\ h[x] = f[x] + g[x]
      BY <3>1
    <3>3. SumFunctionOnSet(h, r) = SumFunctionOnSet(f, r) + SumFunctionOnSet(g, r)
      BY <3>2, <1>1
    <3>4. /\ SumFunctionOnSet(f, s) = f[x] + SumFunctionOnSet(f, r)
          /\ SumFunctionOnSet(g, s) = g[x] + SumFunctionOnSet(g, r)
          /\ SumFunctionOnSet(h, s) = h[x] + SumFunctionOnSet(h, r)
      BY <2>1, <3>1, SumRemove
    <3>5. /\ f[x] \in Int /\ g[x] \in Int
          /\ SumFunctionOnSet(f, r) \in Int /\ SumFunctionOnSet(g, r) \in Int
      <4>1. Summable(f, r) /\ Summable(g, r)
        BY <2>1, SummableSubset
      <4> QED BY <4>1, <2>1, <3>1, SumType DEF Summable
    <3> QED BY <3>2, <3>3, <3>4, <3>5
  <2> QED BY <2>2, <2>3
<1>2. IsFiniteSet(S)
  BY DEF Summable
<1>3. \A s \in SUBSET S : s \in T
  <2> HIDE DEF T
  <2> QED BY <1>1, <1>2, SubsetInduction
<1> QED BY <1>3

\* A sum of larger values is larger.
LEMMA SumMonotone ==
    ASSUME NEW f, NEW g, NEW S, Summable(f, S), Summable(g, S),
           \A x \in S : f[x] <= g[x]
    PROVE  SumFunctionOnSet(f, S) <= SumFunctionOnSet(g, S)
<1> DEFINE T == {s \in SUBSET S : SumFunctionOnSet(f, s) <= SumFunctionOnSet(g, s)}
<1>1. ASSUME NEW s \in SUBSET S, \A r \in SUBSET s : r # s => r \in T
      PROVE  s \in T
  <2>1. Summable(f, s) /\ Summable(g, s)
    BY SummableSubset
  <2>2. CASE s = {}
    BY <2>2, SumEmpty
  <2>3. CASE s # {}
    <3>1. PICK x : x \in s
      BY <2>3
    <3> DEFINE r == s \ {x}
    <3>2. r \in SUBSET s /\ r # s /\ f[x] <= g[x]
      BY <3>1
    <3>3. SumFunctionOnSet(f, r) <= SumFunctionOnSet(g, r)
      BY <3>2, <1>1
    <3>4. /\ SumFunctionOnSet(f, s) = f[x] + SumFunctionOnSet(f, r)
          /\ SumFunctionOnSet(g, s) = g[x] + SumFunctionOnSet(g, r)
      BY <2>1, <3>1, SumRemove
    <3>5. /\ f[x] \in Int /\ g[x] \in Int
          /\ SumFunctionOnSet(f, r) \in Int /\ SumFunctionOnSet(g, r) \in Int
      <4>1. Summable(f, r) /\ Summable(g, r)
        BY <2>1, SummableSubset
      <4> QED BY <4>1, <2>1, <3>1, SumType DEF Summable
    <3> QED BY <3>2, <3>3, <3>4, <3>5
  <2> QED BY <2>2, <2>3
<1>2. IsFiniteSet(S)
  BY DEF Summable
<1>3. \A s \in SUBSET S : s \in T
  <2> HIDE DEF T
  <2> QED BY <1>1, <1>2, SubsetInduction
<1> QED BY <1>3

\* A sum of zeros is zero.
LEMMA SumZero ==
    ASSUME NEW f, NEW S, IsFiniteSet(S), \A x \in S : f[x] = 0
    PROVE  SumFunctionOnSet(f, S) = 0
<1>1. Summable(f, S)
  BY DEF Summable
<1>2. SumFunctionOnSet(f, S) = SumFunctionOnSet(f, S) + SumFunctionOnSet(f, S)
  BY <1>1, SumAdd
<1> QED BY <1>1, <1>2, SumType

\* A sum of naturals is a natural.
LEMMA SumNat ==
    ASSUME NEW f, NEW S, IsFiniteSet(S), \A x \in S : f[x] \in Nat
    PROVE  SumFunctionOnSet(f, S) \in Nat
<1> DEFINE z == [x \in S |-> 0]
<1>1. Summable(f, S) /\ Summable(z, S)
  BY DEF Summable
<1>2. SumFunctionOnSet(z, S) = 0
  BY SumZero
<1>3. SumFunctionOnSet(z, S) <= SumFunctionOnSet(f, S)
  BY <1>1, SumMonotone
<1> QED BY <1>1, <1>2, <1>3, SumType

\* The sum over a disjoint union.
LEMMA SumDisjoint ==
    ASSUME NEW f, NEW A, NEW B, Summable(f, A \cup B), A \cap B = {}
    PROVE  SumFunctionOnSet(f, A \cup B)
             = SumFunctionOnSet(f, A) + SumFunctionOnSet(f, B)
<1> DEFINE T == {s \in SUBSET A : SumFunctionOnSet(f, s \cup B)
                     = SumFunctionOnSet(f, s) + SumFunctionOnSet(f, B)}
<1>1. Summable(f, A) /\ Summable(f, B)
  BY SummableSubset
<1>2. ASSUME NEW s \in SUBSET A, \A r \in SUBSET s : r # s => r \in T
      PROVE  s \in T
  <2>1. Summable(f, s) /\ Summable(f, s \cup B)
    BY SummableSubset
  <2>2. CASE s = {}
    <3>1. s \cup B = B
      BY <2>2
    <3> QED BY <2>2, <3>1, <1>1, SumEmpty, SumType
  <2>3. CASE s # {}
    <3>1. PICK x : x \in s
      BY <2>3
    <3> DEFINE r == s \ {x}
    <3>2. r \in SUBSET s /\ r # s /\ (s \cup B) \ {x} = r \cup B
      BY <3>1
    <3>3. SumFunctionOnSet(f, r \cup B) = SumFunctionOnSet(f, r) + SumFunctionOnSet(f, B)
      BY <3>2, <1>2
    <3>4. /\ SumFunctionOnSet(f, s) = f[x] + SumFunctionOnSet(f, r)
          /\ SumFunctionOnSet(f, s \cup B) = f[x] + SumFunctionOnSet(f, r \cup B)
      BY <2>1, <3>1, <3>2, SumRemove
    <3>5. /\ f[x] \in Int /\ SumFunctionOnSet(f, r) \in Int
          /\ SumFunctionOnSet(f, B) \in Int
      <4>1. Summable(f, r)
        BY <2>1, SummableSubset
      <4> QED BY <4>1, <1>1, <2>1, <3>1, SumType DEF Summable
    <3> QED BY <3>3, <3>4, <3>5
  <2> QED BY <2>2, <2>3
<1>3. IsFiniteSet(A)
  BY <1>1 DEF Summable
<1>4. \A s \in SUBSET A : s \in T
  <2> HIDE DEF T
  <2> QED BY <1>2, <1>3, SubsetInduction
<1> QED BY <1>4
-----------------------------------------------------------------------------
(* Stake in a snapshot. *)

Snapshot(d) == IsFiniteSet(DOMAIN d) /\ \A x \in DOMAIN d : d[x] \in Nat

LEMMA StakeOfType ==
    ASSUME NEW d, Snapshot(d), NEW S
    PROVE  StakeOf(d, S) \in Nat
<1>1. IsFiniteSet(S \cap DOMAIN d)
  BY FS_Subset DEF Snapshot
<1> QED BY <1>1, SumNat DEF StakeOf, Snapshot

\* Disjoint sets of validators have their stakes added.
LEMMA StakeOfDisjoint ==
    ASSUME NEW d, Snapshot(d), NEW A, NEW B, A \cap B \cap DOMAIN d = {}
    PROVE  StakeOf(d, A \cup B) = StakeOf(d, A) + StakeOf(d, B)
<1> DEFINE X == A \cap DOMAIN d
           Y == B \cap DOMAIN d
<1>1. (A \cup B) \cap DOMAIN d = X \cup Y /\ X \cap Y = {}
  OBVIOUS
<1>2. Summable(d, X \cup Y)
  <2>1. IsFiniteSet(X \cup Y)
    BY FS_Subset DEF Snapshot
  <2> QED BY <2>1 DEF Snapshot, Summable
<1>3. SumFunctionOnSet(d, X \cup Y) = SumFunctionOnSet(d, X) + SumFunctionOnSet(d, Y)
  BY <1>1, <1>2, SumDisjoint
<1> QED BY <1>1, <1>3 DEF StakeOf

\* More validators have no less stake.
LEMMA StakeOfMonotone ==
    ASSUME NEW d, Snapshot(d), NEW A, NEW B, A \cap DOMAIN d \subseteq B
    PROVE  StakeOf(d, A) <= StakeOf(d, B)
<1>1. StakeOf(d, A \cup (B \ A)) = StakeOf(d, A) + StakeOf(d, B \ A)
  BY StakeOfDisjoint
<1>2. StakeOf(d, A \cup (B \ A)) = StakeOf(d, B)
  <2>1. (A \cup (B \ A)) \cap DOMAIN d = B \cap DOMAIN d
    OBVIOUS
  <2> QED BY <2>1 DEF StakeOf
<1> QED BY <1>1, <1>2, StakeOfType

\* Two thirds of what the unslashed hold, with the slashed, are two thirds of
\* the whole snapshot.
LEMMA QuorumBacks ==
    ASSUME NEW d, Snapshot(d), NEW voters, NEW byz, Quorum(d, voters, byz)
    PROVE  FFG_DEN * StakeOf(d, voters \cup byz) >= FFG_NUM * StakeOf(d, DOMAIN d)
<1> DEFINE voted == StakeOf(d, voters \ byz)
           total == StakeOf(d, DOMAIN d \ byz)
           burnt == StakeOf(d, byz)
<1>1. voted \in Nat /\ total \in Nat /\ burnt \in Nat
  BY StakeOfType
<1>2. 3 * voted >= 2 * total
  BY DEF Quorum, FFG_DEN, FFG_NUM
<1>3. StakeOf(d, (voters \ byz) \cup byz) = voted + burnt
  BY StakeOfDisjoint
<1>4. StakeOf(d, (DOMAIN d \ byz) \cup byz) = total + burnt
  BY StakeOfDisjoint
<1>5. StakeOf(d, (voters \ byz) \cup byz) = StakeOf(d, voters \cup byz)
  <2>1. (voters \ byz) \cup byz = voters \cup byz
    OBVIOUS
  <2> QED BY <2>1
<1>6. StakeOf(d, (DOMAIN d \ byz) \cup byz) = StakeOf(d, DOMAIN d)
  <2>1. ((DOMAIN d \ byz) \cup byz) \cap DOMAIN d = DOMAIN d \cap DOMAIN d
    OBVIOUS
  <2> QED BY <2>1 DEF StakeOf
<1> HIDE DEF voted, total, burnt
<1> QED BY <1>1, <1>2, <1>3, <1>4, <1>5, <1>6 DEF FFG_DEN, FFG_NUM

\* A validator that is no key of the snapshot counts as zero.
LEMMA StakeOfGet ==
    ASSUME NEW d, Snapshot(d), NEW A, IsFiniteSet(A), NEW g, \A x \in A : g[x] = Get(d, x)
    PROVE  Summable(g, A) /\ StakeOf(d, A) = SumFunctionOnSet(g, A)
<1> DEFINE X == A \cap DOMAIN d
           Y == A \ DOMAIN d
<1>1. X \cup Y = A /\ X \cap Y = {} /\ X \in SUBSET A /\ Y \in SUBSET A
  OBVIOUS
<1>2. \A x \in A : g[x] \in Nat
  BY DEF Get, Snapshot
<1>3. Summable(g, A) /\ Summable(g, X) /\ IsFiniteSet(Y)
  <2>1. Summable(g, A)
    BY <1>2 DEF Summable
  <2> QED BY <1>1, <2>1, SummableSubset, FS_Subset
<1>4. SumFunctionOnSet(g, X \cup Y) = SumFunctionOnSet(g, X) + SumFunctionOnSet(g, Y)
  <2>1. Summable(g, X \cup Y)
    BY <1>1, <1>3, Zenon
  <2> HIDE DEF X, Y
  <2> QED BY <1>1, <2>1, SumDisjoint
<1>5. SumFunctionOnSet(g, Y) = 0
  <2>1. \A x \in Y : g[x] = 0
    BY DEF Get
  <2> HIDE DEF Y
  <2> QED BY <1>3, <2>1, SumZero
<1>6. SumFunctionOnSet(g, X) = SumFunctionOnSet(d, X)
  <2>1. \A x \in X : g[x] = d[x]
    BY DEF Get
  <2> HIDE DEF X
  <2> QED BY <1>3, <2>1, SumCongruent
<1>7. SumFunctionOnSet(g, X \cup Y) = SumFunctionOnSet(g, A)
  BY <1>1, Zenon
<1>8. SumFunctionOnSet(g, X) \in Int /\ StakeOf(d, A) = SumFunctionOnSet(d, X)
  BY <1>3, SumType DEF StakeOf
<1> HIDE DEF X, Y
<1> QED BY <1>3, <1>4, <1>5, <1>6, <1>7, <1>8

\* Snapshots that are close for every validator of A are close on A.
LEMMA StakeOfBound ==
    ASSUME NEW d, Snapshot(d), NEW e, Snapshot(e), NEW k, Snapshot(k), NEW A, IsFiniteSet(A),
           \A x \in A : Get(d, x) <= Get(e, x) + Get(k, x)
    PROVE  StakeOf(d, A) <= StakeOf(e, A) + StakeOf(k, A)
<1> DEFINE fd == [x \in A |-> Get(d, x)]
           fe == [x \in A |-> Get(e, x)]
           fk == [x \in A |-> Get(k, x)]
           fs == [x \in A |-> Get(e, x) + Get(k, x)]
<1>1. /\ Summable(fd, A) /\ StakeOf(d, A) = SumFunctionOnSet(fd, A)
      /\ Summable(fe, A) /\ StakeOf(e, A) = SumFunctionOnSet(fe, A)
      /\ Summable(fk, A) /\ StakeOf(k, A) = SumFunctionOnSet(fk, A)
  <2>1. /\ \A x \in A : fd[x] = Get(d, x)
        /\ \A x \in A : fe[x] = Get(e, x)
        /\ \A x \in A : fk[x] = Get(k, x)
    OBVIOUS
  <2> HIDE DEF fd, fe, fk
  <2> QED BY <2>1, StakeOfGet
<1>2. \A x \in A : fs[x] = fe[x] + fk[x] /\ fd[x] <= fs[x]
  OBVIOUS
<1> HIDE DEF fd, fe, fk, fs
<1>3. SumFunctionOnSet(fs, A) = SumFunctionOnSet(fe, A) + SumFunctionOnSet(fk, A)
  BY <1>1, <1>2, SumAdd
<1>4. Summable(fs, A)
  BY <1>1, <1>2 DEF Summable
<1>5. SumFunctionOnSet(fd, A) <= SumFunctionOnSet(fs, A)
  BY <1>1, <1>2, <1>4, SumMonotone
<1> QED BY <1>1, <1>3, <1>5
=============================================================================
