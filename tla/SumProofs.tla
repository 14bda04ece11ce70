----------------------------- MODULE SumProofs -----------------------------
(***************************************************************************)
(* Sums over a finite set.  SumFunction is a CHOOSE of a function that     *)
(* satisfies a recursive equation.  That such a function exists, that two  *)
(* agree, and what the sum is when one summand changes all follow from a   *)
(* minimal subset on which they would fail: the strict subsets of a finite *)
(* set are a well-founded ordering.                                        *)
(***************************************************************************)
EXTENDS Integers, Functions, Folds, FiniteSetTheorems, WellFoundedInduction, TLAPS

\* The element that the fold takes out of a set first.
Picked(s) == CHOOSE x \in s : TRUE

\* g is the sum of f over each subset of S.
Unfolds(g, f, S) ==
    g = [s \in SUBSET S |-> IF s = {} THEN 0 ELSE f[Picked(s)] + g[s \ {Picked(s)}]]

Total(f, S) == (CHOOSE g : Unfolds(g, f, S))[S]

\* The operator of the Functions module is that sum over the whole domain.
LEMMA SumIsTotal ==
    ASSUME NEW f
    PROVE  SumFunction(f) = Total(f, DOMAIN f)
  BY DEF SumFunction, SumFunctionOnSet, FoldFunctionOnSet, MapThenFoldSet, Unfolds, Picked,
         Total

\* A property of some subset of a finite set holds of a minimal one.
LEMMA MinimalSubset ==
    ASSUME NEW S, IsFiniteSet(S), NEW Bad \in SUBSET (SUBSET S), Bad # {}
    PROVE  \E T \in Bad : \A U \in SUBSET T : U # T => U \notin Bad
<1>1. IsWellFoundedOn(StrictSubsetOrdering(S), FiniteSubsetsOf(S))
  BY FS_StrictSubsetOrderingWellFounded
<1>2. FiniteSubsetsOf(S) = SUBSET S
  BY FS_FiniteSubsetsOfFinite
<1>3. \E T \in Bad : \A U \in Bad : <<U, T>> \notin StrictSubsetOrdering(S)
  BY <1>1, <1>2, WFMin
<1>4. \A U, T \in SUBSET S : (U \subseteq T /\ U # T) => <<U, T>> \in StrictSubsetOrdering(S)
  BY DEF StrictSubsetOrdering
<1>5. QED
  BY <1>3, <1>4

\* Only the empty set has nothing to pick.
LEMMA PickedIn == \A s : s # {} => Picked(s) \in s
  BY DEF Picked

\* Two unfoldings agree where both are defined.
LEMMA UnfoldingsAgree ==
    ASSUME NEW f, NEW S, IsFiniteSet(S), NEW T \in SUBSET S,
           NEW g, Unfolds(g, f, S), NEW h, Unfolds(h, f, T)
    PROVE  \A s \in SUBSET T : g[s] = h[s]
<1> DEFINE Bad == {s \in SUBSET T : g[s] # h[s]}
<1>1. IsFiniteSet(T)
  BY FS_Subset
<1>2. SUFFICES ASSUME Bad # {} PROVE FALSE
  OBVIOUS
<1>3. PICK m \in Bad : \A U \in SUBSET m : U # m => U \notin Bad
  <2>1. Bad \in SUBSET (SUBSET T)
    OBVIOUS
  <2> HIDE DEF Bad
  <2>2. QED
    BY <1>1, <1>2, <2>1, MinimalSubset
<1>4. CASE m = {}
  BY <1>3, <1>4 DEF Unfolds
<1>5. CASE m # {}
  <2> DEFINE rest == m \ {Picked(m)}
  <2>1. rest \in SUBSET m /\ rest # m /\ rest \in SUBSET T /\ m \in SUBSET T
    BY <1>3, <1>5, PickedIn
  <2>2. g[rest] = h[rest]
    BY <1>3, <2>1
  <2>3. /\ g[m] = f[Picked(m)] + g[rest]
        /\ h[m] = f[Picked(m)] + h[rest]
    BY <1>5, <2>1 DEF Unfolds
  <2>4. QED
    BY <1>3, <2>2, <2>3
<1>6. QED
  BY <1>4, <1>5

\* On a finite set there is one.
LEMMA UnfoldingExists ==
    ASSUME NEW f, NEW S, IsFiniteSet(S)
    PROVE  \E g : Unfolds(g, f, S)
<1> DEFINE Bad == {s \in SUBSET S : ~ \E g : Unfolds(g, f, s)}
<1>1. SUFFICES ASSUME Bad # {} PROVE FALSE
  OBVIOUS
<1>2. PICK m \in Bad : \A U \in SUBSET m : U # m => U \notin Bad
  <2>1. Bad \in SUBSET (SUBSET S)
    OBVIOUS
  <2> HIDE DEF Bad
  <2>2. QED
    BY <1>1, <2>1, MinimalSubset
<1> DEFINE G(U) == CHOOSE g : Unfolds(g, f, U)
           rest(s) == s \ {Picked(s)}
           h == [s \in SUBSET m |-> IF s = {} THEN 0 ELSE f[Picked(s)] + G(rest(s))[rest(s)]]
<1>3. IsFiniteSet(m) /\ m \in SUBSET S
  BY <1>2, FS_Subset
<1>4. \A s \in SUBSET m : s # {} => rest(s) \in SUBSET m /\ rest(s) # m /\ rest(s) \in SUBSET s
                                    /\ rest(s) # s
  BY PickedIn
<1>5. \A U \in SUBSET m : U # m => Unfolds(G(U), f, U)
  BY <1>2, <1>3
<1> HIDE DEF G
<1>6. \A U \in SUBSET m : U # m => h[U] = G(U)[U]
  <2> SUFFICES ASSUME NEW U \in SUBSET m, U # m PROVE h[U] = G(U)[U]
    OBVIOUS
  <2>1. Unfolds(G(U), f, U)
    BY <1>5
  <2>2. CASE U = {}
    BY <2>1, <2>2 DEF Unfolds
  <2>3. CASE U # {}
    <3>1. /\ rest(U) \in SUBSET m /\ rest(U) # m /\ rest(U) \in SUBSET U
      BY <1>4, <2>3
    <3>2. Unfolds(G(rest(U)), f, rest(U))
      BY <1>5, <3>1
    <3>3. IsFiniteSet(U)
      BY <1>3, FS_Subset
    <3>4. G(U)[rest(U)] = G(rest(U))[rest(U)]
      BY <2>1, <3>1, <3>2, <3>3, UnfoldingsAgree
    <3>5. G(U)[U] = f[Picked(U)] + G(U)[rest(U)]
      BY <2>1, <2>3 DEF Unfolds
    <3>6. QED
      BY <2>3, <3>4, <3>5
  <2>4. QED
    BY <2>2, <2>3
<1>7. \A s \in SUBSET m : h[s] = IF s = {} THEN 0 ELSE f[Picked(s)] + h[rest(s)]
  BY <1>4, <1>6
<1>8. h = [s \in SUBSET m |-> IF s = {} THEN 0 ELSE f[Picked(s)] + h[s \ {Picked(s)}]]
  <2>1. h = [s \in SUBSET m |-> h[s]]
    OBVIOUS
  <2> HIDE DEF h
  <2>2. QED
    BY <1>7, <2>1
<1>9. Unfolds(h, f, m)
  BY <1>8 DEF Unfolds
<1>10. QED
  BY <1>2, <1>9

\* The sum satisfies its recursive equation.
LEMMA TotalUnfolds ==
    ASSUME NEW f, NEW S, IsFiniteSet(S)
    PROVE  /\ S = {} => Total(f, S) = 0
           /\ S # {} => Total(f, S) = f[Picked(S)] + Total(f, S \ {Picked(S)})
<1> DEFINE G(U) == CHOOSE g : Unfolds(g, f, U)
           rest == S \ {Picked(S)}
<1>1. Unfolds(G(S), f, S)
  BY UnfoldingExists
<1>2. IsFiniteSet(rest) /\ rest \in SUBSET S
  BY FS_Subset
<1>3. Unfolds(G(rest), f, rest)
  BY <1>2, UnfoldingExists
<1> HIDE DEF G
<1>4. G(S)[rest] = G(rest)[rest]
  BY <1>1, <1>2, <1>3, UnfoldingsAgree
<1>5. /\ S = {} => G(S)[S] = 0
      /\ S # {} => G(S)[S] = f[Picked(S)] + G(S)[rest]
  BY <1>1 DEF Unfolds
<1>6. Total(f, S) = G(S)[S] /\ Total(f, rest) = G(rest)[rest]
  BY DEF Total, G
<1>7. QED
  BY <1>4, <1>5, <1>6

\* A sum of integers is an integer, of natural numbers a natural number.
LEMMA TotalType ==
    ASSUME NEW f, NEW S, IsFiniteSet(S)
    PROVE  /\ (\A x \in S : f[x] \in Int) => Total(f, S) \in Int
           /\ (\A x \in S : f[x] \in Nat) => Total(f, S) \in Nat
<1>1. ASSUME NEW Numbers, 0 \in Numbers, \A i, j \in Numbers : i + j \in Numbers,
             \A x \in S : f[x] \in Numbers
      PROVE  Total(f, S) \in Numbers
  <2> DEFINE Bad == {s \in SUBSET S : Total(f, s) \notin Numbers}
  <2>1. SUFFICES ASSUME Bad # {} PROVE FALSE
    OBVIOUS
  <2>2. PICK m \in Bad : \A U \in SUBSET m : U # m => U \notin Bad
    <3>1. Bad \in SUBSET (SUBSET S)
      OBVIOUS
    <3> HIDE DEF Bad
    <3>2. QED
      BY <2>1, <3>1, MinimalSubset
  <2> DEFINE rest == m \ {Picked(m)}
  <2>3. m \in SUBSET S /\ IsFiniteSet(m) /\ Total(f, m) \notin Numbers
    BY <2>2, FS_Subset
  <2>4. m # {}
    BY <1>1, <2>3, TotalUnfolds
  <2>5. Picked(m) \in m /\ rest \in SUBSET m /\ rest # m
    BY <2>4, PickedIn
  <2>6. Total(f, rest) \in Numbers /\ f[Picked(m)] \in Numbers
    BY <1>1, <2>2, <2>3, <2>5
  <2>7. Total(f, m) = f[Picked(m)] + Total(f, rest)
    BY <2>3, <2>4, TotalUnfolds
  <2>8. QED
    BY <1>1, <2>3, <2>6, <2>7
<1>2. /\ 0 \in Int /\ \A i, j \in Int : i + j \in Int
      /\ 0 \in Nat /\ \A i, j \in Nat : i + j \in Nat
  OBVIOUS
<1>3. QED
  BY <1>1, <1>2, Zenon

\* Any element may be taken out first.
LEMMA TotalWithout ==
    ASSUME NEW f, NEW S, IsFiniteSet(S), NEW x \in S, \A y \in S : f[y] \in Int
    PROVE  Total(f, S) = f[x] + Total(f, S \ {x})
<1> DEFINE Bad == {s \in SUBSET S : \E y \in s : Total(f, s) # f[y] + Total(f, s \ {y})}
<1>1. SUFFICES ASSUME Bad # {} PROVE FALSE
  OBVIOUS
<1>2. PICK m \in Bad : \A U \in SUBSET m : U # m => U \notin Bad
  <2>1. Bad \in SUBSET (SUBSET S)
    OBVIOUS
  <2> HIDE DEF Bad
  <2>2. QED
    BY <1>1, <2>1, MinimalSubset
<1>3. PICK y \in m : Total(f, m) # f[y] + Total(f, m \ {y})
  BY <1>2
<1> DEFINE p == Picked(m)
<1>4. m \in SUBSET S /\ IsFiniteSet(m) /\ p \in m
  BY <1>2, <1>3, FS_Subset, PickedIn
<1>5. Total(f, m) = f[p] + Total(f, m \ {p})
  BY <1>3, <1>4, TotalUnfolds
<1>6. y # p
  BY <1>3, <1>5
<1> HIDE DEF p
<1>7. /\ m \ {p} \in SUBSET m /\ m \ {p} # m /\ y \in m \ {p}
      /\ m \ {y} \in SUBSET m /\ m \ {y} # m /\ p \in m \ {y}
  BY <1>3, <1>4, <1>6
<1>8. /\ Total(f, m \ {p}) = f[y] + Total(f, (m \ {p}) \ {y})
      /\ Total(f, m \ {y}) = f[p] + Total(f, (m \ {y}) \ {p})
  BY <1>2, <1>4, <1>7
<1>9. (m \ {p}) \ {y} = (m \ {y}) \ {p}
  OBVIOUS
<1> DEFINE rest == (m \ {y}) \ {p}
<1>10. Total(f, rest) \in Int /\ f[p] \in Int /\ f[y] \in Int
  <2>1. IsFiniteSet(rest) /\ rest \in SUBSET S
    BY <1>4, FS_Subset
  <2>2. QED
    BY <1>3, <1>4, <2>1, TotalType
<1>11. /\ Total(f, m) = f[p] + (f[y] + Total(f, rest))
       /\ Total(f, m \ {y}) = f[p] + Total(f, rest)
  BY <1>5, <1>8, <1>9
<1> HIDE DEF rest
<1>12. Total(f, m) = f[y] + Total(f, m \ {y})
  BY <1>10, <1>11
<1>13. QED
  BY <1>3, <1>12

\* Only the values on the set matter.
LEMMA TotalDepends ==
    ASSUME NEW f, NEW g, NEW S, IsFiniteSet(S), \A x \in S : f[x] = g[x]
    PROVE  Total(f, S) = Total(g, S)
<1> DEFINE Bad == {s \in SUBSET S : Total(f, s) # Total(g, s)}
<1>1. SUFFICES ASSUME Bad # {} PROVE FALSE
  OBVIOUS
<1>2. PICK m \in Bad : \A U \in SUBSET m : U # m => U \notin Bad
  <2>1. Bad \in SUBSET (SUBSET S)
    OBVIOUS
  <2> HIDE DEF Bad
  <2>2. QED
    BY <1>1, <2>1, MinimalSubset
<1>3. m \in SUBSET S /\ IsFiniteSet(m) /\ Total(f, m) # Total(g, m)
  BY <1>2, FS_Subset
<1>4. m # {}
  BY <1>3, TotalUnfolds
<1>5. Picked(m) \in m /\ m \ {Picked(m)} \in SUBSET m /\ m \ {Picked(m)} # m
  BY <1>4, PickedIn
<1>6. Total(f, m \ {Picked(m)}) = Total(g, m \ {Picked(m)}) /\ f[Picked(m)] = g[Picked(m)]
  BY <1>2, <1>3, <1>5
<1>7. QED
  BY <1>3, <1>4, <1>6, TotalUnfolds

\* The sum over two disjoint sets.
LEMMA TotalUnion ==
    ASSUME NEW f, NEW A, NEW B, IsFiniteSet(A), IsFiniteSet(B), A \cap B = {},
           \A x \in A \cup B : f[x] \in Int
    PROVE  Total(f, A \cup B) = Total(f, A) + Total(f, B)
<1> DEFINE Bad == {s \in SUBSET A : Total(f, s \cup B) # Total(f, s) + Total(f, B)}
<1>1. SUFFICES ASSUME Bad # {} PROVE FALSE
  OBVIOUS
<1>2. PICK m \in Bad : \A U \in SUBSET m : U # m => U \notin Bad
  <2>1. Bad \in SUBSET (SUBSET A)
    OBVIOUS
  <2> HIDE DEF Bad
  <2>2. QED
    BY <1>1, <2>1, MinimalSubset
<1>3. m \in SUBSET A /\ IsFiniteSet(m) /\ Total(f, m \cup B) # Total(f, m) + Total(f, B)
  BY <1>2, FS_Subset
<1>4. IsFiniteSet(m \cup B) /\ Total(f, B) \in Int
  BY <1>3, FS_Union, TotalType
<1>5. m # {}
  <2>1. SUFFICES ASSUME m = {} PROVE Total(f, m \cup B) = Total(f, m) + Total(f, B)
    BY <1>3
  <2>2. Total(f, m) = 0
    BY <1>3, <2>1, TotalUnfolds
  <2>3. m \cup B = B
    BY <2>1
  <2>4. Total(f, m \cup B) = Total(f, B)
    BY <2>3, Zenon
  <2>5. QED
    BY <1>4, <2>2, <2>4
<1> DEFINE p == Picked(m)
           rest == m \ {p}
<1>6. p \in m /\ rest \in SUBSET m /\ rest # m
  BY <1>5, PickedIn
<1> HIDE DEF p
<1>7. Total(f, rest \cup B) = Total(f, rest) + Total(f, B)
  BY <1>2, <1>3, <1>6
<1>8. Total(f, m) = f[p] + Total(f, rest)
  BY <1>3, <1>6, TotalWithout
<1>9. Total(f, m \cup B) = f[p] + Total(f, (m \cup B) \ {p})
  BY <1>3, <1>4, <1>6, TotalWithout
<1>10. (m \cup B) \ {p} = rest \cup B
  BY <1>3, <1>6
<1>11. f[p] \in Int /\ Total(f, rest) \in Int
  <2>1. IsFiniteSet(rest)
    BY <1>3, <1>6, FS_Subset
  <2>2. QED
    BY <1>3, <1>6, <2>1, TotalType
<1>12. Total(f, m \cup B) = f[p] + (Total(f, rest) + Total(f, B))
  BY <1>7, <1>9, <1>10
<1> HIDE DEF rest
<1>13. Total(f, m \cup B) = Total(f, m) + Total(f, B)
  BY <1>4, <1>8, <1>11, <1>12
<1>14. QED
  BY <1>3, <1>13

\* A larger set has a larger sum of natural numbers.
LEMMA TotalMonotone ==
    ASSUME NEW f, NEW A, NEW B, IsFiniteSet(B), A \subseteq B, \A x \in B : f[x] \in Nat
    PROVE  Total(f, A) <= Total(f, B)
<1>1. /\ IsFiniteSet(A) /\ IsFiniteSet(B \ A) /\ A \cap (B \ A) = {}
      /\ A \cup (B \ A) = B
  BY FS_Subset
<1>2. Total(f, B) = Total(f, A) + Total(f, B \ A)
  <2>1. \A x \in A \cup (B \ A) : f[x] \in Int
    OBVIOUS
  <2>2. QED
    BY <1>1, <2>1, TotalUnion
<1>3. Total(f, A) \in Nat /\ Total(f, B \ A) \in Nat
  BY <1>1, TotalType
<1>4. QED
  BY <1>2, <1>3

\* What two sets cover sums up to no more than their two sums.
LEMMA TotalCover ==
    ASSUME NEW f, NEW A, NEW B, IsFiniteSet(A), IsFiniteSet(B),
           NEW C, C \subseteq A \cup B, \A x \in A \cup B : f[x] \in Nat
    PROVE  Total(f, C) <= Total(f, A) + Total(f, B)
<1>1. /\ IsFiniteSet(A \cup B) /\ IsFiniteSet(B \ A) /\ IsFiniteSet(C)
      /\ A \cap (B \ A) = {} /\ A \cup (B \ A) = A \cup B
  BY FS_Subset, FS_Union
<1>2. Total(f, A \cup B) = Total(f, A) + Total(f, B \ A)
  <2>1. \A x \in A \cup (B \ A) : f[x] \in Int
    OBVIOUS
  <2>2. QED
    BY <1>1, <2>1, TotalUnion
<1>3. Total(f, C) <= Total(f, A \cup B) /\ Total(f, B \ A) <= Total(f, B)
  BY <1>1, TotalMonotone
<1>4. /\ Total(f, A) \in Nat /\ Total(f, B) \in Nat /\ Total(f, B \ A) \in Nat
      /\ Total(f, C) \in Nat /\ Total(f, A \cup B) \in Nat
  BY <1>1, TotalType
<1>5. QED
  BY <1>2, <1>3, <1>4

\* A sum of zeros.
LEMMA TotalOfZeros ==
    ASSUME NEW f, NEW S, IsFiniteSet(S), \A x \in S : f[x] = 0
    PROVE  Total(f, S) = 0
<1> DEFINE Bad == {s \in SUBSET S : Total(f, s) # 0}
<1>1. SUFFICES ASSUME Bad # {} PROVE FALSE
  OBVIOUS
<1>2. PICK m \in Bad : \A U \in SUBSET m : U # m => U \notin Bad
  <2>1. Bad \in SUBSET (SUBSET S)
    OBVIOUS
  <2> HIDE DEF Bad
  <2>2. QED
    BY <1>1, <2>1, MinimalSubset
<1>3. m \in SUBSET S /\ IsFiniteSet(m) /\ Total(f, m) # 0
  BY <1>2, FS_Subset
<1>4. m # {}
  BY <1>3, TotalUnfolds
<1>5. Picked(m) \in m /\ m \ {Picked(m)} \in SUBSET m /\ m \ {Picked(m)} # m
  BY <1>4, PickedIn
<1>6. Total(f, m \ {Picked(m)}) = 0 /\ f[Picked(m)] = 0
  BY <1>2, <1>3, <1>5
<1>7. QED
  BY <1>3, <1>4, <1>6, TotalUnfolds

\* One summand grows by one.
LEMMA TotalCounts ==
    ASSUME NEW f, NEW g, NEW S, IsFiniteSet(S), NEW x \in S, \A y \in S : f[y] \in Nat,
           g[x] = f[x] + 1, \A y \in S \ {x} : g[y] = f[y]
    PROVE  Total(g, S) = Total(f, S) + 1
<1>1. IsFiniteSet(S \ {x})
  BY FS_Subset
<1>2. \A y \in S : f[y] \in Int /\ g[y] \in Int
  OBVIOUS
<1>3. /\ Total(f, S) = f[x] + Total(f, S \ {x})
      /\ Total(g, S) = g[x] + Total(g, S \ {x})
  BY <1>2, TotalWithout
<1>4. Total(f, S \ {x}) = Total(g, S \ {x})
  BY <1>1, TotalDepends
<1>5. Total(f, S \ {x}) \in Nat
  BY <1>1, TotalType
<1>6. QED
  BY <1>3, <1>4, <1>5

-----------------------------------------------------------------------------
(***************************************************************************)
(* What the proofs use of SumFunction.                                     *)
(***************************************************************************)
LEMMA SumType ==
    ASSUME NEW S, IsFiniteSet(S), NEW f \in [S -> Nat]
    PROVE  SumFunction(f) \in Nat
  BY SumIsTotal, TotalType

\* One summand changes.
LEMMA SumChange ==
    ASSUME NEW S, IsFiniteSet(S), NEW f \in [S -> Nat], NEW g \in [S -> Nat], NEW x \in S,
           \A y \in S \ {x} : g[y] = f[y]
    PROVE  SumFunction(g) - g[x] = SumFunction(f) - f[x]
<1>1. /\ SumFunction(f) = Total(f, S) /\ SumFunction(g) = Total(g, S)
  BY SumIsTotal
<1>2. IsFiniteSet(S \ {x})
  BY FS_Subset
<1>3. /\ Total(f, S) = f[x] + Total(f, S \ {x})
      /\ Total(g, S) = g[x] + Total(g, S \ {x})
  BY TotalWithout
<1>4. Total(f, S \ {x}) = Total(g, S \ {x})
  BY <1>2, TotalDepends
<1>5. Total(f, S \ {x}) \in Nat
  BY <1>2, TotalType
<1>6. QED
  BY <1>1, <1>3, <1>4, <1>5

LEMMA SumOfZeros ==
    ASSUME NEW S, IsFiniteSet(S)
    PROVE  SumFunction([x \in S |-> 0]) = 0
  BY SumIsTotal, TotalOfZeros

=============================================================================
