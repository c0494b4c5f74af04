------------------------------- MODULE FiniteSums -------------------------------
(***************************************************************************)
(* What is proved about SumFunctionOnSet, the sum of f[x] over the x of a  *)
(* finite set.  The induction theorems of the library are about operators, *)
(* which the provers here cannot instantiate; the proofs below argue with  *)
(* a smallest set that is a counterexample, which strict inclusion being   *)
(* well-founded provides.                                                  *)
(***************************************************************************)
EXTENDS Integers, FiniteSets, Functions, FiniteSetTheorems, TLAPS

-----------------------------------------------------------------------------
\* Every nonempty collection of finite sets has one that includes no other.
LEMMA SmallestSet ==
  ASSUME NEW S, IsFiniteSet(S), NEW C, C \subseteq SUBSET S, C # {}
  PROVE  \E s \in C : \A t \in C : t \subseteq s => t = s
  <1>1. C \subseteq FiniteSubsetsOf(S)
    BY FS_Subset DEF FiniteSubsetsOf
  <1>2. PICK s \in C : \A t \in C : ~(<<t, s>> \in StrictSubsetOrdering(S))
    <2>1. IsWellFoundedOn(StrictSubsetOrdering(S), FiniteSubsetsOf(S))
      BY FS_StrictSubsetOrderingWellFounded
    <2>2. QED BY <1>1, <2>1, WFMin
  <1>3. \A t \in C : t \subseteq s => t = s
    <2> SUFFICES ASSUME NEW t \in C, t \subseteq s, t # s
                 PROVE  <<t, s>> \in StrictSubsetOrdering(S)
      BY <1>2
    <2>1. t \in SUBSET S /\ s \in SUBSET S
      OBVIOUS
    <2>2. QED BY <2>1 DEF StrictSubsetOrdering
  <1>4. QED BY <1>3

-----------------------------------------------------------------------------
\* The sum is the value of a recursive function, which exists.

First(s) == CHOOSE x \in s : TRUE
Rest(s) == s \ {First(s)}

\* The equation of the fold that SumFunctionOnSet is.
SumEquation(f, S, iter) ==
  iter = [s \in SUBSET S |-> IF s = {} THEN 0 ELSE f[First(s)] + iter[Rest(s)]]

LEMMA FirstIsIn == \A s : s # {} => First(s) \in s
  BY DEF First

LEMMA SumIsFold ==
  ASSUME NEW f, NEW S
  PROVE  SumFunctionOnSet(f, S) = (CHOOSE iter : SumEquation(f, S, iter))[S]
  BY DEF SumFunctionOnSet, FoldFunctionOnSet, MapThenFoldSet, SumEquation, First, Rest

LEMMA SumEquationAt ==
  ASSUME NEW f, NEW S, NEW g, SumEquation(f, S, g), NEW s \in SUBSET S
  PROVE  g[s] = IF s = {} THEN 0 ELSE f[First(s)] + g[Rest(s)]
  BY Zenon DEF SumEquation

\* Two solutions, over whatever sets, agree where both are defined.
LEMMA SolutionsAgree ==
  ASSUME NEW f, NEW S, NEW T, NEW g, NEW h, IsFiniteSet(S),
         SumEquation(f, S, g), SumEquation(f, T, h), NEW U \in SUBSET (S \cap T)
  PROVE  g[U] = h[U]
  <1> DEFINE C == {s \in SUBSET (S \cap T) : g[s] # h[s]}
  <1> SUFFICES ASSUME C # {} PROVE FALSE
    OBVIOUS
  <1>1. C \subseteq SUBSET S
    OBVIOUS
  <1>2. \E s \in C : \A t \in C : t \subseteq s => t = s
    <2> HIDE DEF C
    <2>1. QED BY <1>1, SmallestSet
  <1> PICK s \in C : \A t \in C : t \subseteq s => t = s
    BY <1>2
  <1>3. s \in SUBSET S /\ s \in SUBSET T /\ g[s] # h[s]
    OBVIOUS
  <1>4. /\ g[s] = IF s = {} THEN 0 ELSE f[First(s)] + g[Rest(s)]
        /\ h[s] = IF s = {} THEN 0 ELSE f[First(s)] + h[Rest(s)]
    BY <1>3, SumEquationAt
  <1>5. s # {}
    BY <1>3, <1>4
  <1>6. Rest(s) \in SUBSET (S \cap T) /\ Rest(s) \subseteq s /\ Rest(s) # s
    BY <1>5, FirstIsIn DEF Rest
  <1>7. g[Rest(s)] = h[Rest(s)]
    BY <1>6
  <1>8. QED BY <1>3, <1>4, <1>7

LEMMA SolutionExists ==
  ASSUME NEW f, NEW S, IsFiniteSet(S)
  PROVE  \E g : SumEquation(f, S, g)
  <1> DEFINE C == {s \in SUBSET S : ~ \E g : SumEquation(f, s, g)}
  <1> SUFFICES ASSUME C # {} PROVE FALSE
    OBVIOUS
  <1>1. C \subseteq SUBSET S
    OBVIOUS
  <1>2. \E s \in C : \A t \in C : t \subseteq s => t = s
    <2> HIDE DEF C
    <2>1. QED BY <1>1, SmallestSet
  <1> PICK s \in C : \A t \in C : t \subseteq s => t = s
    BY <1>2
  <1> DEFINE sol(t) == CHOOSE g : SumEquation(f, t, g)
             v == [t \in SUBSET s |-> IF t # s THEN sol(t)[t]
                                      ELSE IF s = {} THEN 0
                                           ELSE f[First(s)] + sol(Rest(s))[Rest(s)]]
  <1>3. \A t \in SUBSET s : t # s => SumEquation(f, t, sol(t))
    OBVIOUS
  <1>4. \A t \in SUBSET s : IsFiniteSet(t)
    BY FS_Subset
  <1>5. \A t \in SUBSET s :
          t # s => sol(t)[t] = IF t = {} THEN 0 ELSE f[First(t)] + v[Rest(t)]
    <2> SUFFICES ASSUME NEW t \in SUBSET s, t # s
                 PROVE  sol(t)[t] = IF t = {} THEN 0 ELSE f[First(t)] + v[Rest(t)]
      OBVIOUS
    <2>1. sol(t)[t] = IF t = {} THEN 0 ELSE f[First(t)] + sol(t)[Rest(t)]
      BY <1>3, SumEquationAt
    <2>2. CASE t = {}
      BY <2>1, <2>2
    <2>3. CASE t # {}
      <3>1. Rest(t) \in SUBSET s /\ Rest(t) \in SUBSET t /\ Rest(t) # s
        BY <2>3, FirstIsIn DEF Rest
      <3>2. v[Rest(t)] = sol(Rest(t))[Rest(t)]
        BY <3>1
      <3>3. SumEquation(f, t, sol(t)) /\ SumEquation(f, Rest(t), sol(Rest(t)))
        BY <1>3, <3>1
      <3>4. Rest(t) \in SUBSET (t \cap Rest(t)) /\ IsFiniteSet(t)
        BY <1>4, <3>1
      <3> HIDE DEF sol, v
      <3>5. sol(t)[Rest(t)] = sol(Rest(t))[Rest(t)]
        BY <3>3, <3>4, SolutionsAgree
      <3>6. QED BY <2>1, <2>3, <3>2, <3>5
    <2>4. QED BY <2>2, <2>3
  <1>6. v[s] = IF s = {} THEN 0 ELSE f[First(s)] + v[Rest(s)]
    <2>1. CASE s = {}
      BY <2>1
    <2>2. CASE s # {}
      <3>1. Rest(s) \in SUBSET s /\ Rest(s) # s
        BY <2>2, FirstIsIn DEF Rest
      <3>2. QED BY <2>2, <3>1
    <2>3. QED BY <2>1, <2>2
  <1>7. \A t \in SUBSET s : v[t] = IF t = {} THEN 0 ELSE f[First(t)] + v[Rest(t)]
    <2>1. \A t \in SUBSET s : t # s => v[t] = sol(t)[t]
      OBVIOUS
    <2> HIDE DEF sol, v
    <2>2. QED BY <1>5, <1>6, <2>1
  <1>8. v = [t \in SUBSET s |-> v[t]]
    OBVIOUS
  <1> HIDE DEF v
  <1>9. SumEquation(f, s, v)
    BY <1>7, <1>8 DEF SumEquation
  <1>10. QED BY <1>9

LEMMA SumIsSolution ==
  ASSUME NEW f, NEW S, IsFiniteSet(S), NEW g, SumEquation(f, S, g), NEW T \in SUBSET S
  PROVE  SumFunctionOnSet(f, T) = g[T]
  <1> DEFINE h == CHOOSE iter : SumEquation(f, T, iter)
  <1>1. IsFiniteSet(T)
    BY FS_Subset
  <1>2. SumEquation(f, T, h)
    BY <1>1, SolutionExists
  <1>3. T \in SUBSET (S \cap T)
    OBVIOUS
  <1>4. SumFunctionOnSet(f, T) = h[T]
    BY SumIsFold
  <1> HIDE DEF h
  <1>5. g[T] = h[T]
    BY <1>2, <1>3, SolutionsAgree
  <1>6. QED BY <1>4, <1>5

-----------------------------------------------------------------------------
\* What a client needs to know of sums of integers.

\* The sum over nothing.
LEMMA SumEmpty == \A f : SumFunctionOnSet(f, {}) = 0
  <1> SUFFICES ASSUME NEW f PROVE SumFunctionOnSet(f, {}) = 0
    OBVIOUS
  <1>1. PICK g : SumEquation(f, {}, g)
    BY FS_EmptySet, SolutionExists
  <1>2. SumFunctionOnSet(f, {}) = g[{}]
    BY <1>1, FS_EmptySet, SumIsSolution
  <1>3. QED BY <1>1, <1>2, SumEquationAt

\* The sum over something, as the fold takes it apart.
LEMMA SumFirst ==
  ASSUME NEW f, NEW S, IsFiniteSet(S), S # {}
  PROVE  SumFunctionOnSet(f, S) = f[First(S)] + SumFunctionOnSet(f, Rest(S))
  <1>1. PICK g : SumEquation(f, S, g)
    BY SolutionExists
  <1>2. Rest(S) \in SUBSET S /\ S \in SUBSET S
    BY DEF Rest
  <1>3. SumFunctionOnSet(f, S) = g[S] /\ SumFunctionOnSet(f, Rest(S)) = g[Rest(S)]
    BY <1>1, <1>2, SumIsSolution
  <1>4. g[S] = f[First(S)] + g[Rest(S)]
    BY <1>1, <1>2, SumEquationAt
  <1>5. QED BY <1>3, <1>4

\* A sum of integers is an integer.
LEMMA SumInt ==
  ASSUME NEW S, IsFiniteSet(S), NEW f, \A x \in S : f[x] \in Int
  PROVE  SumFunctionOnSet(f, S) \in Int
  <1> DEFINE C == {s \in SUBSET S : SumFunctionOnSet(f, s) \notin Int}
  <1> SUFFICES ASSUME C # {} PROVE FALSE
    OBVIOUS
  <1>1. C \subseteq SUBSET S
    OBVIOUS
  <1>2. \E s \in C : \A t \in C : t \subseteq s => t = s
    <2> HIDE DEF C
    <2>1. QED BY <1>1, SmallestSet
  <1> PICK s \in C : \A t \in C : t \subseteq s => t = s
    BY <1>2
  <1>3. s \in SUBSET S /\ SumFunctionOnSet(f, s) \notin Int /\ IsFiniteSet(s)
    BY FS_Subset
  <1>4. s # {}
    <2>1. SumFunctionOnSet(f, {}) \in Int
      BY SumEmpty
    <2> HIDE DEF C
    <2>2. QED BY <1>3, <2>1
  <1>5. First(s) \in S /\ Rest(s) \in SUBSET S /\ Rest(s) \subseteq s /\ Rest(s) # s
    BY <1>3, <1>4, FirstIsIn DEF Rest
  <1>6. SumFunctionOnSet(f, Rest(s)) \in Int
    BY <1>5
  <1>7. SumFunctionOnSet(f, s) = f[First(s)] + SumFunctionOnSet(f, Rest(s))
    BY <1>3, <1>4, SumFirst
  <1>8. QED BY <1>3, <1>5, <1>6, <1>7

\* Any element can be taken out of a sum.
LEMMA SumRemove ==
  ASSUME NEW S, IsFiniteSet(S), NEW f, \A x \in S : f[x] \in Int, NEW e \in S
  PROVE  SumFunctionOnSet(f, S) = f[e] + SumFunctionOnSet(f, S \ {e})
  <1> DEFINE Sum(s) == SumFunctionOnSet(f, s)
             C == {s \in SUBSET S : \E x \in s : Sum(s) # f[x] + Sum(s \ {x})}
  <1> SUFFICES ASSUME C # {} PROVE FALSE
    BY Zenon
  <1>1. C \subseteq SUBSET S
    OBVIOUS
  <1>2. \E s \in C : \A t \in C : t \subseteq s => t = s
    <2> HIDE DEF C
    <2>1. QED BY <1>1, SmallestSet
  <1> PICK s \in C : \A t \in C : t \subseteq s => t = s
    BY <1>2
  <1>3. s \in SUBSET S /\ IsFiniteSet(s)
    BY FS_Subset
  <1>4. PICK x \in s : Sum(s) # f[x] + Sum(s \ {x})
    OBVIOUS
  <1>5. \A t \in SUBSET S : IsFiniteSet(t) /\ Sum(t) \in Int
    BY FS_Subset, SumInt
  <1> DEFINE y == First(s)
  <1>6. y \in s /\ Sum(s) = f[y] + Sum(s \ {y})
    BY <1>3, <1>4, FirstIsIn, SumFirst DEF Rest
  <1> HIDE DEF y
  <1>7. x # y
    BY <1>4, <1>6
  <1>8. \A t \in SUBSET s : t # s => \A z \in t : Sum(t) = f[z] + Sum(t \ {z})
    BY <1>3
  <1> HIDE DEF C, Sum
  <1>9. Sum(s \ {y}) = f[x] + Sum((s \ {y}) \ {x})
    BY <1>4, <1>6, <1>7, <1>8
  <1>10. Sum(s \ {x}) = f[y] + Sum((s \ {x}) \ {y})
    BY <1>4, <1>6, <1>7, <1>8
  <1>11. (s \ {y}) \ {x} = (s \ {x}) \ {y}
    OBVIOUS
  <1>12. f[x] \in Int /\ f[y] \in Int /\ Sum((s \ {x}) \ {y}) \in Int
    BY <1>3, <1>4, <1>5, <1>6
  <1> DEFINE a == f[x]
             b == f[y]
             c == Sum((s \ {x}) \ {y})
  <1>13. /\ a \in Int /\ b \in Int /\ c \in Int
         /\ Sum(s) = b + (a + c) /\ Sum(s \ {x}) = b + c
    BY <1>6, <1>9, <1>10, <1>11, <1>12
  <1>14. Sum(s) # a + Sum(s \ {x})
    BY <1>4
  <1> HIDE DEF a, b, c
  <1>15. QED BY <1>13, <1>14

\* One element more.
LEMMA SumAdd ==
  ASSUME NEW S, IsFiniteSet(S), NEW f, NEW e, e \notin S,
         \A x \in S \cup {e} : f[x] \in Int
  PROVE  SumFunctionOnSet(f, S \cup {e}) = f[e] + SumFunctionOnSet(f, S)
  <1>1. IsFiniteSet(S \cup {e}) /\ (S \cup {e}) \ {e} = S
    BY FS_AddElement
  <1>2. QED BY <1>1, SumRemove

\* A sum depends on its terms only.
LEMMA SumSame ==
  ASSUME NEW S, IsFiniteSet(S), NEW f, NEW g, \A x \in S : f[x] = g[x]
  PROVE  SumFunctionOnSet(f, S) = SumFunctionOnSet(g, S)
  <1> DEFINE C == {s \in SUBSET S : SumFunctionOnSet(f, s) # SumFunctionOnSet(g, s)}
  <1> SUFFICES ASSUME C # {} PROVE FALSE
    OBVIOUS
  <1>1. C \subseteq SUBSET S
    OBVIOUS
  <1>2. \E s \in C : \A t \in C : t \subseteq s => t = s
    <2> HIDE DEF C
    <2>1. QED BY <1>1, SmallestSet
  <1> PICK s \in C : \A t \in C : t \subseteq s => t = s
    BY <1>2
  <1>3. /\ s \in SUBSET S /\ IsFiniteSet(s)
        /\ SumFunctionOnSet(f, s) # SumFunctionOnSet(g, s)
    BY FS_Subset
  <1>4. s # {}
    BY <1>3, SumEmpty
  <1>5. First(s) \in S /\ Rest(s) \in SUBSET S /\ Rest(s) \subseteq s /\ Rest(s) # s
    BY <1>3, <1>4, FirstIsIn DEF Rest
  <1>6. SumFunctionOnSet(f, Rest(s)) = SumFunctionOnSet(g, Rest(s))
    BY <1>5
  <1>7. /\ SumFunctionOnSet(f, s) = f[First(s)] + SumFunctionOnSet(f, Rest(s))
        /\ SumFunctionOnSet(g, s) = g[First(s)] + SumFunctionOnSet(g, Rest(s))
    BY <1>3, <1>4, SumFirst
  <1>8. QED BY <1>3, <1>5, <1>6, <1>7

\* A sum of natural numbers is one, and grows with the set.
LEMMA SumNat ==
  ASSUME NEW S, IsFiniteSet(S), NEW f, \A x \in S : f[x] \in Nat
  PROVE  SumFunctionOnSet(f, S) \in Nat
  <1> DEFINE C == {s \in SUBSET S : SumFunctionOnSet(f, s) \notin Nat}
  <1> SUFFICES ASSUME C # {} PROVE FALSE
    OBVIOUS
  <1>1. C \subseteq SUBSET S
    OBVIOUS
  <1>2. \E s \in C : \A t \in C : t \subseteq s => t = s
    <2> HIDE DEF C
    <2>1. QED BY <1>1, SmallestSet
  <1> PICK s \in C : \A t \in C : t \subseteq s => t = s
    BY <1>2
  <1>3. s \in SUBSET S /\ SumFunctionOnSet(f, s) \notin Nat /\ IsFiniteSet(s)
    BY FS_Subset
  <1>4. s # {}
    <2>1. SumFunctionOnSet(f, {}) \in Nat
      BY SumEmpty
    <2> HIDE DEF C
    <2>2. QED BY <1>3, <2>1
  <1>5. First(s) \in S /\ Rest(s) \in SUBSET S /\ Rest(s) \subseteq s /\ Rest(s) # s
    BY <1>3, <1>4, FirstIsIn DEF Rest
  <1>6. SumFunctionOnSet(f, Rest(s)) \in Nat
    BY <1>5
  <1>7. SumFunctionOnSet(f, s) = f[First(s)] + SumFunctionOnSet(f, Rest(s))
    BY <1>3, <1>4, SumFirst
  <1>8. QED BY <1>3, <1>5, <1>6, <1>7

LEMMA SumMonotone ==
  ASSUME NEW S, IsFiniteSet(S), NEW f, \A x \in S : f[x] \in Nat, NEW T \in SUBSET S
  PROVE  SumFunctionOnSet(f, T) <= SumFunctionOnSet(f, S)
  <1> DEFINE Sum(s) == SumFunctionOnSet(f, s)
             C == {s \in SUBSET S : T \subseteq s /\ ~(Sum(T) <= Sum(s))}
  <1> SUFFICES ASSUME C # {} PROVE FALSE
    BY Zenon
  <1>1. C \subseteq SUBSET S
    OBVIOUS
  <1>2. \E s \in C : \A t \in C : t \subseteq s => t = s
    <2> HIDE DEF C
    <2>1. QED BY <1>1, SmallestSet
  <1> PICK s \in C : \A t \in C : t \subseteq s => t = s
    BY <1>2
  <1>3. s \in SUBSET S /\ T \subseteq s /\ ~(Sum(T) <= Sum(s)) /\ IsFiniteSet(s)
    BY FS_Subset
  <1>4. \A t \in SUBSET S : IsFiniteSet(t) /\ Sum(t) \in Nat
    BY FS_Subset, SumNat
  <1>5. PICK e \in s : e \notin T
    <2>1. Sum(T) \in Nat
      BY <1>4
    <2> HIDE DEF Sum, C
    <2>2. s # T
      BY <1>3, <2>1
    <2>3. QED BY <1>3, <2>2
  <1>6. Sum(T) <= Sum(s \ {e})
    BY <1>3, <1>5
  <1>7. Sum(s) = f[e] + Sum(s \ {e})
    BY <1>3, SumRemove
  <1> HIDE DEF C, Sum
  <1>8. Sum(s \ {e}) \in Nat /\ Sum(T) \in Nat /\ f[e] \in Nat
    BY <1>3, <1>4
  <1>9. QED BY <1>3, <1>6, <1>7, <1>8

\* No term exceeds the sum.
LEMMA SumTerm ==
  ASSUME NEW S, IsFiniteSet(S), NEW f, \A x \in S : f[x] \in Nat, NEW e \in S
  PROVE  f[e] <= SumFunctionOnSet(f, S)
  <1> DEFINE rest == SumFunctionOnSet(f, S \ {e})
  <1>1. IsFiniteSet(S \ {e})
    BY FS_Subset
  <1>2. rest \in Nat
    BY <1>1, SumNat
  <1>3. SumFunctionOnSet(f, S) = f[e] + rest
    BY SumRemove
  <1> HIDE DEF rest
  <1>4. QED BY <1>2, <1>3

\* One term changes, and the sum as much as it.
LEMMA SumChange ==
  ASSUME NEW S, IsFiniteSet(S), NEW f, NEW g, NEW e \in S,
         \A x \in S : f[x] \in Int /\ g[x] \in Int,
         \A x \in S \ {e} : f[x] = g[x]
  PROVE  SumFunctionOnSet(g, S) = SumFunctionOnSet(f, S) + (g[e] - f[e])
  <1> DEFINE rest == SumFunctionOnSet(f, S \ {e})
  <1>1. IsFiniteSet(S \ {e})
    BY FS_Subset
  <1>2. rest \in Int
    BY <1>1, SumInt
  <1>3. SumFunctionOnSet(f, S) = f[e] + rest
    BY SumRemove
  <1>4. SumFunctionOnSet(g, S) = g[e] + SumFunctionOnSet(g, S \ {e})
    BY SumRemove
  <1>5. SumFunctionOnSet(g, S \ {e}) = rest
    BY <1>1, SumSame
  <1> HIDE DEF rest
  <1>6. QED BY <1>2, <1>3, <1>4, <1>5

\* A sum of zeros.
LEMMA SumZero ==
  ASSUME NEW S, IsFiniteSet(S), NEW f, \A x \in S : f[x] = 0
  PROVE  SumFunctionOnSet(f, S) = 0
  <1> DEFINE C == {s \in SUBSET S : SumFunctionOnSet(f, s) # 0}
  <1> SUFFICES ASSUME C # {} PROVE FALSE
    OBVIOUS
  <1>1. C \subseteq SUBSET S
    OBVIOUS
  <1>2. \E s \in C : \A t \in C : t \subseteq s => t = s
    <2> HIDE DEF C
    <2>1. QED BY <1>1, SmallestSet
  <1> PICK s \in C : \A t \in C : t \subseteq s => t = s
    BY <1>2
  <1>3. s \in SUBSET S /\ SumFunctionOnSet(f, s) # 0 /\ IsFiniteSet(s)
    BY FS_Subset
  <1>4. s # {}
    BY <1>3, SumEmpty
  <1>5. First(s) \in S /\ Rest(s) \in SUBSET S /\ Rest(s) \subseteq s /\ Rest(s) # s
    BY <1>3, <1>4, FirstIsIn DEF Rest
  <1>6. SumFunctionOnSet(f, Rest(s)) = 0
    BY <1>5
  <1>7. SumFunctionOnSet(f, s) = f[First(s)] + SumFunctionOnSet(f, Rest(s))
    BY <1>3, <1>4, SumFirst
  <1>8. QED BY <1>3, <1>5, <1>6, <1>7
=============================================================================
