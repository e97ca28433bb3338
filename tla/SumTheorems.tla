---------------------------- MODULE SumTheorems ----------------------------
(***************************************************************************)
(* Finite sums, as SumFunctionOnSet of the community modules gives them:   *)
(* the facts that proofs about totals of money and of counters need.       *)
(*                                                                         *)
(* The sum is a recursive function on the subsets of its index set.  That  *)
(* such a function exists, and is the only one, is proved by the smallest  *)
(* subset for which it would fail.                                         *)
(***************************************************************************)
EXTENDS Integers, FiniteSets, Functions, FiniteSetTheorems, WellFoundedInduction, TLAPS

(* Of some subsets of a finite set one holds no other of them.             *)
LEMMA SmallestSubset ==
  ASSUME NEW S, IsFiniteSet(S), NEW B \in SUBSET (SUBSET S), B # {}
  PROVE  \E T \in B : \A U \in B : U \subseteq T => U = T
<1> DEFINE R == StrictSubsetOrdering(S)
<1>1. B \subseteq FiniteSubsetsOf(S)
  <2>1. \A T \in B : T \subseteq S /\ IsFiniteSet(T)
    BY FS_Subset
  <2> QED
    BY <2>1 DEF FiniteSubsetsOf
<1>2. IsWellFoundedOn(R, FiniteSubsetsOf(S))
  BY FS_StrictSubsetOrderingWellFounded
<1>3. PICK T \in B : \A U \in B : ~(<<U, T>> \in R)
  <2> HIDE DEF R
  <2> QED
    BY <1>1, <1>2, WFMin
<1>4. ASSUME NEW U \in B, U \subseteq T, U # T
      PROVE  <<U, T>> \in R
  BY <1>4 DEF StrictSubsetOrdering
<1> HIDE DEF R
<1>5. \A U \in B : U \subseteq T => U = T
  BY <1>3, <1>4
<1> QED
  BY <1>5

(* The element a sum takes first, and what it leaves.                      *)
Picked(s) == CHOOSE x \in s : TRUE
Unpicked(s) == s \ {Picked(s)}

LEMMA FirstIn ==
  ASSUME NEW s, s # {}
  PROVE  Picked(s) \in s /\ Unpicked(s) \subseteq s /\ Unpicked(s) # s
  BY DEF Picked, Unpicked

(* The equation that defines the partial sums of f over the subsets of D.  *)
SumEquation(f, D, g) ==
  [s \in SUBSET D |-> IF s = {} THEN 0 ELSE f[Picked(s)] + g[Unpicked(s)]]

PartialSums(f, D) == CHOOSE g : g = SumEquation(f, D, g)

LEMMA SumIsPartial == \A f, D : SumFunctionOnSet(f, D) = PartialSums(f, D)[D]
  BY DEF SumFunctionOnSet, FoldFunctionOnSet, MapThenFoldSet, PartialSums, SumEquation, Picked, Unpicked

LEMMA SumsAt ==
  ASSUME NEW f, NEW D, NEW g, g = SumEquation(f, D, g), NEW s \in SUBSET D
  PROVE  g[s] = IF s = {} THEN 0 ELSE f[Picked(s)] + g[Unpicked(s)]
  BY DEF SumEquation

(* Two solutions agree where both are defined.                             *)
LEMMA SumsAgree ==
  ASSUME NEW f, NEW D, IsFiniteSet(D), NEW E \in SUBSET D,
         NEW g, g = SumEquation(f, D, g), NEW h, h = SumEquation(f, E, h)
  PROVE  \A s \in SUBSET E : g[s] = h[s]
<1> DEFINE B == {s \in SUBSET E : g[s] # h[s]}
<1> SUFFICES ASSUME B # {}
             PROVE  FALSE
  OBVIOUS
<1>1. IsFiniteSet(E) /\ B \in SUBSET (SUBSET E)
  BY FS_Subset
<1>2. PICK T \in B : \A U \in B : U \subseteq T => U = T
  <2> HIDE DEF B
  <2> QED
    BY <1>1, SmallestSubset
<1>3. T \in SUBSET E /\ T \in SUBSET D /\ g[T] # h[T]
  BY <1>2
<1>4. T # {}
  BY <1>3, SumsAt
<1>5. Unpicked(T) \in SUBSET E /\ Unpicked(T) \subseteq T /\ Unpicked(T) # T
  BY <1>3, <1>4, FirstIn
<1>6. g[Unpicked(T)] = h[Unpicked(T)]
  BY <1>2, <1>5
<1>7. g[T] = f[Picked(T)] + g[Unpicked(T)] /\ h[T] = f[Picked(T)] + h[Unpicked(T)]
  BY <1>3, <1>4, SumsAt
<1> QED
  BY <1>3, <1>6, <1>7

LEMMA SumsExist ==
  ASSUME NEW f, NEW D, IsFiniteSet(D)
  PROVE  PartialSums(f, D) = SumEquation(f, D, PartialSums(f, D))
<1> DEFINE Solved(T) == PartialSums(f, T) = SumEquation(f, T, PartialSums(f, T))
           B == {T \in SUBSET D : ~Solved(T)}
<1> SUFFICES ASSUME B # {}
             PROVE  FALSE
  BY DEF Solved
<1>1. PICK T \in B : \A U \in B : U \subseteq T => U = T
  <2>1. B \in SUBSET (SUBSET D)
    OBVIOUS
  <2> HIDE DEF B
  <2> QED
    BY <2>1, SmallestSubset
<1>2. T \in SUBSET D /\ IsFiniteSet(T)
  BY <1>1, FS_Subset
<1>3. ASSUME NEW U \in SUBSET T, U # T
      PROVE  Solved(U) /\ IsFiniteSet(U)
  <2>1. U \notin B /\ U \in SUBSET D
    BY <1>1, <1>2, <1>3
  <2> QED
    BY <1>2, <2>1, FS_Subset
<1> DEFINE g == [s \in SUBSET T |->
                   IF s = {} THEN 0
                   ELSE f[Picked(s)] + PartialSums(f, Unpicked(s))[Unpicked(s)]]
<1>4. ASSUME NEW s \in SUBSET T, s # {}
      PROVE  PartialSums(f, Unpicked(s))[Unpicked(s)] = g[Unpicked(s)]
  <2> DEFINE u == Unpicked(s)
             p == PartialSums(f, u)
  <2>1. u \in SUBSET T /\ u # T
    BY <1>4, FirstIn
  <2>2. p = SumEquation(f, u, p) /\ IsFiniteSet(u)
    BY <1>3, <2>1
  <2>3. g[u] = IF u = {} THEN 0 ELSE f[Picked(u)] + PartialSums(f, Unpicked(u))[Unpicked(u)]
    BY <2>1
  <2> HIDE DEF g, u, p
  <2>4. p[u] = IF u = {} THEN 0 ELSE f[Picked(u)] + p[Unpicked(u)]
    BY <2>2, SumsAt
  <2>5. ASSUME u # {}
        PROVE  p[u] = g[u]
    <3> DEFINE q == PartialSums(f, Unpicked(u))
    <3>1. Unpicked(u) \in SUBSET u /\ Unpicked(u) \in SUBSET T /\ Unpicked(u) # T
      BY <2>1, <2>5, FirstIn
    <3>2. q = SumEquation(f, Unpicked(u), q)
      BY <1>3, <3>1
    <3> HIDE DEF q
    <3>3. p[Unpicked(u)] = q[Unpicked(u)]
      BY <2>2, <3>1, <3>2, SumsAgree
    <3> QED
      BY <2>3, <2>4, <2>5, <3>3 DEF q
  <2> QED
    BY <2>3, <2>4, <2>5 DEF u, p
<1>5. g = SumEquation(f, T, g)
  <2>1. SumEquation(f, T, g) =
          [s \in SUBSET T |-> IF s = {} THEN 0 ELSE f[Picked(s)] + g[Unpicked(s)]]
    BY DEF SumEquation
  <2> QED
    BY <1>4, <2>1
<1>6. Solved(T)
  <2> HIDE DEF g
  <2> QED
    BY <1>5 DEF PartialSums
<1> QED
  BY <1>1, <1>6

-----------------------------------------------------------------------------

LEMMA SumOfNone == \A f : SumFunctionOnSet(f, {}) = 0
<1> SUFFICES ASSUME NEW f
             PROVE  PartialSums(f, {})[{}] = 0
  BY SumIsPartial
<1> QED
  BY FS_EmptySet, SumsExist, SumsAt

LEMMA SumOfFirst ==
  ASSUME NEW f, NEW S, IsFiniteSet(S), S # {}
  PROVE  SumFunctionOnSet(f, S) = f[Picked(S)] + SumFunctionOnSet(f, Unpicked(S))
<1> DEFINE p == PartialSums(f, S)
           q == PartialSums(f, Unpicked(S))
<1>1. Unpicked(S) \in SUBSET S /\ IsFiniteSet(Unpicked(S))
  BY FirstIn, FS_Subset
<1>2. p = SumEquation(f, S, p) /\ q = SumEquation(f, Unpicked(S), q)
  BY <1>1, SumsExist
<1>3. SumFunctionOnSet(f, S) = p[S] /\ SumFunctionOnSet(f, Unpicked(S)) = q[Unpicked(S)]
  BY SumIsPartial
<1> HIDE DEF p, q
<1>4. p[S] = f[Picked(S)] + p[Unpicked(S)]
  BY <1>2, SumsAt
<1>5. p[Unpicked(S)] = q[Unpicked(S)]
  <2>1. \A s \in SUBSET Unpicked(S) : p[s] = q[s]
    BY <1>1, <1>2, SumsAgree
  <2> QED
    BY <2>1
<1> QED
  BY <1>3, <1>4, <1>5

(* A sum of natural numbers is one.                                        *)
LEMMA SumIsNat ==
  ASSUME NEW f, NEW S, IsFiniteSet(S), \A x \in S : f[x] \in Nat
  PROVE  SumFunctionOnSet(f, S) \in Nat
<1> DEFINE B == {T \in SUBSET S : SumFunctionOnSet(f, T) \notin Nat}
<1> SUFFICES ASSUME B # {}
             PROVE  FALSE
  OBVIOUS
<1>1. PICK T \in B : \A U \in B : U \subseteq T => U = T
  <2>1. B \in SUBSET (SUBSET S)
    OBVIOUS
  <2> HIDE DEF B
  <2> QED
    BY <2>1, SmallestSubset
<1>2. T \in SUBSET S /\ IsFiniteSet(T)
  BY <1>1, FS_Subset
<1>3. T # {}
  <2>1. SumFunctionOnSet(f, {}) = 0
    BY SumOfNone
  <2>2. {} \notin B
    BY <2>1
  <2> QED
    BY <1>1, <2>2
<1>4. Unpicked(T) \in SUBSET S /\ Unpicked(T) \subseteq T /\ Unpicked(T) # T /\ Picked(T) \in S
  BY <1>2, <1>3, FirstIn
<1>5. SumFunctionOnSet(f, Unpicked(T)) \in Nat
  BY <1>1, <1>4
<1> QED
  BY <1>1, <1>2, <1>3, <1>4, <1>5, SumOfFirst

(* Any element may be taken out, not only the first.                       *)
LEMMA SumWithout ==
  ASSUME NEW f, NEW S, IsFiniteSet(S), \A x \in S : f[x] \in Nat, NEW y \in S
  PROVE  SumFunctionOnSet(f, S) = f[y] + SumFunctionOnSet(f, S \ {y})
<1> DEFINE Sum(T) == SumFunctionOnSet(f, T)
           B == {T \in SUBSET S : \E z \in T : Sum(T) # f[z] + Sum(T \ {z})}
<1> SUFFICES ASSUME B # {}
             PROVE  FALSE
  OBVIOUS
<1>1. PICK T \in B : \A U \in B : U \subseteq T => U = T
  <2>1. B \in SUBSET (SUBSET S)
    OBVIOUS
  <2> HIDE DEF B
  <2> QED
    BY <2>1, SmallestSubset
<1>2. PICK z \in T : Sum(T) # f[z] + Sum(T \ {z})
  BY <1>1
<1> DEFINE x == Picked(T)
<1>3. T \in SUBSET S /\ IsFiniteSet(T) /\ x \in T /\ Unpicked(T) = T \ {x}
  BY <1>1, <1>2, FS_Subset, FirstIn DEF Unpicked
<1>4. Sum(T) = f[x] + Sum(T \ {x})
  BY <1>2, <1>3, SumOfFirst
<1> HIDE DEF x
<1>5. x # z
  BY <1>2, <1>4
<1>6. Sum(T \ {x}) = f[z] + Sum((T \ {x}) \ {z})
  <2>1. T \ {x} \in SUBSET S /\ T \ {x} # T /\ z \in T \ {x}
    BY <1>3, <1>5
  <2> QED
    BY <1>1, <2>1
<1>7. Sum(T \ {z}) = f[x] + Sum((T \ {z}) \ {x})
  <2>1. T \ {z} \in SUBSET S /\ T \ {z} # T /\ x \in T \ {z}
    BY <1>3, <1>5
  <2> QED
    BY <1>1, <2>1
<1>8. (T \ {x}) \ {z} = (T \ {z}) \ {x}
  OBVIOUS
<1>9. f[x] \in Nat /\ f[z] \in Nat /\ Sum((T \ {z}) \ {x}) \in Nat
  <2>1. (T \ {z}) \ {x} \in SUBSET S /\ IsFiniteSet((T \ {z}) \ {x})
    BY <1>3, FS_Subset
  <2> QED
    BY <1>3, <2>1, SumIsNat
<1> HIDE DEF Sum
<1> QED
  BY <1>2, <1>4, <1>6, <1>7, <1>8, <1>9

(* Sums of functions that agree on the set are equal.                      *)
LEMMA SumSame ==
  ASSUME NEW f, NEW g, NEW S, IsFiniteSet(S), \A x \in S : f[x] = g[x]
  PROVE  SumFunctionOnSet(f, S) = SumFunctionOnSet(g, S)
<1> DEFINE B == {T \in SUBSET S : SumFunctionOnSet(f, T) # SumFunctionOnSet(g, T)}
<1> SUFFICES ASSUME B # {}
             PROVE  FALSE
  OBVIOUS
<1>1. PICK T \in B : \A U \in B : U \subseteq T => U = T
  <2>1. B \in SUBSET (SUBSET S)
    OBVIOUS
  <2> HIDE DEF B
  <2> QED
    BY <2>1, SmallestSubset
<1>2. T \in SUBSET S /\ IsFiniteSet(T) /\ T # {}
  BY <1>1, FS_Subset, SumOfNone
<1>3. Unpicked(T) \in SUBSET S /\ Unpicked(T) \subseteq T /\ Unpicked(T) # T /\ Picked(T) \in S
  BY <1>2, FirstIn
<1>4. SumFunctionOnSet(f, Unpicked(T)) = SumFunctionOnSet(g, Unpicked(T))
  BY <1>1, <1>3
<1> QED
  BY <1>1, <1>2, <1>3, <1>4, SumOfFirst

(* A smaller set has no greater sum of natural numbers.                    *)
LEMMA SumOfFewer ==
  ASSUME NEW f, NEW S, IsFiniteSet(S), \A x \in S : f[x] \in Nat, NEW E \in SUBSET S
  PROVE  SumFunctionOnSet(f, E) <= SumFunctionOnSet(f, S)
<1> DEFINE Sum(T) == SumFunctionOnSet(f, T)
           B == {T \in SUBSET S : E \subseteq T /\ ~(Sum(E) <= Sum(T))}
<1> SUFFICES ASSUME B # {}
             PROVE  FALSE
  OBVIOUS
<1>1. PICK T \in B : \A U \in B : U \subseteq T => U = T
  <2>1. B \in SUBSET (SUBSET S)
    OBVIOUS
  <2> HIDE DEF B
  <2> QED
    BY <2>1, SmallestSubset
<1>2. T \in SUBSET S /\ E \subseteq T /\ ~(Sum(E) <= Sum(T)) /\ IsFiniteSet(T)
  BY <1>1, FS_Subset
<1>3. IsFiniteSet(E) /\ Sum(E) \in Nat
  BY FS_Subset, SumIsNat
<1>4. PICK z \in T : z \notin E
  BY <1>2, <1>3
<1>5. Sum(T) = f[z] + Sum(T \ {z}) /\ f[z] \in Nat
  BY <1>2, SumWithout
<1>6. T \ {z} \in SUBSET S /\ E \subseteq T \ {z} /\ T \ {z} # T /\ IsFiniteSet(T \ {z})
  BY <1>2, <1>4, FS_Subset
<1>7. Sum(E) <= Sum(T \ {z}) /\ Sum(T \ {z}) \in Nat
  BY <1>1, <1>6, SumIsNat
<1> HIDE DEF Sum
<1> QED
  BY <1>2, <1>3, <1>5, <1>7

(* One value changes: the sum changes by as much.                          *)
LEMMA SumOfOther ==
  ASSUME NEW f, NEW g, NEW S, IsFiniteSet(S), NEW y \in S,
         \A x \in S : f[x] \in Nat /\ g[x] \in Nat,
         \A x \in S \ {y} : f[x] = g[x]
  PROVE  SumFunctionOnSet(g, S) + f[y] = SumFunctionOnSet(f, S) + g[y]
<1>1. SumFunctionOnSet(f, S) = f[y] + SumFunctionOnSet(f, S \ {y})
  BY SumWithout
<1>2. SumFunctionOnSet(g, S) = g[y] + SumFunctionOnSet(g, S \ {y})
  BY SumWithout
<1>3. IsFiniteSet(S \ {y})
  BY FS_Subset
<1>4. SumFunctionOnSet(f, S \ {y}) = SumFunctionOnSet(g, S \ {y})
  BY <1>3, SumSame
<1>5. SumFunctionOnSet(f, S \ {y}) \in Nat
  BY <1>3, SumIsNat
<1> QED
  BY <1>1, <1>2, <1>4, <1>5

(* One element joins.                                                      *)
LEMMA SumWith ==
  ASSUME NEW f, NEW S, IsFiniteSet(S), NEW y, y \notin S,
         \A x \in S \cup {y} : f[x] \in Nat
  PROVE  SumFunctionOnSet(f, S \cup {y}) = f[y] + SumFunctionOnSet(f, S)
<1>1. IsFiniteSet(S \cup {y}) /\ (S \cup {y}) \ {y} = S
  BY FS_AddElement
<1> QED
  BY <1>1, SumWithout

(* The same for the sum of all the values of a function.                   *)
LEMMA SumOfValues ==
  ASSUME NEW f, IsFiniteSet(DOMAIN f), \A x \in DOMAIN f : f[x] \in Nat
  PROVE  SumFunction(f) \in Nat
  BY SumIsNat DEF SumFunction

LEMMA SumOfExtended ==
  ASSUME NEW f, NEW g, IsFiniteSet(DOMAIN f),
         NEW y, y \notin DOMAIN f, DOMAIN g = DOMAIN f \cup {y},
         \A x \in DOMAIN g : g[x] \in Nat,
         \A x \in DOMAIN f : g[x] = f[x]
  PROVE  SumFunction(g) = g[y] + SumFunction(f)
<1>1. SumFunctionOnSet(g, DOMAIN f) = SumFunctionOnSet(f, DOMAIN f)
  BY SumSame
<1>2. SumFunctionOnSet(g, DOMAIN f \cup {y}) = g[y] + SumFunctionOnSet(g, DOMAIN f)
  BY SumWith
<1> QED
  BY <1>1, <1>2 DEF SumFunction

LEMMA TimesMonotone ==
  ASSUME NEW k \in Nat, NEW m \in Nat, k <= m, NEW b \in Nat
  PROVE  k * b <= m * b
<1>1. (m - k) * b \in Nat
  <2>1. m - k \in Nat
    OBVIOUS
  <2> QED
    BY <2>1
<1>2. m * b = k * b + (m - k) * b
  OBVIOUS
<1>3. k * b \in Nat /\ m * b \in Nat
  OBVIOUS
<1> QED
  BY <1>1, <1>2, <1>3

(* A sum of values up to b is at most b for each.                          *)
LEMMA SumBounded ==
  ASSUME NEW f, NEW S, IsFiniteSet(S), NEW b \in Nat,
         \A x \in S : f[x] \in Nat /\ f[x] <= b
  PROVE  SumFunctionOnSet(f, S) <= Cardinality(S) * b
<1> DEFINE Sum(T) == SumFunctionOnSet(f, T)
           B == {T \in SUBSET S : ~(Sum(T) <= Cardinality(T) * b)}
<1> SUFFICES ASSUME B # {}
             PROVE  FALSE
  OBVIOUS
<1>1. PICK T \in B : \A U \in B : U \subseteq T => U = T
  <2>1. B \in SUBSET (SUBSET S)
    OBVIOUS
  <2> HIDE DEF B
  <2> QED
    BY <2>1, SmallestSubset
<1>2. T \in SUBSET S /\ IsFiniteSet(T) /\ ~(Sum(T) <= Cardinality(T) * b)
  BY <1>1, FS_Subset
<1>3. T # {}
  <2>1. SumFunctionOnSet(f, {}) = 0 /\ Cardinality({}) = 0 /\ 0 * b = 0
    BY SumOfNone, FS_EmptySet
  <2> QED
    BY <1>2, <2>1
<1>4. PICK x \in T : TRUE
  BY <1>3
<1> DEFINE U == T \ {x}
<1>5. U \in SUBSET S /\ U # T /\ IsFiniteSet(U) /\ Cardinality(U) = Cardinality(T) - 1
  BY <1>2, FS_RemoveElement
<1>6. Cardinality(T) \in Nat /\ Cardinality(U) \in Nat /\ Sum(U) \in Nat
  BY <1>2, <1>5, FS_CardinalityType, SumIsNat
<1>7. Sum(T) = f[x] + Sum(U) /\ f[x] \in Nat /\ f[x] <= b
  BY <1>2, SumWithout
<1>8. Sum(U) <= Cardinality(U) * b
  BY <1>1, <1>5
<1> HIDE DEF Sum, U
<1>9. Cardinality(T) * b = Cardinality(U) * b + b
  BY <1>5, <1>6
<1>10. Cardinality(T) * b \in Nat /\ Cardinality(U) * b \in Nat
  BY <1>6
<1> QED
  BY <1>2, <1>6, <1>7, <1>8, <1>9, <1>10

LEMMA SumOfPart ==
  ASSUME NEW f, NEW g, IsFiniteSet(DOMAIN f), DOMAIN g \subseteq DOMAIN f,
         \A x \in DOMAIN f : f[x] \in Nat,
         \A x \in DOMAIN g : g[x] = f[x]
  PROVE  SumFunction(g) <= SumFunction(f)
<1>1. IsFiniteSet(DOMAIN g)
  BY FS_Subset
<1>2. SumFunctionOnSet(g, DOMAIN g) = SumFunctionOnSet(f, DOMAIN g)
  BY <1>1, SumSame
<1>3. SumFunctionOnSet(f, DOMAIN g) <= SumFunctionOnSet(f, DOMAIN f)
  BY SumOfFewer
<1> QED
  BY <1>2, <1>3 DEF SumFunction

LEMMA SumAtMost ==
  ASSUME NEW f, NEW S, IsFiniteSet(S), DOMAIN f \subseteq S, NEW b \in Nat,
         \A x \in DOMAIN f : f[x] \in Nat /\ f[x] <= b
  PROVE  SumFunction(f) <= Cardinality(S) * b
<1> DEFINE D == DOMAIN f
<1>1. IsFiniteSet(D) /\ Cardinality(D) <= Cardinality(S)
  BY FS_Subset
<1>2. SumFunctionOnSet(f, D) <= Cardinality(D) * b /\ SumFunctionOnSet(f, D) \in Nat
  BY <1>1, SumBounded, SumIsNat
<1>3. Cardinality(D) \in Nat /\ Cardinality(S) \in Nat
  BY <1>1, FS_CardinalityType
<1> HIDE DEF D
<1>4. Cardinality(D) * b <= Cardinality(S) * b
  BY <1>1, <1>3, TimesMonotone
<1>5. Cardinality(D) * b \in Nat /\ Cardinality(S) * b \in Nat
  BY <1>3
<1> QED
  BY <1>2, <1>4, <1>5 DEF SumFunction, D

(* Where f is nothing it may be left out of the sum.                       *)
LEMMA SumOverMost ==
  ASSUME NEW f, NEW S, IsFiniteSet(S), NEW E \in SUBSET S, \A x \in S \ E : f[x] = 0,
         \A x \in S : f[x] \in Nat
  PROVE  SumFunctionOnSet(f, S) = SumFunctionOnSet(f, E)
<1> DEFINE Sum(T) == SumFunctionOnSet(f, T)
           B == {T \in SUBSET S : E \subseteq T /\ Sum(T) # Sum(E)}
<1> SUFFICES ASSUME B # {}
             PROVE  FALSE
  OBVIOUS
<1>1. PICK T \in B : \A U \in B : U \subseteq T => U = T
  <2>1. B \in SUBSET (SUBSET S)
    OBVIOUS
  <2> HIDE DEF B
  <2> QED
    BY <2>1, SmallestSubset
<1>2. T \in SUBSET S /\ E \subseteq T /\ IsFiniteSet(T) /\ Sum(T) # Sum(E)
  BY <1>1, FS_Subset
<1>3. PICK x \in T : x \notin E
  BY <1>2
<1> DEFINE U == T \ {x}
<1>4. U \in SUBSET S /\ E \subseteq U /\ U # T /\ U \subseteq T /\ IsFiniteSet(U)
  BY <1>2, <1>3, FS_RemoveElement
<1>5. Sum(T) = f[x] + Sum(U) /\ f[x] = 0 /\ Sum(U) \in Nat
  BY <1>2, <1>3, <1>4, SumWithout, SumIsNat
<1>6. Sum(U) = Sum(E)
  BY <1>1, <1>4
<1> HIDE DEF Sum, U
<1> QED
  BY <1>2, <1>5, <1>6

LEMMA SumOfLess ==
  ASSUME NEW f, NEW g, NEW S, IsFiniteSet(S),
         \A x \in S : f[x] \in Nat /\ g[x] \in Nat /\ f[x] <= g[x]
  PROVE  SumFunctionOnSet(f, S) <= SumFunctionOnSet(g, S)
<1> DEFINE F(T) == SumFunctionOnSet(f, T)
           G(T) == SumFunctionOnSet(g, T)
           B == {T \in SUBSET S : ~(F(T) <= G(T))}
<1> SUFFICES ASSUME B # {}
             PROVE  FALSE
  OBVIOUS
<1>1. PICK T \in B : \A U \in B : U \subseteq T => U = T
  <2>1. B \in SUBSET (SUBSET S)
    OBVIOUS
  <2> HIDE DEF B
  <2> QED
    BY <2>1, SmallestSubset
<1>2. T \in SUBSET S /\ IsFiniteSet(T) /\ ~(F(T) <= G(T))
  BY <1>1, FS_Subset
<1>3. T # {}
  BY <1>2, SumOfNone
<1>4. PICK x \in T : TRUE
  BY <1>3
<1> DEFINE U == T \ {x}
<1>5. U \in SUBSET S /\ U # T /\ U \subseteq T /\ IsFiniteSet(U)
  BY <1>2, <1>4, FS_RemoveElement
<1>6. /\ F(T) = f[x] + F(U) /\ G(T) = g[x] + G(U)
      /\ f[x] \in Nat /\ g[x] \in Nat /\ f[x] <= g[x]
  BY <1>2, <1>4, SumWithout
<1>7. F(U) \in Nat /\ G(U) \in Nat
  BY <1>5, SumIsNat
<1>8. F(U) <= G(U)
  BY <1>1, <1>5
<1> HIDE DEF F, G, U
<1> QED
  BY <1>2, <1>6, <1>7, <1>8
=============================================================================
