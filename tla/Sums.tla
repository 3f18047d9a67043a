-------------------------------- MODULE Sums --------------------------------
(***************************************************************************)
(* Lemmas about SumFunctionOnSet, the sum of f[x] over the members x of a  *)
(* finite set.  It is a fold, so what it returns rests on induction over   *)
(* the set; the principle used here has a set G of subsets in the place of *)
(* a property of subsets, and is an instance of "a strict subset is less". *)
(***************************************************************************)
EXTENDS Integers, FiniteSets, Functions, FiniteSetTheorems, TLAPS

-----------------------------------------------------------------------------
(* Induction.                                                              *)

(* Among some subsets of a finite set one has no other below it.           *)
LEMMA MinimalSubset ==
  ASSUME NEW S, IsFiniteSet(S), NEW B \in SUBSET (SUBSET S), B # {}
  PROVE  \E T \in B : \A U \in B : ~ (U \subseteq T /\ U # T)
<1> DEFINE R == StrictSubsetOrdering(S)
<1>1. FiniteSubsetsOf(S) = SUBSET S BY FS_FiniteSubsetsOfFinite
<1>2. IsWellFoundedOn(R, SUBSET S) BY <1>1, FS_StrictSubsetOrderingWellFounded
<1>3. \A T, U \in SUBSET S : U \subseteq T /\ U # T => <<U, T>> \in R
  BY DEF StrictSubsetOrdering
<1> HIDE DEF R
<1>4. \E T \in B : \A U \in B : ~ (<<U, T>> \in R)
  BY <1>2, WFMin, Zenon
<1> QED BY <1>3, <1>4

(* A set G that has each subset of S whose strict subsets it has, has S.   *)
LEMMA StrongInduction ==
  ASSUME NEW S, IsFiniteSet(S), NEW G,
         \A T \in SUBSET S : (\A U \in SUBSET T : U # T => U \in G) => T \in G
  PROVE  S \in G
<1> SUFFICES ASSUME S \notin G PROVE FALSE
  OBVIOUS
<1> DEFINE B == (SUBSET S) \ G
<1>1. PICK T \in B : \A U \in B : ~ (U \subseteq T /\ U # T)
  <2>1. B # {} /\ B \in SUBSET (SUBSET S) OBVIOUS
  <2> HIDE DEF B
  <2> QED BY <2>1, MinimalSubset
<1>2. T \in SUBSET S /\ T \notin G OBVIOUS
<1>3. \A U \in SUBSET T : U # T => U \in G BY <1>1, <1>2
<1> QED BY <1>2, <1>3

(* The same, adding one element at a time.                                 *)
LEMMA SubsetInduction ==
  ASSUME NEW S, IsFiniteSet(S), NEW G, {} \in G,
         \A T \in SUBSET S : \A x \in T : T \ {x} \in G => T \in G
  PROVE  S \in G
<1>1. ASSUME NEW T \in SUBSET S, \A U \in SUBSET T : U # T => U \in G
      PROVE  T \in G
  <2>1. CASE T = {} BY <2>1
  <2>2. CASE T # {}
    <3>1. PICK x \in T : TRUE BY <2>2
    <3>2. T \ {x} \in G BY <1>1
    <3> QED BY <3>2
  <2> QED BY <2>1, <2>2
<1> QED BY <1>1, StrongInduction

-----------------------------------------------------------------------------
(* The recursive function behind the fold.                                 *)

First(T) == CHOOSE x \in T : TRUE

FoldStep(f, g, T) == IF T = {} THEN 0 ELSE f[First(T)] + g[T \ {First(T)}]

Iterated(f, S) == CHOOSE g : g = [T \in SUBSET S |-> FoldStep(f, g, T)]

(* The sum is that function, at the whole set.                             *)
LEMMA SumIsIterated ==
  ASSUME NEW f, NEW S
  PROVE  SumFunctionOnSet(f, S) = Iterated(f, S)[S]
BY DEF SumFunctionOnSet, FoldFunctionOnSet, MapThenFoldSet, Iterated, FoldStep,
       First

(* There is such a function: one that is right up to the size of T \ {x}   *)
(* gives one that is right up to the size of T.                            *)
LEMMA IteratedExists ==
  ASSUME NEW f, NEW S, IsFiniteSet(S)
  PROVE  \A T \in SUBSET S : Iterated(f, S)[T] = FoldStep(f, Iterated(f, S), T)
<1> DEFINE Right(g, T) == g[T] = FoldStep(f, g, T)
           UpTo(g, n) == \A T \in SUBSET S : Cardinality(T) <= n => Right(g, T)
           G == {T \in SUBSET S : \E g : UpTo(g, Cardinality(T))}
<1>1. \A T \in SUBSET S : IsFiniteSet(T) /\ Cardinality(T) \in Nat
  BY FS_Subset, FS_CardinalityType
<1>2. {} \in G
  <2> DEFINE g == [T \in SUBSET S |-> 0]
  <2>1. \A T \in SUBSET S : Cardinality(T) <= Cardinality({}) => T = {}
    BY <1>1, FS_EmptySet
  <2>2. UpTo(g, Cardinality({})) BY <2>1 DEF FoldStep
  <2> QED BY <2>2
<1>3. ASSUME NEW T \in SUBSET S, NEW x \in T, T \ {x} \in G PROVE T \in G
  <2> DEFINE n == Cardinality(T)
             k == Cardinality(T \ {x})
  <2>1. n \in Nat /\ k = n - 1 BY <1>1, FS_RemoveElement
  <2>2. PICK g : UpTo(g, k) BY <1>3
  <2> DEFINE h == [U \in SUBSET S |-> FoldStep(f, g, U)]
  <2>3. ASSUME NEW U \in SUBSET S, Cardinality(U) <= n PROVE Right(h, U)
    <3>1. CASE U = {} BY <3>1 DEF FoldStep
    <3>2. CASE U # {}
      <4> DEFINE V == U \ {First(U)}
      <4>1. First(U) \in U BY <3>2 DEF First
      <4>2. V \in SUBSET S /\ Cardinality(V) <= k
        <5>1. IsFiniteSet(U) /\ Cardinality(U) \in Nat BY <1>1
        <5>2. Cardinality(U \ {First(U)}) = Cardinality(U) - 1
          BY <4>1, <5>1, FS_RemoveElement
        <5> QED BY <2>1, <2>3, <5>1, <5>2
      <4>3. g[V] = FoldStep(f, g, V) BY <2>2, <4>2
      <4>4. h[V] = FoldStep(f, g, V) BY <4>2
      <4>5. h[U] = f[First(U)] + g[V] BY <3>2 DEF FoldStep
      <4> HIDE DEF h
      <4>6. FoldStep(f, h, U) = f[First(U)] + h[V] BY <3>2 DEF FoldStep
      <4> QED BY <4>3, <4>4, <4>5, <4>6
    <3> QED BY <3>1, <3>2
  <2> HIDE DEF h
  <2>4. UpTo(h, n) BY <2>3
  <2> QED BY <2>4
<1>4. S \in G
  <2> HIDE DEF G
  <2> QED BY <1>2, <1>3, SubsetInduction
<1>5. PICK g : UpTo(g, Cardinality(S)) BY <1>4
<1>6. \A T \in SUBSET S : g[T] = FoldStep(f, g, T)
  BY <1>1, <1>5, FS_Subset
<1> DEFINE h == [T \in SUBSET S |-> FoldStep(f, g, T)]
<1>7. ASSUME NEW T \in SUBSET S PROVE h[T] = FoldStep(f, h, T)
  <2>1. h[T] = FoldStep(f, g, T) OBVIOUS
  <2>2. \A U \in SUBSET S : h[U] = g[U] BY <1>6
  <2> HIDE DEF h
  <2>3. T \ {First(T)} \in SUBSET S OBVIOUS
  <2> QED BY <2>1, <2>2, <2>3 DEF FoldStep
<1>8. h = [T \in SUBSET S |-> FoldStep(f, h, T)]
  <2>1. h = [T \in SUBSET S |-> h[T]] OBVIOUS
  <2> HIDE DEF h
  <2> QED BY <1>7, <2>1
<1>9. \E e : e = [T \in SUBSET S |-> FoldStep(f, e, T)]
  <2> HIDE DEF h
  <2> QED BY <1>8
<1> DEFINE e == Iterated(f, S)
<1>10. e = [T \in SUBSET S |-> FoldStep(f, e, T)]
  BY <1>9 DEF Iterated
<1> HIDE DEF e
<1>11. \A T \in SUBSET S : e[T] = FoldStep(f, e, T) BY <1>10
<1> QED BY <1>11 DEF e

(* And on a subset it is the one of that subset.                           *)
LEMMA IteratedOnSubset ==
  ASSUME NEW f, NEW S, IsFiniteSet(S), NEW T \in SUBSET S
  PROVE  Iterated(f, S)[T] = SumFunctionOnSet(f, T)
<1>1. IsFiniteSet(T) BY FS_Subset
<1> DEFINE d == Iterated(f, S)
           e == Iterated(f, T)
           G == {U \in SUBSET T : d[U] = e[U]}
<1>2. /\ \A U \in SUBSET T : d[U] = FoldStep(f, d, U)
      /\ \A U \in SUBSET T : e[U] = FoldStep(f, e, U)
  BY <1>1, IteratedExists
<1> HIDE DEF d, e
<1>3. ASSUME NEW U \in SUBSET T, \A V \in SUBSET U : V # U => V \in G
      PROVE  U \in G
  <2>1. CASE U = {} BY <1>2, <2>1 DEF FoldStep
  <2>2. CASE U # {}
    <3>1. First(U) \in U BY <2>2 DEF First
    <3>2. U \ {First(U)} \in G BY <1>3, <3>1
    <3> QED BY <1>2, <2>2, <3>2 DEF FoldStep
  <2> QED BY <2>1, <2>2
<1>4. T \in G
  <2> HIDE DEF G
  <2> QED BY <1>1, <1>3, StrongInduction
<1> QED BY <1>4, SumIsIterated DEF d, e

-----------------------------------------------------------------------------
(* Sums.                                                                   *)

(* Nothing sums to nothing.                                                *)
LEMMA SumEmpty == ASSUME NEW f PROVE SumFunctionOnSet(f, {}) = 0
<1>1. IsFiniteSet({}) BY FS_EmptySet
<1>2. {} \in SUBSET {} OBVIOUS
<1> QED BY <1>1, <1>2, IteratedExists, SumIsIterated DEF FoldStep

(* The fold takes a member the definition chooses.                         *)
LEMMA SumFirst ==
  ASSUME NEW f, NEW S, IsFiniteSet(S), S # {}
  PROVE  /\ First(S) \in S
         /\ SumFunctionOnSet(f, S) =
              f[First(S)] + SumFunctionOnSet(f, S \ {First(S)})
<1> DEFINE e == Iterated(f, S)
<1>1. First(S) \in S BY DEF First
<1>2. S \in SUBSET S /\ S \ {First(S)} \in SUBSET S OBVIOUS
<1>3. e[S] = FoldStep(f, e, S) BY <1>2, IteratedExists
<1>4. e[S \ {First(S)}] = SumFunctionOnSet(f, S \ {First(S)})
  BY <1>2, IteratedOnSubset
<1> QED BY <1>1, <1>3, <1>4, SumIsIterated DEF FoldStep

(* The sum of integers is an integer.                                      *)
LEMMA SumType ==
  ASSUME NEW f, NEW S, IsFiniteSet(S), \A x \in S : f[x] \in Int
  PROVE  SumFunctionOnSet(f, S) \in Int
<1> DEFINE G == {T \in SUBSET S : SumFunctionOnSet(f, T) \in Int}
<1>1. ASSUME NEW T \in SUBSET S, \A U \in SUBSET T : U # T => U \in G
      PROVE  T \in G
  <2>1. CASE T = {} BY <2>1, SumEmpty
  <2>2. CASE T # {}
    <3>1. IsFiniteSet(T) BY FS_Subset
    <3>2. First(T) \in T /\ SumFunctionOnSet(f, T) =
            f[First(T)] + SumFunctionOnSet(f, T \ {First(T)})
      BY <2>2, <3>1, SumFirst
    <3>3. T \ {First(T)} \in G BY <1>1, <3>2
    <3> QED BY <3>2, <3>3
  <2> QED BY <2>1, <2>2
<1>2. S \in G
  <2> HIDE DEF G
  <2> QED BY <1>1, StrongInduction
<1> QED BY <1>2

(* Any member may be taken out first.                                      *)
LEMMA SumRemove ==
  ASSUME NEW f, NEW S, IsFiniteSet(S), \A x \in S : f[x] \in Int, NEW x \in S
  PROVE  SumFunctionOnSet(f, S) = f[x] + SumFunctionOnSet(f, S \ {x})
<1> DEFINE Sum(T) == SumFunctionOnSet(f, T)
           G == {T \in SUBSET S : \A y \in T : Sum(T) = f[y] + Sum(T \ {y})}
<1>1. ASSUME NEW T \in SUBSET S, \A U \in SUBSET T : U # T => U \in G
      PROVE  T \in G
  <2>1. SUFFICES ASSUME NEW y \in T PROVE Sum(T) = f[y] + Sum(T \ {y})
    OBVIOUS
  <2> DEFINE c == First(T)
             U == (T \ {c}) \ {y}
  <2>2. IsFiniteSet(T) BY FS_Subset
  <2>3. c \in T /\ Sum(T) = f[c] + Sum(T \ {c}) BY <2>2, SumFirst
  <2>4. CASE y = c BY <2>3, <2>4
  <2>5. CASE y # c
    <3>1. T \ {c} \in G /\ y \in T \ {c} BY <1>1, <2>3, <2>5
    <3>2. T \ {y} \in G /\ c \in T \ {y} BY <1>1, <2>3, <2>5
    <3>3. U = (T \ {y}) \ {c} OBVIOUS
    <3>4. Sum(T \ {c}) = f[y] + Sum(U) BY <3>1
    <3>5. Sum(T \ {y}) = f[c] + Sum(U) BY <3>2, <3>3
    <3>6. IsFiniteSet(U) /\ \A z \in U : f[z] \in Int
      <4>1. U \in SUBSET S OBVIOUS
      <4> QED BY <4>1, FS_Subset
    <3>7. Sum(U) \in Int BY <3>6, SumType
    <3>8. f[c] \in Int /\ f[y] \in Int BY <2>3
    <3> HIDE DEF Sum, U, c, G
    <3> QED BY <2>3, <3>4, <3>5, <3>7, <3>8
  <2> QED BY <2>4, <2>5
<1>2. S \in G
  <2> HIDE DEF G
  <2> QED BY <1>1, StrongInduction
<1> QED BY <1>2

(* A new member adds its term.                                             *)
LEMMA SumAdd ==
  ASSUME NEW f, NEW S, IsFiniteSet(S), NEW x, x \notin S,
         \A y \in S \cup {x} : f[y] \in Int
  PROVE  SumFunctionOnSet(f, S \cup {x}) = f[x] + SumFunctionOnSet(f, S)
<1>1. IsFiniteSet(S \cup {x}) BY FS_AddElement
<1>2. (S \cup {x}) \ {x} = S OBVIOUS
<1>3. x \in S \cup {x} OBVIOUS
<1> QED BY <1>1, <1>2, <1>3, SumRemove

(* Term by term.                                                           *)
LEMMA SumLeq ==
  ASSUME NEW f, NEW g, NEW S, IsFiniteSet(S),
         \A x \in S : f[x] \in Int /\ g[x] \in Int /\ f[x] <= g[x]
  PROVE  SumFunctionOnSet(f, S) <= SumFunctionOnSet(g, S)
<1> DEFINE G == {T \in SUBSET S : SumFunctionOnSet(f, T) <= SumFunctionOnSet(g, T)}
<1>1. {} \in G BY SumEmpty
<1>2. ASSUME NEW T \in SUBSET S, NEW x \in T, T \ {x} \in G PROVE T \in G
  <2>1. IsFiniteSet(T) /\ IsFiniteSet(T \ {x}) BY FS_Subset
  <2>2. SumFunctionOnSet(f, T) = f[x] + SumFunctionOnSet(f, T \ {x})
    BY <2>1, SumRemove
  <2>3. SumFunctionOnSet(g, T) = g[x] + SumFunctionOnSet(g, T \ {x})
    BY <2>1, SumRemove
  <2>4. SumFunctionOnSet(f, T \ {x}) \in Int /\ SumFunctionOnSet(g, T \ {x}) \in Int
    BY <2>1, SumType
  <2>5. SumFunctionOnSet(f, T \ {x}) <= SumFunctionOnSet(g, T \ {x}) BY <1>2
  <2>6. f[x] \in Int /\ g[x] \in Int /\ f[x] <= g[x] OBVIOUS
  <2>7. SumFunctionOnSet(f, T) <= SumFunctionOnSet(g, T)
    BY <2>2, <2>3, <2>4, <2>5, <2>6
  <2> QED BY <2>7
<1>3. S \in G
  <2> HIDE DEF G
  <2> QED BY <1>1, <1>2, SubsetInduction
<1> QED BY <1>3

(* Equal terms, equal sums.                                                *)
LEMMA SumEqual ==
  ASSUME NEW f, NEW g, NEW S, IsFiniteSet(S),
         \A x \in S : f[x] \in Int /\ g[x] = f[x]
  PROVE  SumFunctionOnSet(f, S) = SumFunctionOnSet(g, S)
<1>1. SumFunctionOnSet(f, S) <= SumFunctionOnSet(g, S) BY SumLeq
<1>2. SumFunctionOnSet(g, S) <= SumFunctionOnSet(f, S) BY SumLeq
<1>3. SumFunctionOnSet(f, S) \in Int /\ SumFunctionOnSet(g, S) \in Int BY SumType
<1> QED BY <1>1, <1>2, <1>3

(* Equal terms add up to a product.                                        *)
LEMMA SumConstant ==
  ASSUME NEW f, NEW S, IsFiniteSet(S), NEW c \in Int, \A x \in S : f[x] = c
  PROVE  SumFunctionOnSet(f, S) = c * Cardinality(S)
<1> DEFINE G == {T \in SUBSET S : SumFunctionOnSet(f, T) = c * Cardinality(T)}
<1>1. {} \in G
  <2>1. Cardinality({}) = 0 /\ c * 0 = 0 BY FS_EmptySet
  <2> QED BY <2>1, SumEmpty
<1>2. ASSUME NEW T \in SUBSET S, NEW x \in T, T \ {x} \in G PROVE T \in G
  <2> DEFINE n == Cardinality(T \ {x})
  <2>1. IsFiniteSet(T) /\ IsFiniteSet(T \ {x}) BY FS_Subset
  <2>2. SumFunctionOnSet(f, T) = f[x] + SumFunctionOnSet(f, T \ {x})
    BY <2>1, SumRemove
  <2>3. n \in Nat /\ Cardinality(T) = n + 1
    BY <2>1, FS_RemoveElement, FS_CardinalityType
  <2>4. SumFunctionOnSet(f, T \ {x}) = c * n BY <1>2
  <2>5. c * (n + 1) = c + c * n
    <3> HIDE DEF n
    <3> QED BY <2>3
  <2>6. SumFunctionOnSet(f, T) = c * Cardinality(T) BY <2>2, <2>3, <2>4, <2>5
  <2> QED BY <2>6
<1>3. S \in G
  <2> HIDE DEF G
  <2> QED BY <1>1, <1>2, SubsetInduction
<1> QED BY <1>3

(* Two sets with nothing in common add up.                                 *)
LEMMA SumUnion ==
  ASSUME NEW f, NEW S, NEW R, IsFiniteSet(S), IsFiniteSet(R), S \cap R = {},
         \A x \in S \cup R : f[x] \in Int
  PROVE  SumFunctionOnSet(f, S \cup R) = SumFunctionOnSet(f, S) + SumFunctionOnSet(f, R)
<1> DEFINE Sum(T) == SumFunctionOnSet(f, T)
           G == {T \in SUBSET S : Sum(T \cup R) = Sum(T) + Sum(R)}
<1>1. Sum(R) \in Int BY SumType
<1>2. {} \in G
  <2>1. {} \cup R = R OBVIOUS
  <2>2. Sum({}) = 0 BY SumEmpty
  <2> HIDE DEF Sum
  <2> QED BY <1>1, <2>1, <2>2
<1>3. ASSUME NEW T \in SUBSET S, NEW x \in T, T \ {x} \in G PROVE T \in G
  <2>1. IsFiniteSet(T) /\ IsFiniteSet(T \ {x}) BY FS_Subset
  <2>2. IsFiniteSet(T \cup R) BY <2>1, FS_Union
  <2>3. Sum(T) = f[x] + Sum(T \ {x}) BY <2>1, SumRemove
  <2>4. (T \cup R) \ {x} = (T \ {x}) \cup R /\ x \in T \cup R OBVIOUS
  <2>5. Sum(T \cup R) = f[x] + Sum((T \cup R) \ {x}) BY <2>2, <2>4, SumRemove
  <2>6. Sum(T \ {x}) \in Int BY <2>1, SumType
  <2>7. Sum((T \ {x}) \cup R) = Sum(T \ {x}) + Sum(R) BY <1>3
  <2>8. f[x] \in Int OBVIOUS
  <2> HIDE DEF Sum
  <2>9. Sum(T \cup R) = f[x] + (Sum(T \ {x}) + Sum(R))
    BY <2>4, <2>5, <2>7, Zenon
  <2>10. Sum(T \cup R) = Sum(T) + Sum(R)
    BY <1>1, <2>3, <2>6, <2>8, <2>9
  <2> QED BY <2>10
<1>4. S \in G
  <2> HIDE DEF G
  <2> QED BY <1>2, <1>3, SubsetInduction
<1> QED BY <1>4

(* Natural numbers.                                                        *)
LEMMA SumNat ==
  ASSUME NEW f, NEW S, IsFiniteSet(S), \A x \in S : f[x] \in Nat
  PROVE  SumFunctionOnSet(f, S) \in Nat
<1> DEFINE zero == [x \in S |-> 0]
<1>1. SumFunctionOnSet(zero, S) = 0
  <2>1. Cardinality(S) \in Nat BY FS_CardinalityType
  <2>2. SumFunctionOnSet(zero, S) = 0 * Cardinality(S) BY SumConstant
  <2> QED BY <2>1, <2>2
<1>2. SumFunctionOnSet(zero, S) <= SumFunctionOnSet(f, S) BY SumLeq
<1>3. SumFunctionOnSet(f, S) \in Int BY SumType
<1> QED BY <1>1, <1>2, <1>3

(* A part sums to no more than the whole.                                  *)
LEMMA SumSubset ==
  ASSUME NEW f, NEW S, IsFiniteSet(S), \A x \in S : f[x] \in Nat, NEW T \in SUBSET S
  PROVE  SumFunctionOnSet(f, T) <= SumFunctionOnSet(f, S)
<1>1. IsFiniteSet(T) /\ IsFiniteSet(S \ T) BY FS_Subset
<1>2. T \cup (S \ T) = S /\ T \cap (S \ T) = {} OBVIOUS
<1>3. SumFunctionOnSet(f, S) = SumFunctionOnSet(f, T) + SumFunctionOnSet(f, S \ T)
  BY <1>1, <1>2, SumUnion
<1>4. SumFunctionOnSet(f, T) \in Nat /\ SumFunctionOnSet(f, S \ T) \in Nat
  BY <1>1, SumNat
<1> QED BY <1>3, <1>4

(* What sets without a common member cover weighs what they weigh together.*)
LEMMA SumParts ==
  ASSUME NEW f, NEW S, IsFiniteSet(S), \A x \in S : f[x] \in Nat,
         NEW N, IsFiniteSet(N), NEW P \in [N -> SUBSET S],
         \A m, n \in N : m # n => P[m] \cap P[n] = {}
  PROVE  SumFunctionOnSet(f, UNION {P[n] : n \in N})
           = SumFunctionOnSet([n \in N |-> SumFunctionOnSet(f, P[n])], N)
<1> DEFINE Sum(T) == SumFunctionOnSet(f, T)
           w == [n \in N |-> Sum(P[n])]
           Cover(M) == UNION {P[n] : n \in M}
           G == {M \in SUBSET N : Sum(Cover(M)) = SumFunctionOnSet(w, M)}
<1>1. \A T \in SUBSET S : IsFiniteSet(T) /\ Sum(T) \in Nat BY FS_Subset, SumNat
<1>2. \A n \in N : w[n] = Sum(P[n]) /\ w[n] \in Int BY <1>1
<1>3. {} \in G
  <2>1. Cover({}) = {} OBVIOUS
  <2>2. Sum({}) = 0 /\ SumFunctionOnSet(w, {}) = 0 BY SumEmpty
  <2> HIDE DEF Sum, Cover, w
  <2> QED BY <2>1, <2>2
<1>4. ASSUME NEW M \in SUBSET N, NEW n \in M, M \ {n} \in G PROVE M \in G
  <2> DEFINE C == Cover(M \ {n})
  <2>1. C \in SUBSET S /\ P[n] \in SUBSET S OBVIOUS
  <2>2. Cover(M) = C \cup P[n] /\ C \cap P[n] = {} OBVIOUS
  <2>3. IsFiniteSet(M) /\ IsFiniteSet(M \ {n}) BY FS_Subset
  <2> HIDE DEF Cover, C
  <2>4. Sum(C \cup P[n]) = Sum(C) + Sum(P[n]) BY <1>1, <2>1, <2>2, SumUnion
  <2>5. /\ SumFunctionOnSet(w, M) = w[n] + SumFunctionOnSet(w, M \ {n})
        /\ SumFunctionOnSet(w, M \ {n}) \in Int
    <3> HIDE DEF w
    <3> QED BY <1>2, <2>3, SumRemove, SumType
  <2>6. Sum(C) = SumFunctionOnSet(w, M \ {n}) BY <1>4 DEF C
  <2>7. Sum(C) \in Nat /\ Sum(P[n]) \in Nat BY <1>1, <2>1
  <2>8. w[n] = Sum(P[n]) BY <1>2
  <2> HIDE DEF Sum, w
  <2>9. Sum(Cover(M)) = SumFunctionOnSet(w, M)
    BY <2>2, <2>4, <2>5, <2>6, <2>7, <2>8
  <2> QED BY <2>9
<1>5. N \in G
  <2> HIDE DEF G
  <2> QED BY <1>3, <1>4, SubsetInduction
<1> QED BY <1>5

(* One term more by k, the sum more by k.                                  *)
LEMMA SumRaise ==
  ASSUME NEW f, NEW g, NEW S, IsFiniteSet(S), \A x \in S : f[x] \in Int,
         NEW y \in S, NEW k \in Int, g[y] = f[y] + k,
         \A x \in S \ {y} : g[x] = f[x]
  PROVE  SumFunctionOnSet(g, S) = SumFunctionOnSet(f, S) + k
<1>1. IsFiniteSet(S \ {y}) BY FS_RemoveElement
<1>2. \A x \in S : g[x] \in Int
  <2>1. g[y] \in Int OBVIOUS
  <2> QED BY <2>1
<1>3. SumFunctionOnSet(f, S) = f[y] + SumFunctionOnSet(f, S \ {y}) BY SumRemove
<1>4. SumFunctionOnSet(g, S) = g[y] + SumFunctionOnSet(g, S \ {y}) BY <1>2, SumRemove
<1>5. SumFunctionOnSet(f, S \ {y}) = SumFunctionOnSet(g, S \ {y}) BY <1>1, SumEqual
<1>6. SumFunctionOnSet(f, S \ {y}) \in Int BY <1>1, SumType
<1>7. f[y] \in Int OBVIOUS
<1> QED BY <1>3, <1>4, <1>5, <1>6, <1>7
=============================================================================
