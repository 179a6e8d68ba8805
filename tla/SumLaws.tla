------------------------------ MODULE SumLaws ------------------------------
(***************************************************************************)
(* Sums over finite sets, as MapThenSumSet computes them: an element is    *)
(* chosen, its value added to the sum of the rest.  The lemmas show that   *)
(* there is such a sum, that it does not depend on the choices, and how it *)
(* splits - what sum() over the rows of a table may be relied on for.      *)
(*                                                                         *)
(* The library's induction theorems take an operator; here the induction   *)
(* runs over sets: the least element outside a set of naturals, a minimal  *)
(* subset outside a set of subsets.                                        *)
(***************************************************************************)
EXTENDS FiniteSetsExt, FiniteSetTheorems, TLAPS

Chosen(U) == CHOOSE x \in U : TRUE

\* g is the function MapThenSumSet defines over the subsets of S.
Folds(g, v, S) ==
    g = [U \in SUBSET S |-> IF U = {} THEN 0 ELSE v[Chosen(U)] + g[U \ {Chosen(U)}]]

\* g[U] is the sum of v over U, whichever element is taken first.
Sums(g, v, S) ==
    /\ g \in [SUBSET S -> Int]
    /\ g[{}] = 0
    /\ \A U \in SUBSET S : \A x \in U : g[U] = v[x] + g[U \ {x}]

-----------------------------------------------------------------------------
(* Induction *)

\* A set of naturals has a least element.
LEMMA LeastOf ==
    ASSUME NEW Z \in SUBSET Nat, Z # {}
    PROVE  \E n \in Z : \A m \in Z : n <= m
  <1>1. PICK n \in Z : \A m \in Z : <<m, n>> \notin OpToRel(<, Nat)
    <2>1. Z \subseteq Nat /\ Z # {}
      OBVIOUS
    <2> QED
      BY ONLY <2>1, NatLessThanWellFounded, WFMin
  <1>2. ASSUME NEW m \in Z PROVE n <= m
    <2>1. n \in Nat /\ m \in Nat
      OBVIOUS
    <2>2. ~(m < n)
      <3> SUFFICES ASSUME m < n PROVE FALSE
        OBVIOUS
      <3>1. <<m, n>> \in OpToRel(<, Nat)
        BY <2>1 DEF OpToRel
      <3> QED
        BY <1>1, <3>1
    <2> QED
      BY <2>1, <2>2
  <1> QED
    BY <1>2

\* A set of naturals with 0 and with every successor has them all.
LEMMA NaturalSteps ==
    ASSUME NEW N \in SUBSET Nat, 0 \in N, \A n \in N : n + 1 \in N
    PROVE  N = Nat
  <1> SUFFICES ASSUME N # Nat PROVE FALSE
    OBVIOUS
  <1>1. PICK n \in Nat \ N : \A m \in Nat \ N : n <= m
    BY LeastOf
  <1>2. n # 0 /\ n - 1 \in Nat /\ ~(n <= n - 1) /\ (n - 1) + 1 = n
    BY <1>1
  <1>3. n - 1 \in N
    BY <1>1, <1>2
  <1>4. (n - 1) + 1 \in N
    BY <1>3
  <1> QED
    BY <1>1, <1>2, <1>4

\* A set of the first n naturals has a greatest element.
LEMMA GreatestOf ==
    ASSUME NEW n \in Nat, NEW Z \in SUBSET (1..n), Z # {}
    PROVE  \E i \in Z : \A j \in Z : j <= i
  <1>1. PICK k \in {n - i : i \in Z} : \A m \in {n - i : i \in Z} : k <= m
    <2>1. PICK D : D = {n - i : i \in Z}
      OBVIOUS
    <2>2. \A i \in Z : n - i \in Nat
      OBVIOUS
    <2>3. D \in SUBSET Nat /\ D # {}
      BY <2>1, <2>2
    <2> QED
      BY <2>1, <2>3, LeastOf
  <1>2. PICK i \in Z : k = n - i
    OBVIOUS
  <1>3. ASSUME NEW j \in Z PROVE j <= i
    <2>1. n - i <= n - j
      BY <1>1, <1>2
    <2>2. i \in Int /\ j \in Int
      OBVIOUS
    <2> QED
      BY ONLY <2>1, <2>2, n \in Nat
  <1> QED
    BY <1>3

\* A set of subsets of a finite set S that has {}, and each T whose parts
\* with one element less it has, has all subsets.
LEMMA SubsetSteps ==
    ASSUME NEW S, IsFiniteSet(S), NEW B \in SUBSET SUBSET S, {} \in B,
           \A T \in SUBSET S : (T # {} /\ \A x \in T : T \ {x} \in B) => T \in B
    PROVE  B = SUBSET S
  <1> SUFFICES ASSUME B # SUBSET S PROVE FALSE
    OBVIOUS
  <1>1. IsWellFoundedOn(StrictSubsetOrdering(S), SUBSET S)
    <2>1. FiniteSubsetsOf(S) = SUBSET S
      BY FS_FiniteSubsetsOfFinite
    <2>2. IsWellFoundedOn(StrictSubsetOrdering(S), FiniteSubsetsOf(S))
      BY FS_StrictSubsetOrderingWellFounded
    <2> QED
      BY ONLY <2>1, <2>2
  <1>2. PICK U \in (SUBSET S) \ B :
           \A T \in (SUBSET S) \ B : <<T, U>> \notin StrictSubsetOrdering(S)
    <2> DEFINE D == SUBSET S
               R == StrictSubsetOrdering(S)
               Z == D \ B
    <2>1. Z \subseteq D /\ Z # {} /\ IsWellFoundedOn(R, D)
      BY <1>1
    <2>2. \E U \in Z : \A T \in Z : ~(<<T, U>> \in R)
      <3> HIDE DEF D, R, Z
      <3> QED
        BY ONLY <2>1, WFMin
    <2> QED
      BY ONLY <2>2
  <1>3. ASSUME NEW x \in U PROVE U \ {x} \in B
    <2>1. <<U \ {x}, U>> \in StrictSubsetOrdering(S)
      BY <1>2, <1>3 DEF StrictSubsetOrdering
    <2> QED
      BY <1>2, <2>1
  <1> QED
    BY <1>2, <1>3

-----------------------------------------------------------------------------
(* Existence *)

\* The chosen element is one.
LEMMA ChosenIsIn == \A U : U # {} => Chosen(U) \in U
  BY DEF Chosen

\* The recursion has a solution: each round settles the sets of one size more.
LEMMA FoldExists ==
    ASSUME NEW S, IsFiniteSet(S), NEW v \in [S -> Int]
    PROVE  \E g : Folds(g, v, S)
  <1> DEFINE Of(g, U) == IF U = {} THEN 0 ELSE v[Chosen(U)] + g[U \ {Chosen(U)}]
             Settled(g, n) == \A U \in SUBSET S : Cardinality(U) <= n => g[U] = Of(g, U)
             N == {n \in Nat : \E g \in [SUBSET S -> Int] : Settled(g, n)}
  <1>0. \A U \in SUBSET S : IsFiniteSet(U) /\ Cardinality(U) \in Nat
                            /\ (Cardinality(U) = 0 <=> U = {})
    BY FS_Subset, FS_CardinalityType, FS_EmptySet
  <1>1. 0 \in N
    <2> DEFINE g == [U \in SUBSET S |-> 0]
    <2>1. g \in [SUBSET S -> Int] /\ Settled(g, 0)
      BY <1>0
    <2> QED
      BY <2>1
  <1>2. ASSUME NEW n \in N PROVE n + 1 \in N
    <2>1. PICK g \in [SUBSET S -> Int] : Settled(g, n)
      OBVIOUS
    <2> DEFINE h == [U \in SUBSET S |-> Of(g, U)]
    <2>2. \A U \in SUBSET S : U # {} => /\ Chosen(U) \in S
                                        /\ U \ {Chosen(U)} \in SUBSET S
                                        /\ Cardinality(U \ {Chosen(U)}) = Cardinality(U) - 1
      BY <1>0, ChosenIsIn, FS_RemoveElement
    <2>3. h \in [SUBSET S -> Int]
      <3>1. ASSUME NEW U \in SUBSET S, U # {} PROVE v[Chosen(U)] + g[U \ {Chosen(U)}] \in Int
        <4>1. v[Chosen(U)] \in Int /\ g[U \ {Chosen(U)}] \in Int
          BY <2>2, <3>1
        <4> QED
          BY <4>1
      <3> QED
        BY <3>1
    <2>4. ASSUME NEW U \in SUBSET S, Cardinality(U) <= n + 1 PROVE h[U] = Of(h, U)
      <3>1. CASE U = {}
        BY <3>1
      <3>2. CASE U # {}
        <4> DEFINE R == U \ {Chosen(U)}
        <4>1. R \in SUBSET S /\ Cardinality(R) <= n
          BY <2>2, <2>4, <3>2, <1>0
        <4>2. h[R] = g[R]
          BY <2>1, <4>1
        <4> QED
          BY <4>1, <4>2, <3>2
      <3> QED
        BY <3>1, <3>2
    <2>5. Settled(h, n + 1)
      BY <2>4
    <2>6. \E k \in [SUBSET S -> Int] : Settled(k, n + 1)
      <3> HIDE DEF h, Settled
      <3> QED
        BY <2>3, <2>5
    <2> QED
      BY <2>6
  <1>3. N = Nat
    <2> HIDE DEF N
    <2>1. N \in SUBSET Nat
      BY DEF N
    <2> QED
      BY ONLY <1>1, <1>2, <2>1, NaturalSteps
  <1>4. PICK g \in [SUBSET S -> Int] : Settled(g, Cardinality(S))
    BY <1>0, <1>3
  <1>5. \A U \in SUBSET S : Cardinality(U) <= Cardinality(S)
    BY FS_Subset
  <1>6. g = [U \in SUBSET S |-> Of(g, U)]
    BY <1>4, <1>5
  <1> QED
    BY <1>6 DEF Folds

\* A solution sums up: the order of the choices does not matter.
LEMMA FoldSums ==
    ASSUME NEW S, IsFiniteSet(S), NEW v \in [S -> Int], NEW g, Folds(g, v, S)
    PROVE  Sums(g, v, S)
  <1> DEFINE I == {U \in SUBSET S : g[U] \in Int}
             B == {U \in SUBSET S : \A x \in U : g[U] = v[x] + g[U \ {x}]}
  <1>1. /\ DOMAIN g = SUBSET S /\ g[{}] = 0
        /\ \A U \in SUBSET S : U # {} => g[U] = v[Chosen(U)] + g[U \ {Chosen(U)}]
        /\ g = [U \in SUBSET S |-> g[U]]
    BY DEF Folds
  <1>2. I = SUBSET S
    <2>1. I \in SUBSET SUBSET S /\ {} \in I
      BY <1>1
    <2>2. ASSUME NEW T \in SUBSET S, T # {}, \A x \in T : T \ {x} \in I PROVE T \in I
      <3>1. PICK c \in T : c = Chosen(T)
        BY <2>2, ChosenIsIn
      <3>2. g[T] = v[c] + g[T \ {c}] /\ g[T \ {c}] \in Int /\ v[c] \in Int
        BY <1>1, <2>2, <3>1
      <3> QED
        BY <3>2
    <2> HIDE DEF I
    <2> QED
      BY ONLY <2>1, <2>2, SubsetSteps, IsFiniteSet(S)
  <1>3. B = SUBSET S
    <2>1. B \in SUBSET SUBSET S /\ {} \in B
      OBVIOUS
    <2>2. ASSUME NEW T \in SUBSET S, T # {}, \A x \in T : T \ {x} \in B PROVE T \in B
      <3>1. PICK c \in T : c = Chosen(T)
        BY <2>2, ChosenIsIn
      <3>2. g[T] = v[c] + g[T \ {c}]
        BY <1>1, <2>2, <3>1
      <3>3. ASSUME NEW x \in T, x # c PROVE g[T] = v[x] + g[T \ {x}]
        <4>1. x \in T \ {c} /\ c \in T \ {x} /\ T \ {c} \in B /\ T \ {x} \in B
          BY <2>2, <3>3
        <4>2. (T \ {c}) \ {x} = T \ {c, x} /\ (T \ {x}) \ {c} = T \ {c, x}
          OBVIOUS
        <4>3. g[T \ {c}] = v[x] + g[T \ {c, x}] /\ g[T \ {x}] = v[c] + g[T \ {c, x}]
          BY <4>1, <4>2
        <4>4. T \ {c, x} \in I
          BY <1>2
        <4>5. v[x] \in Int /\ v[c] \in Int /\ g[T \ {c, x}] \in Int
          BY <4>4
        <4> QED
          BY ONLY <3>2, <4>3, <4>5
      <3>4. \A x \in T : g[T] = v[x] + g[T \ {x}]
        BY <3>2, <3>3
      <3> QED
        BY <3>4
    <2> HIDE DEF B
    <2> QED
      BY ONLY <2>1, <2>2, SubsetSteps, IsFiniteSet(S)
  <1> QED
    BY <1>1, <1>2, <1>3 DEF Sums

\* A set has one sum, whatever the set it is taken as a part of.
LEMMA SumsAgree ==
    ASSUME NEW S, NEW v, NEW g, Sums(g, v, S), NEW T, NEW w, NEW h, Sums(h, w, T),
           NEW U \in SUBSET S, U \subseteq T, IsFiniteSet(U), \A x \in U : v[x] = w[x]
    PROVE  g[U] = h[U]
  <1> DEFINE B == {X \in SUBSET U : g[X] = h[X]}
  <1>1. {} \in B
    BY DEF Sums
  <1>2. ASSUME NEW X \in SUBSET U, X # {}, \A x \in X : X \ {x} \in B PROVE X \in B
    <2>1. PICK x \in X : TRUE
      BY <1>2
    <2>2. g[X] = v[x] + g[X \ {x}] /\ h[X] = w[x] + h[X \ {x}]
      BY <2>1 DEF Sums
    <2>3. g[X \ {x}] = h[X \ {x}] /\ v[x] = w[x]
      BY <1>2
    <2> QED
      BY <2>2, <2>3
  <1>3. B = SUBSET U
    <2> HIDE DEF B
    <2>1. B \in SUBSET SUBSET U
      BY DEF B
    <2> QED
      BY ONLY <1>1, <1>2, <2>1, SubsetSteps, IsFiniteSet(U)
  <1> QED
    BY <1>3

-----------------------------------------------------------------------------
(* How sums split *)

\* Two disjoint parts.
LEMMA SumsSplit ==
    ASSUME NEW S, NEW v \in [S -> Int], NEW g, Sums(g, v, S),
           NEW U \in SUBSET S, NEW W \in SUBSET S, IsFiniteSet(W), U \cap W = {}
    PROVE  g[U \cup W] = g[U] + g[W]
  <1> DEFINE B == {X \in SUBSET W : g[U \cup X] = g[U] + g[X]}
  <1>1. {} \in B
    <2>1. U \cup {} = U /\ g[U] \in Int /\ g[{}] = 0
      BY DEF Sums
    <2> QED
      BY <2>1
  <1>2. ASSUME NEW X \in SUBSET W, X # {}, \A x \in X : X \ {x} \in B PROVE X \in B
    <2>1. PICK x \in X : TRUE
      BY <1>2
    <2>2. g[X] = v[x] + g[X \ {x}] /\ g[U \cup X] = v[x] + g[(U \cup X) \ {x}]
      BY <2>1 DEF Sums
    <2>3. (U \cup X) \ {x} = U \cup (X \ {x})
      OBVIOUS
    <2>4. g[U \cup (X \ {x})] = g[U] + g[X \ {x}]
      BY <1>2
    <2>5. v[x] \in Int /\ g[U] \in Int /\ g[X \ {x}] \in Int
      BY DEF Sums
    <2>6. g[U \cup X] = v[x] + g[U \cup (X \ {x})]
      BY ONLY <2>2, <2>3
    <2>7. g[U \cup X] = g[U] + g[X]
      BY ONLY <2>2, <2>4, <2>5, <2>6
    <2> QED
      BY <2>7
  <1>3. B = SUBSET W
    <2> HIDE DEF B
    <2>1. B \in SUBSET SUBSET W
      BY DEF B
    <2> QED
      BY ONLY <1>1, <1>2, <2>1, SubsetSteps, IsFiniteSet(W)
  <1> QED
    BY <1>3

\* Elements that count nothing.
LEMMA SumsZero ==
    ASSUME NEW S, NEW v, NEW g, Sums(g, v, S),
           NEW U \in SUBSET S, IsFiniteSet(U), \A x \in U : v[x] = 0
    PROVE  g[U] = 0
  <1> DEFINE B == {X \in SUBSET U : g[X] = 0}
  <1>1. {} \in B
    BY DEF Sums
  <1>2. ASSUME NEW X \in SUBSET U, X # {}, \A x \in X : X \ {x} \in B PROVE X \in B
    <2>1. PICK x \in X : TRUE
      BY <1>2
    <2>2. g[X] = v[x] + g[X \ {x}]
      BY <2>1 DEF Sums
    <2>3. g[X \ {x}] = 0 /\ v[x] = 0
      BY <1>2
    <2> QED
      BY <2>2, <2>3
  <1>3. B = SUBSET U
    <2> HIDE DEF B
    <2>1. B \in SUBSET SUBSET U
      BY DEF B
    <2> QED
      BY ONLY <1>1, <1>2, <2>1, SubsetSteps, IsFiniteSet(U)
  <1> QED
    BY <1>3

\* Elements that count one each.
LEMMA SumsOnes ==
    ASSUME NEW S, NEW v, NEW g, Sums(g, v, S),
           NEW U \in SUBSET S, IsFiniteSet(U), \A x \in U : v[x] = 1
    PROVE  g[U] = Cardinality(U)
  <1> DEFINE B == {X \in SUBSET U : g[X] = Cardinality(X)}
  <1>1. {} \in B
    BY FS_EmptySet DEF Sums
  <1>2. ASSUME NEW X \in SUBSET U, X # {}, \A x \in X : X \ {x} \in B PROVE X \in B
    <2>1. PICK x \in X : TRUE
      BY <1>2
    <2>2. g[X] = v[x] + g[X \ {x}]
      BY <2>1 DEF Sums
    <2>3. g[X \ {x}] = Cardinality(X \ {x}) /\ v[x] = 1
      BY <1>2
    <2>4. IsFiniteSet(X) /\ Cardinality(X) \in Nat
      BY FS_Subset, FS_CardinalityType
    <2>5. Cardinality(X \ {x}) = Cardinality(X) - 1
      BY <2>4, FS_RemoveElement
    <2> QED
      BY <2>2, <2>3, <2>4, <2>5
  <1>3. B = SUBSET U
    <2> HIDE DEF B
    <2>1. B \in SUBSET SUBSET U
      BY DEF B
    <2> QED
      BY ONLY <1>1, <1>2, <2>1, SubsetSteps, IsFiniteSet(U)
  <1> QED
    BY <1>3

\* A sum over groups of the sums of each group is the sum over all.
LEMMA SumsGroup ==
    ASSUME NEW S, NEW v \in [S -> Int], NEW g, Sums(g, v, S),
           NEW M \in SUBSET S, IsFiniteSet(M), NEW key,
           NEW D, NEW w, NEW G, Sums(G, w, D),
           NEW K \in SUBSET D, IsFiniteSet(K), \A i \in M : key[i] \in K,
           NEW part, \A k \in K : part[k] \in SUBSET M,
           \A k \in K : \A i \in M : i \in part[k] <=> key[i] = k,
           \A k \in K : w[k] = g[part[k]]
    PROVE  G[K] = g[M]
  <1> DEFINE In(X) == {i \in M : key[i] \in X}
             B == {X \in SUBSET K : G[X] = g[In(X)]}
  <1>1. {} \in B
    <2>1. In({}) = {}
      OBVIOUS
    <2> QED
      BY <2>1 DEF Sums
  <1>2. ASSUME NEW X \in SUBSET K, X # {}, \A x \in X : X \ {x} \in B PROVE X \in B
    <2>1. PICK x \in X : TRUE
      BY <1>2
    <2>2. PICK R \in SUBSET S : R = {i \in M : key[i] \in X \ {x}}
      OBVIOUS
    <2>3. PICK E \in SUBSET S : E = {i \in M : key[i] = x} /\ E = part[x]
      <3>1. x \in K /\ part[x] \in SUBSET M
        BY <2>1
      <3>2. part[x] = {i \in M : key[i] = x}
        BY <3>1
      <3> QED
        BY <3>1, <3>2
    <2>4. R \cup E = In(X) /\ R \cap E = {}
      BY <2>1, <2>2, <2>3
    <2>5. G[X] = w[x] + G[X \ {x}]
      BY <2>1 DEF Sums
    <2>6. G[X \ {x}] = g[R] /\ w[x] = g[E]
      <3>1. x \in K
        BY <2>1
      <3> QED
        BY <1>2, <2>2, <2>3, <3>1
    <2>7. IsFiniteSet(E)
      BY <2>3, FS_Subset
    <2>8. g[R \cup E] = g[R] + g[E]
      <3>1. R \cap E = {}
        BY <2>4
      <3>2. R \in SUBSET S /\ E \in SUBSET S /\ v \in [S -> Int]
        OBVIOUS
      <3> QED
        BY ONLY <2>7, <3>1, <3>2, SumsSplit, Sums(g, v, S)
    <2>9. g[R] \in Int /\ g[E] \in Int
      BY DEF Sums
    <2>10. G[X] = g[R \cup E]
      BY ONLY <2>5, <2>6, <2>8, <2>9
    <2> QED
      BY <2>4, <2>10
  <1>3. B = SUBSET K
    <2> HIDE DEF B
    <2>1. B \in SUBSET SUBSET K
      BY DEF B
    <2> QED
      BY ONLY <1>1, <1>2, <2>1, SubsetSteps, IsFiniteSet(K)
  <1>4. In(K) = M
    OBVIOUS
  <1> QED
    BY <1>3, <1>4

\* Elements that count nothing may be left out.
LEMMA SumsRest ==
    ASSUME NEW S, NEW v \in [S -> Int], NEW g, Sums(g, v, S),
           NEW W \in SUBSET S, IsFiniteSet(W), NEW U \in SUBSET W,
           \A x \in W \ U : v[x] = 0
    PROVE  g[W] = g[U]
  <1>1. PICK R \in SUBSET S : R = W \ U
    OBVIOUS
  <1>2. U \in SUBSET S /\ U \cap R = {}
    BY <1>1
  <1>3. U \cup R = W
    BY <1>1
  <1>4. IsFiniteSet(R)
    BY <1>1, FS_Subset
  <1>5. g[U \cup R] = g[U] + g[R]
    BY ONLY <1>2, <1>4, SumsSplit, Sums(g, v, S)
  <1>6. g[R] = 0
    BY <1>1, <1>4, SumsZero
  <1>7. g[U] \in Int
    BY <1>2 DEF Sums
  <1>8. g[W] = g[U] + g[R]
    BY ONLY <1>3, <1>5
  <1> QED
    BY ONLY <1>6, <1>7, <1>8
=============================================================================
