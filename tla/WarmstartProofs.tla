--------------------------- MODULE WarmstartProofs ---------------------------
(***************************************************************************)
(* Theorems about the training, for every set of matrices, arms and        *)
(* records: accepted matrices are paired experiments, the trained agent is *)
(* a function of the records, and no arm is better than the fixed oracle   *)
(* by more than its totals were rounded.                                   *)
(*                                                                         *)
(* First what the definitions compute: sums and rounded means, places in   *)
(* an order, the jobs of a matrix and the order of training.  Then the     *)
(* invariant, WarmInv, and what follows from it.                           *)
(***************************************************************************)
EXTENDS Warmstart, FiniteSetTheorems, SequenceTheorems, WellFoundedInduction, TLAPS

-----------------------------------------------------------------------------
(* Induction, without a predicate as a parameter *)

(* A set of natural numbers has a least one.                                *)
LEMMA LeastNumber ==
  ASSUME NEW T \in SUBSET Nat, T # {}
  PROVE  \E x \in T : \A y \in T : x <= y
<1>1. PICK x \in T : \A y \in T : <<y, x>> \notin OpToRel(<, Nat)
  BY NatLessThanWellFounded, WFMin, Zenon
<1>2. ASSUME NEW y \in T PROVE ~(y < x)
  BY <1>1 DEF OpToRel
<1> QED
  BY <1>2

LEMMA SetInduction ==
  ASSUME NEW S, 0 \in S, \A n \in Nat : n \in S => n + 1 \in S
  PROVE  \A n \in Nat : n \in S
<1> DEFINE T == {n \in Nat : n \notin S}
<1> SUFFICES ASSUME T # {} PROVE FALSE
  OBVIOUS
<1>1. PICK n \in T : \A m \in T : n <= m
  BY LeastNumber
<1>2. n - 1 \in Nat /\ n - 1 \notin T
  BY <1>1
<1> QED
  BY <1>2

(* Every finite set is in F when each set is that is empty, or is in F      *)
(* without one of its elements.                                             *)
LEMMA SubsetInduction ==
  ASSUME NEW S, IsFiniteSet(S), NEW F, {} \in F,
         \A T \in SUBSET S : T # {} /\ (\A x \in T : T \ {x} \in F) => T \in F
  PROVE  \A T \in SUBSET S : T \in F
<1> DEFINE Sizes == {n \in Nat : \A T \in SUBSET S : Cardinality(T) = n => T \in F}
<1>1. \A T \in SUBSET S : IsFiniteSet(T) /\ Cardinality(T) \in Nat
  BY FS_Subset, FS_CardinalityType
<1>2. 0 \in Sizes
  BY <1>1, FS_EmptySet
<1>3. ASSUME NEW n \in Nat, n \in Sizes PROVE n + 1 \in Sizes
  <2> SUFFICES ASSUME NEW T \in SUBSET S, Cardinality(T) = n + 1 PROVE T \in F
    OBVIOUS
  <2>1. T # {}
    <3>1. Cardinality({}) = 0
      BY FS_EmptySet
    <3> QED BY <3>1
  <2>2. ASSUME NEW x \in T PROVE T \ {x} \in F
    <3>1. Cardinality(T \ {x}) = n
      BY <1>1, FS_RemoveElement
    <3> QED
      BY <1>3, <3>1
  <2> QED
    BY <2>1, <2>2
<1>4. \A n \in Nat : n \in Sizes
  <2> HIDE DEF Sizes
  <2> QED
    BY <1>2, <1>3, SetInduction
<1> QED
  BY <1>1, <1>4

-----------------------------------------------------------------------------
(* Sums over finite sets *)

(* g is the recursive sum of the weights w over the subsets of S.           *)
IsSum(g, w, S) ==
  g = [s \in SUBSET S |->
         IF s = {} THEN 0
         ELSE g[s \ {CHOOSE x \in s : TRUE}] + w[CHOOSE x \in s : TRUE]]

LEMMA SumExists ==
  ASSUME NEW S, IsFiniteSet(S), NEW w
  PROVE  \E g : IsSum(g, w, S)
<1> DEFINE Small(n) == {s \in SUBSET S : Cardinality(s) <= n}
           Pick(s) == CHOOSE x \in s : TRUE
           Sums(n) == \E g : g = [s \in Small(n) |->
                         IF s = {} THEN 0 ELSE g[s \ {Pick(s)}] + w[Pick(s)]]
           Defined == {n \in Nat : Sums(n)}
<1>1. \A s \in SUBSET S : IsFiniteSet(s) /\ Cardinality(s) \in Nat /\ Cardinality(s) <= Cardinality(S)
  BY FS_Subset, FS_CardinalityType
<1>2. \A s \in SUBSET S : s # {} =>
         /\ Pick(s) \in s /\ s \ {Pick(s)} \in SUBSET S
         /\ Cardinality(s \ {Pick(s)}) = Cardinality(s) - 1
  BY <1>1, FS_RemoveElement
<1>3. Sums(0)
  <2> DEFINE f == [s \in Small(0) |-> 0]
  <2>1. \A s \in Small(0) : s = {}
    BY <1>1, FS_EmptySet
  <2>2. f = [s \in Small(0) |-> IF s = {} THEN 0 ELSE f[s \ {Pick(s)}] + w[Pick(s)]]
    <3> HIDE DEF Pick
    <3> QED BY <2>1
  <2> HIDE DEF f
  <2> QED BY <2>2
<1>4. ASSUME NEW n \in Nat, Sums(n) PROVE Sums(n + 1)
  <2>1. PICK e : e = [s \in Small(n) |-> IF s = {} THEN 0 ELSE e[s \ {Pick(s)}] + w[Pick(s)]]
    BY <1>4
  <2> DEFINE f == [s \in Small(n + 1) |-> IF s = {} THEN 0 ELSE e[s \ {Pick(s)}] + w[Pick(s)]]
  <2>2. \A s \in Small(n + 1) : s # {} => s \ {Pick(s)} \in Small(n)
    BY <1>1, <1>2
  <2>3. \A s \in Small(n) : s \in Small(n + 1)
    BY <1>1
  <2> HIDE DEF Pick, Small
  <2>4. \A s \in Small(n) : f[s] = e[s]
    BY <2>1, <2>3
  <2>5. f = [s \in Small(n + 1) |-> IF s = {} THEN 0 ELSE f[s \ {Pick(s)}] + w[Pick(s)]]
    BY <2>2, <2>4
  <2> HIDE DEF f
  <2> QED BY <2>5
<1>5. \A n \in Nat : n \in Defined
  <2>1. 0 \in Defined
    BY <1>3
  <2>2. \A n \in Nat : n \in Defined => n + 1 \in Defined
    <3> HIDE DEF Sums
    <3> QED BY <1>4
  <2> HIDE DEF Defined
  <2> QED BY <2>1, <2>2, SetInduction
<1>6. Small(Cardinality(S)) = SUBSET S
  BY <1>1
<1>7. Sums(Cardinality(S))
  <2>1. Cardinality(S) \in Nat
    BY FS_CardinalityType
  <2> HIDE DEF Sums
  <2> QED BY <1>5, <2>1
<1>8. PICK g : g = [s \in Small(Cardinality(S)) |-> IF s = {} THEN 0 ELSE g[s \ {Pick(s)}] + w[Pick(s)]]
  BY <1>7
<1>9. g = [s \in SUBSET S |-> IF s = {} THEN 0 ELSE g[s \ {Pick(s)}] + w[Pick(s)]]
  <2> HIDE DEF Small, Pick
  <2> QED BY <1>6, <1>8
<1> QED
  BY <1>9 DEF IsSum

LEMMA SumTyped ==
  ASSUME NEW S, IsFiniteSet(S), NEW w, \A x \in S : w[x] \in Int, NEW g, IsSum(g, w, S)
  PROVE  \A s \in SUBSET S : g[s] \in Int
<1> DEFINE F == {s \in SUBSET S : g[s] \in Int}
<1>1. {} \in F
  BY DEF IsSum
<1>2. ASSUME NEW T \in SUBSET S, T # {}, \A x \in T : T \ {x} \in F
      PROVE  T \in F
  <2>1. PICK c \in T : g[T] = g[T \ {c}] + w[c]
    BY <1>2 DEF IsSum
  <2>2. g[T \ {c}] \in Int /\ w[c] \in Int
    BY <1>2
  <2> QED
    BY <2>1, <2>2
<1>3. \A T \in SUBSET S : T \in F
  <2> HIDE DEF F
  <2> QED BY <1>1, <1>2, SubsetInduction
<1> QED
  BY <1>3

(* It does not matter which element is taken first.                         *)
LEMMA SumPicks ==
  ASSUME NEW S, IsFiniteSet(S), NEW w, \A x \in S : w[x] \in Int, NEW g, IsSum(g, w, S)
  PROVE  /\ g[{}] = 0
         /\ \A s \in SUBSET S : g[s] \in Int
         /\ \A s \in SUBSET S : \A x \in s : g[s] = g[s \ {x}] + w[x]
<1> DEFINE Picks(s) == \A x \in s : g[s] = g[s \ {x}] + w[x]
           F == {s \in SUBSET S : Picks(s)}
<1>1. g[{}] = 0 /\ \A s \in SUBSET S : g[s] \in Int
  BY SumTyped DEF IsSum
<1>2. ASSUME NEW T \in SUBSET S, T # {}, \A x \in T : T \ {x} \in F
      PROVE  T \in F
  <2>1. PICK c \in T : g[T] = g[T \ {c}] + w[c]
    <3>1. T # {}
      BY <1>2
    <3> HIDE DEF F
    <3> QED BY <3>1 DEF IsSum
  <2>2. ASSUME NEW x \in T, x # c PROVE g[T] = g[T \ {x}] + w[x]
    <3>1. PICK R \in SUBSET S : R = (T \ {c}) \ {x} /\ R = (T \ {x}) \ {c}
      OBVIOUS
    <3>2. Picks(T \ {c}) /\ Picks(T \ {x})
      BY <1>2
    <3>3. g[T \ {c}] = g[R] + w[x] /\ g[T \ {x}] = g[R] + w[c]
      BY <2>2, <3>1, <3>2
    <3>4. g[R] \in Int /\ w[x] \in Int /\ w[c] \in Int
      BY <1>1
    <3> QED
      BY <2>1, <3>3, <3>4
  <2> QED
    BY <2>1, <2>2
<1>3. {} \in F
  BY <1>1
<1>4. \A T \in SUBSET S : T \in F
  <2> HIDE DEF F
  <2> QED BY <1>2, <1>3, SubsetInduction
<1> QED
  BY <1>1, <1>4

(* Total is such a sum.                                                     *)
AddsUp(g, w, S) ==
  /\ g[{}] = 0
  /\ \A s \in SUBSET S : g[s] \in Int
  /\ \A s \in SUBSET S : \A x \in s : g[s] = g[s \ {x}] + w[x]

LEMMA TotalIs ==
  ASSUME NEW S, IsFiniteSet(S), NEW w, \A x \in S : w[x] \in Int
  PROVE  \E g : AddsUp(g, w, S) /\ Total(w, S) = g[S]
<1> DEFINE h == CHOOSE g : IsSum(g, w, S)
<1>1. IsSum(h, w, S)
  BY SumExists
<1>2. Total(w, S) = h[S]
  BY DEF Total, FoldSet, MapThenFoldSet, IsSum
<1> HIDE DEF h
<1>3. AddsUp(h, w, S)
  BY <1>1, SumPicks DEF AddsUp
<1> QED
  BY <1>2, <1>3

(* A sum does not depend on what its terms are indexed by.                  *)
LEMMA Reindexed ==
  ASSUME NEW S, IsFiniteSet(S), NEW w, \A x \in S : w[x] \in Int,
         NEW T, NEW v, NEW F \in [S -> T], \A x, y \in S : F[x] = F[y] => x = y,
         T = {F[x] : x \in S}, \A x \in S : v[F[x]] = w[x]
  PROVE  Total(w, S) = Total(v, T) /\ Total(w, S) \in Int
<1> DEFINE Image(s) == {F[x] : x \in s}
<1>1. IsFiniteSet(T)
  <2>1. F \in Surjection(S, T)
    BY DEF Surjection
  <2> QED BY <2>1, FS_Surjection
<1>2. \A y \in T : v[y] \in Int
  OBVIOUS
<1>3. PICK g : AddsUp(g, w, S) /\ Total(w, S) = g[S]
  BY TotalIs
<1>4. PICK h : AddsUp(h, v, T) /\ Total(v, T) = h[T]
  BY <1>1, <1>2, TotalIs
<1> DEFINE G == {s \in SUBSET S : g[s] = h[Image(s)]}
<1>7. {} \in G
  BY <1>3, <1>4 DEF AddsUp
<1>8. ASSUME NEW s \in SUBSET S, s # {}, \A x \in s : s \ {x} \in G
      PROVE  s \in G
  <2>1. PICK x \in s : TRUE
    BY <1>8
  <2>2. Image(s) \in SUBSET T /\ F[x] \in Image(s) /\ Image(s) \ {F[x]} = Image(s \ {x})
    BY <2>1
  <2>3. g[s] = g[s \ {x}] + w[x] /\ g[s \ {x}] = h[Image(s \ {x})]
    BY <1>3, <1>8, <2>1 DEF AddsUp
  <2>4. h[Image(s)] = h[Image(s \ {x})] + v[F[x]]
    <3> HIDE DEF Image
    <3>1. h[Image(s)] = h[Image(s) \ {F[x]}] + v[F[x]]
      BY <1>4, <2>2, Zenon DEF AddsUp
    <3> QED BY <2>2, <3>1
  <2>5. v[F[x]] = w[x]
    BY <2>1
  <2> HIDE DEF Image
  <2> QED
    BY <2>3, <2>4, <2>5
<1>9. S \in G
  <2> HIDE DEF G
  <2> QED BY <1>7, <1>8, SubsetInduction
<1>10. Image(S) = T
  OBVIOUS
<1> QED
  <2>1. g[S] = h[Image(S)]
    BY <1>9
  <2> HIDE DEF Image
  <2> QED BY <1>3, <1>4, <1>10, <2>1 DEF AddsUp

-----------------------------------------------------------------------------
(* The best of a finite set, and ranks *)

Better(u, a, b) == u[a] > u[b] \/ (u[a] = u[b] /\ a <= b)

LEMMA HasBest ==
  ASSUME NEW A \in SUBSET Int, IsFiniteSet(A), A # {}, NEW u \in [A -> Int]
  PROVE  \E a \in A : \A b \in A : Better(u, a, b)
<1> DEFINE F == {T \in SUBSET A : T # {} => \E a \in T : \A b \in T : Better(u, a, b)}
<1>1. {} \in F
  OBVIOUS
<1>2. ASSUME NEW T \in SUBSET A, T # {}, \A x \in T : T \ {x} \in F
      PROVE  T \in F
  <2>1. PICK x \in T : TRUE
    BY <1>2
  <2>2. CASE T \ {x} = {}
    <3>1. \A b \in T : Better(u, x, b)
      BY <2>1, <2>2 DEF Better
    <3> QED BY <2>1, <3>1
  <2>3. CASE T \ {x} # {}
    <3>1. PICK y \in T \ {x} : \A b \in T \ {x} : Better(u, y, b)
      BY <1>2, <2>1, <2>3
    <3>2. CASE Better(u, y, x)
      <4>1. \A b \in T : Better(u, y, b)
        BY <3>1, <3>2
      <4> QED BY <3>1, <4>1
    <3>3. CASE ~Better(u, y, x)
      <4>1. Better(u, x, y) /\ Better(u, x, x)
        BY <2>1, <3>3 DEF Better
      <4>2. ASSUME NEW b \in T \ {x} PROVE Better(u, x, b)
        BY <2>1, <3>1, <4>1 DEF Better
      <4>3. \A b \in T : Better(u, x, b)
        BY <4>1, <4>2
      <4> QED BY <2>1, <4>3
    <3> QED BY <3>2, <3>3
  <2> QED BY <2>2, <2>3
<1>3. A \in F
  <2> HIDE DEF F
  <2> QED BY <1>1, <1>2, SubsetInduction
<1> QED
  BY <1>3

(* R orders S strictly.                                                     *)
Orders(R, S) ==
  /\ \A x \in S : <<x, x>> \notin R
  /\ \A x, y, z \in S : <<x, y>> \in R /\ <<y, z>> \in R => <<x, z>> \in R
  /\ \A x, y \in S : x # y => <<x, y>> \in R \/ <<y, x>> \in R

Before(R, S, x) == Cardinality({y \in S : <<y, x>> \in R})

(* Then each place is that of one element, and the places are in order.     *)
LEMMA Ranks ==
  ASSUME NEW S, IsFiniteSet(S), NEW R, Orders(R, S)
  PROVE  /\ Cardinality(S) \in Nat
         /\ \A x \in S : Before(R, S, x) \in 0 .. Cardinality(S) - 1
         /\ \A x, y \in S : <<x, y>> \in R <=> Before(R, S, x) < Before(R, S, y)
         /\ \A x, y \in S : Before(R, S, x) = Before(R, S, y) => x = y
         /\ \A i \in 0 .. Cardinality(S) - 1 : \E x \in S : Before(R, S, x) = i
<1> DEFINE N == Cardinality(S)
           B(x) == {y \in S : <<y, x>> \in R}
<1>1. N \in Nat
  BY FS_CardinalityType
<1>2. ASSUME NEW x \in S
      PROVE  IsFiniteSet(B(x)) /\ Before(R, S, x) = Cardinality(B(x)) /\ Before(R, S, x) \in 0 .. N - 1
  <2>1. B(x) \in SUBSET S /\ x \notin B(x)
    BY DEF Orders
  <2>2. IsFiniteSet(B(x)) /\ Cardinality(B(x)) <= N /\ (N = Cardinality(B(x)) => S = B(x))
    BY <2>1, FS_Subset
  <2>3. Cardinality(B(x)) \in Nat
    BY <2>2, FS_CardinalityType
  <2>4. Cardinality(B(x)) # N
    BY <2>1, <2>2
  <2>5. Before(R, S, x) = Cardinality(B(x))
    BY DEF Before
  <2> HIDE DEF B, N
  <2> QED
    BY <1>1, <2>2, <2>3, <2>4, <2>5
<1>3. ASSUME NEW x \in S, NEW y \in S, <<x, y>> \in R
      PROVE  Before(R, S, x) < Before(R, S, y)
  <2>1. B(x) \in SUBSET B(y) /\ x \in B(y) /\ x \notin B(x)
    BY <1>3 DEF Orders
  <2>2. Cardinality(B(x)) <= Cardinality(B(y)) /\ (Cardinality(B(y)) = Cardinality(B(x)) => B(y) = B(x))
    <3> HIDE DEF B
    <3> QED BY <1>2, <2>1, FS_Subset
  <2>3. Cardinality(B(x)) # Cardinality(B(y))
    <3> HIDE DEF B
    <3> QED BY <2>1, <2>2
  <2> HIDE DEF B, N
  <2> QED
    BY <1>1, <1>2, <2>2, <2>3
<1>4. \A x, y \in S : Before(R, S, x) = Before(R, S, y) => x = y
  <2> SUFFICES ASSUME NEW x \in S, NEW y \in S, x # y PROVE Before(R, S, x) # Before(R, S, y)
    OBVIOUS
  <2>1. <<x, y>> \in R \/ <<y, x>> \in R
    BY DEF Orders
  <2> HIDE DEF B, N
  <2> QED
    BY <1>1, <1>2, <1>3, <2>1
<1>5. ASSUME NEW x \in S, NEW y \in S, Before(R, S, x) < Before(R, S, y)
      PROVE  <<x, y>> \in R
  <2>1. x = y \/ <<x, y>> \in R \/ <<y, x>> \in R
    BY DEF Orders
  <2> HIDE DEF B, N
  <2> QED
    BY <1>1, <1>2, <1>3, <1>5, <2>1
<1>6. ASSUME NEW i \in 0 .. N - 1 PROVE \E x \in S : Before(R, S, x) = i
  <2> DEFINE f == [x \in S |-> Before(R, S, x)]
             T == 0 .. N - 1
  <2>1. IsFiniteSet(T) /\ Cardinality(T) = N
    <3>1. 0 \in Int /\ N - 1 \in Int
      BY <1>1
    <3> HIDE DEF N
    <3>2. IsFiniteSet(0 .. N - 1) /\ Cardinality(0 .. N - 1) = IF 0 > N - 1 THEN 0 ELSE N - 1 - 0 + 1
      BY <3>1, FS_Interval
    <3> QED
      BY <1>1, <3>2
  <2>2. f \in Injection(S, T)
    <3> HIDE DEF B, N
    <3> QED BY <1>2, <1>4 DEF Injection, IsInjective
  <2>3. f \in Surjection(S, T)
    <3> HIDE DEF f, T
    <3> QED BY <2>1, <2>2, FS_Injection
  <2> QED
    BY <2>3 DEF Surjection
<1> HIDE DEF B
<1> QED
  BY <1>1, <1>2, <1>3, <1>4, <1>5, <1>6
-----------------------------------------------------------------------------
(* Jobs of a matrix *)

LEMMA OrNoneIs ==
  ASSUME NEW m \in Matrices, MatrixIsValid(m)
  PROVE  /\ m.arms = <<>> => OrNone(m.arms, NoArmId) = <<NoArmId>>
         /\ m.arms # <<>> => OrNone(m.arms, NoArmId) = m.arms
         /\ m.conditions = <<>> => OrNone(m.conditions, NoName) = <<NoName>>
         /\ m.conditions # <<>> => OrNone(m.conditions, NoName) = m.conditions
         /\ IsInjective(OrNone(m.arms, NoArmId)) /\ IsInjective(OrNone(m.conditions, NoName))
  BY DEF OrNone, MatrixIsValid, SequencesAreValid, IsInjective

LEMMA DomainsFinite ==
  ASSUME NEW m \in Matrices
  PROVE  /\ IsFiniteSet(DOMAIN m.scenarios) /\ IsFiniteSet(DOMAIN m.seeds)
         /\ IsFiniteSet(DOMAIN m.policies) /\ IsFiniteSet(DOMAIN OrNone(m.arms, NoArmId))
         /\ IsFiniteSet(DOMAIN OrNone(m.conditions, NoName))
<1>1. ASSUME NEW T, NEW s \in Seq(T) PROVE IsFiniteSet(DOMAIN s)
  <2>1. DOMAIN s = 1 .. Len(s) /\ 1 \in Int /\ Len(s) \in Int
    OBVIOUS
  <2> QED BY <2>1, FS_Interval
<1>2. ASSUME NEW T, NEW s \in Seq(T), NEW none PROVE IsFiniteSet(DOMAIN OrNone(s, none))
  <2>1. <<none>> \in Seq({none})
    OBVIOUS
  <2> QED BY <1>1, <2>1 DEF OrNone
<1> QED
  BY <1>1, <1>2, MatrixAssumption

LEMMA IndicesFinite ==
  ASSUME NEW m \in Matrices
  PROVE  IsFiniteSet(Indices(m))
<1> DEFINE A == DOMAIN m.scenarios
           B == DOMAIN m.seeds
           C == DOMAIN m.policies
           D == DOMAIN OrNone(m.arms, NoArmId)
           E == DOMAIN OrNone(m.conditions, NoName)
           P == (A \X B) \X ((C \X D) \X E)
           f == [p \in P |-> <<p[1][1], p[1][2], p[2][1][1], p[2][1][2], p[2][2]>>]
<1>1. IsFiniteSet(A) /\ IsFiniteSet(B) /\ IsFiniteSet(C) /\ IsFiniteSet(D) /\ IsFiniteSet(E)
  BY DomainsFinite
<1>2. Indices(m) = A \X B \X C \X D \X E
  BY DEF Indices
<1> HIDE DEF A, B, C, D, E
<1>3. IsFiniteSet(P)
  <2>1. IsFiniteSet(A \X B) /\ IsFiniteSet(C \X D)
    BY <1>1, FS_Product
  <2>2. IsFiniteSet((C \X D) \X E)
    BY <1>1, <2>1, FS_Product
  <2> QED BY <2>1, <2>2, FS_Product
<1>4. f \in Surjection(P, Indices(m))
  <2>1. f \in [P -> A \X B \X C \X D \X E]
    OBVIOUS
  <2>2. ASSUME NEW x \in A \X B \X C \X D \X E PROVE \E p \in P : f[p] = x
    <3>1. /\ x[1] \in A /\ x[2] \in B /\ x[3] \in C /\ x[4] \in D /\ x[5] \in E
          /\ x = <<x[1], x[2], x[3], x[4], x[5]>>
      OBVIOUS
    <3> DEFINE p == <<<<x[1], x[2]>>, <<<<x[3], x[4]>>, x[5]>>>>
    <3>2. p \in P /\ f[p] = x
      BY <3>1
    <3> QED BY <3>2
  <2> HIDE DEF f, P
  <2> QED BY <1>2, <2>1, <2>2 DEF Surjection
<1> HIDE DEF f, P
<1> QED
  BY <1>3, <1>4, FS_Surjection

(* The loops meet no job twice.                                             *)
LEMMA JobOfIsInjective ==
  ASSUME NEW m \in Matrices, MatrixIsValid(m), NEW x \in Indices(m), NEW y \in Indices(m),
         JobOf(m, x) = JobOf(m, y)
  PROVE  x = y
<1>1. /\ m.scenarios[x[1]] = m.scenarios[y[1]] /\ m.seeds[x[2]] = m.seeds[y[2]]
      /\ m.policies[x[3]] = m.policies[y[3]]
      /\ OrNone(m.arms, NoArmId)[x[4]] = OrNone(m.arms, NoArmId)[y[4]]
      /\ OrNone(m.conditions, NoName)[x[5]] = OrNone(m.conditions, NoName)[y[5]]
  BY DEF JobOf
<1>2. /\ x[1] \in DOMAIN m.scenarios /\ y[1] \in DOMAIN m.scenarios
      /\ x[2] \in DOMAIN m.seeds /\ y[2] \in DOMAIN m.seeds
      /\ x[3] \in DOMAIN m.policies /\ y[3] \in DOMAIN m.policies
      /\ x[4] \in DOMAIN OrNone(m.arms, NoArmId) /\ y[4] \in DOMAIN OrNone(m.arms, NoArmId)
      /\ x[5] \in DOMAIN OrNone(m.conditions, NoName) /\ y[5] \in DOMAIN OrNone(m.conditions, NoName)
      /\ x = <<x[1], x[2], x[3], x[4], x[5]>> /\ y = <<y[1], y[2], y[3], y[4], y[5]>>
  BY DEF Indices
<1>3. x[1] = y[1]
  BY <1>1, <1>2 DEF MatrixIsValid, SequencesAreValid, Ids, IsInjective
<1>4. x[2] = y[2] /\ x[3] = y[3]
  BY <1>1, <1>2 DEF MatrixIsValid, SequencesAreValid, IsInjective
<1>5. x[4] = y[4] /\ x[5] = y[5]
  BY <1>1, <1>2, OrNoneIs DEF IsInjective
<1> QED
  BY <1>2, <1>3, <1>4, <1>5

LEMMA JobsCounted ==
  ASSUME NEW m \in Matrices, MatrixIsValid(m)
  PROVE  IsFiniteSet(Jobs(m)) /\ Cardinality(Jobs(m)) = Cardinality(Indices(m))
<1> DEFINE f == [x \in Indices(m) |-> JobOf(m, x)]
<1>1. f \in Surjection(Indices(m), Jobs(m))
  BY DEF Surjection, Jobs
<1>2. f \in Injection(Indices(m), Jobs(m))
  <2>1. f \in [Indices(m) -> Jobs(m)]
    BY DEF Jobs
  <2>2. \A x, y \in Indices(m) : f[x] = f[y] => x = y
    BY JobOfIsInjective
  <2> HIDE DEF f
  <2> QED BY <2>1, <2>2 DEF Injection, IsInjective
<1> HIDE DEF f
<1> QED
  BY <1>1, <1>2, IndicesFinite, FS_Surjection

(* Run ids tell the jobs of a matrix apart just when there are as many.     *)
LEMMA RunIdsCounted ==
  ASSUME NEW m \in Matrices, MatrixIsValid(m)
  PROVE  (\A j, k \in Jobs(m) : RunId(j) = RunId(k) => j = k)
            <=> Cardinality({RunId(j) : j \in Jobs(m)}) = Cardinality(Jobs(m))
<1> DEFINE T == {RunId(j) : j \in Jobs(m)}
           f == [j \in Jobs(m) |-> RunId(j)]
<1>1. f \in Surjection(Jobs(m), T)
  BY DEF Surjection
<1>2. f \in Injection(Jobs(m), T) <=> \A j, k \in Jobs(m) : RunId(j) = RunId(k) => j = k
  <2>1. f \in [Jobs(m) -> T] /\ DOMAIN f = Jobs(m) /\ \A j \in Jobs(m) : f[j] = RunId(j)
    OBVIOUS
  <2> HIDE DEF f, T
  <2> QED BY <2>1 DEF Injection, IsInjective
<1>3. IsFiniteSet(Jobs(m))
  BY JobsCounted
<1> HIDE DEF f
<1> QED
  BY <1>1, <1>2, <1>3, FS_Surjection

(* A valid matrix expands, but for the two things that its validators do    *)
(* not see.                                                                 *)
LEMMA ExpandsUnless ==
  ASSUME NEW m \in Matrices, MatrixIsValid(m),
         \A i \in DOMAIN m.scenarios : FitsSchedule(m.scenarios[i], m.rounds),
         \A j, k \in Jobs(m) : RunId(j) = RunId(k) => j = k
  PROVE  Expands(m)
<1>1. ASSUME NEW j \in Jobs(m) PROVE JobIsValid(j)
  <2>1. PICK x \in Indices(m) : j = JobOf(m, x)
    BY DEF Jobs
  <2>2. /\ x[1] \in DOMAIN m.scenarios /\ x[3] \in DOMAIN m.policies
        /\ x[4] \in DOMAIN OrNone(m.arms, NoArmId) /\ x[5] \in DOMAIN OrNone(m.conditions, NoName)
    BY DEF Indices
  <2>3. /\ j.rounds = m.rounds /\ j.scenario = m.scenarios[x[1]] /\ j.policy = m.policies[x[3]]
        /\ j.arm = OrNone(m.arms, NoArmId)[x[4]] /\ j.ablation = OrNone(m.conditions, NoName)[x[5]]
    BY <2>1 DEF JobOf
  <2>4. FitsSchedule(j.scenario, j.rounds)
    BY <2>2, <2>3
  <2>5. m.arms = <<>> => j.arm = NoArmId /\ j.policy # "pretrain_arm"
    BY <2>2, <2>3, OrNoneIs DEF MatrixIsValid, FactorsAreValid, ToSet
  <2>6. m.arms # <<>> => j.arm \in Arm /\ j.policy = "pretrain_arm" /\ m.conditions = <<>>
    BY <2>2, <2>3, OrNoneIs DEF MatrixIsValid, SequencesAreValid, FactorsAreValid, ToSet
  <2>7. m.conditions = <<>> => j.ablation = NoName
    BY <2>2, <2>3, OrNoneIs
  <2>8. m.conditions # <<>> => j.policy = "adaptive_db_lbt"
    BY <2>2, <2>3 DEF MatrixIsValid, FactorsAreValid
  <2>9. NoArmId \notin Arm
    BY ExperimentAssumption DEF NoArmId
  <2> QED
    BY <2>4, <2>5, <2>6, <2>7, <2>8, <2>9 DEF JobIsValid
<1> QED
  BY <1>1, JobsCounted, RunIdsCounted DEF Expands

(* The queue is the jobs, each once.                                        *)
LEMMA QueueIsJobs ==
  ASSUME NEW m \in Matrices, MatrixIsValid(m), Expands(m)
  PROVE  /\ ExpandMatrix(m) \in Seq(Jobs(m)) /\ IsInjective(ExpandMatrix(m))
         /\ ToSet(ExpandMatrix(m)) = Jobs(m)
         /\ \A j, k \in Jobs(m) : RunId(j) = RunId(k) => j = k
<1> DEFINE J == Jobs(m)
           R == {p \in J \X J : RunId(p[1]) < RunId(p[2])}
           Q == ExpandMatrix(m)
           N == Cardinality(J)
<1>1. IsFiniteSet(J) /\ \A j \in J : RunId(j) \in Nat
  BY JobsCounted, ContentsAssumption
<1>2. \A j, k \in J : RunId(j) = RunId(k) => j = k
  BY RunIdsCounted DEF Expands
<1>3. \A j, k \in J : <<j, k>> \in R <=> RunId(j) < RunId(k)
  OBVIOUS
<1>4. Q = [i \in 1 .. N |-> CHOOSE j \in J : Cardinality({k \in J : RunId(k) < RunId(j)}) = i - 1]
  BY DEF ExpandMatrix
<1> HIDE DEF J, R, Q
<1>5. Orders(R, J)
  BY <1>1, <1>2, <1>3 DEF Orders
<1>6. \A j \in J : Before(R, J, j) = Cardinality({k \in J : RunId(k) < RunId(j)})
  <2> SUFFICES ASSUME NEW j \in J
               PROVE  {k \in J : <<k, j>> \in R} = {k \in J : RunId(k) < RunId(j)}
    BY DEF Before
  <2> QED BY <1>3
<1>7. Q = [i \in 1 .. N |-> CHOOSE j \in J : Before(R, J, j) = i - 1]
  BY <1>4, <1>6
<1>8. /\ N \in Nat
      /\ \A j \in J : Before(R, J, j) \in 0 .. N - 1
      /\ \A j, k \in J : Before(R, J, j) = Before(R, J, k) => j = k
      /\ \A i \in 0 .. N - 1 : \E j \in J : Before(R, J, j) = i
  BY <1>1, <1>5, Ranks
<1> HIDE DEF N
<1>9. ASSUME NEW i \in 1 .. N PROVE Q[i] \in J /\ Before(R, J, Q[i]) = i - 1
  <2>1. i - 1 \in 0 .. N - 1
    BY <1>8
  <2> QED BY <1>7, <1>8, <2>1
<1>10. DOMAIN Q = 1 .. N /\ Q \in Seq(J)
  BY <1>7, <1>8, <1>9
<1>11. IsInjective(Q)
  <2> SUFFICES ASSUME NEW i \in 1 .. N, NEW k \in 1 .. N, Q[i] = Q[k] PROVE i = k
    BY <1>10 DEF IsInjective
  <2>1. i - 1 = k - 1
    BY <1>9
  <2> QED BY <2>1
<1>12. ASSUME NEW j \in J PROVE j \in ToSet(Q)
  <2>1. Before(R, J, j) + 1 \in 1 .. N
    BY <1>8
  <2> DEFINE i == Before(R, J, j) + 1
  <2>2. i \in 1 .. N /\ i - 1 = Before(R, J, j)
    BY <1>8, <2>1
  <2>3. Q[i] = j
    <3> HIDE DEF i
    <3> QED BY <1>8, <1>9, <2>2
  <2> QED BY <1>10, <2>2, <2>3 DEF ToSet
<1>13. ToSet(Q) = J
  BY <1>9, <1>10, <1>12 DEF ToSet
<1> QED
  BY <1>2, <1>10, <1>11, <1>13 DEF J, Q
-----------------------------------------------------------------------------
(* The invariant *)

(* The stages of the training, and those after its last step.               *)
Learned == {"trained", "saved", "failed"}
Training == {"read", "learn"} \cup Learned

(* One sample of each, in the order of training.                            *)
IsCanonical(s) == \A i, k \in DOMAIN s : i < k => Precedes(s[i], s[k])

Row(j) == <<j.seed, j.arm, j.scenario.id, given[j].utility>>

(* What is known of the matrix where the computation has come.              *)
MatrixInv ==
  /\ matrix \in Matrices
  /\ stage \notin {"matrix", "rejected"} => MatrixIsValid(matrix)
  /\ stage = "raised" => ~Expands(matrix)
  /\ stage \in Training \cup {"expanded"} => Expands(matrix)
  /\ stage = "expanded" => queue = ExpandMatrix(matrix)
  /\ stage \in Training => IsPretraining(matrix)

(* What was read is what the records held, each job is read once, and no    *)
(* scenario is missing once all are.                                        *)
ReadInv ==
  /\ stage \in {"matrix", "expand"} => given = <<>> /\ samples = <<>> /\ utilities = {}
  /\ stage = "read" =>
        /\ queue \in Seq(Jobs(matrix)) /\ IsInjective(queue)
        /\ ToSet(queue) \cap DOMAIN given = {}
        /\ samples \in Seq(LocalSample) /\ ToSet(samples) = GivenSamples
  /\ stage \in Training =>
        /\ DOMAIN given \subseteq Jobs(matrix)
        /\ \A j \in DOMAIN given : given[j] \in Contents(j) /\ IsUsable(given[j], j)
        /\ utilities = {Row(j) : j \in DOMAIN given}
  /\ stage \in Training \ {"read"} =>
        \A seed \in PretrainingSeeds, a \in Arm :
           ScenariosOf(seed, a) = ToSet(Ids(matrix.scenarios))

(* What an arm has learned and what is left are the samples of the records, *)
(* and all that is left comes after all that was learned.                   *)
LearnInv ==
  /\ stage \notin Learned \cup {"learn"} => agent = Untrained
  /\ stage \in Learned \cup {"learn"} =>
        /\ agent \in [Arm -> Seq(LocalSample)] /\ samples \in Seq(LocalSample)
        /\ IsCanonical(samples)
        /\ \A a \in Arm :
              /\ IsCanonical(agent[a])
              /\ \A i \in DOMAIN agent[a], k \in DOMAIN samples : Precedes(agent[a][i], samples[k])
              /\ ToSet(agent[a]) \cup {s \in ToSet(samples) : s.arm = a} = {s \in GivenSamples : s.arm = a}
        /\ \A s \in GivenSamples : \A q \in 0 .. s.sequence :
              \E t \in GivenSamples : t.node = s.node /\ t.sequence = q
  /\ stage \in Learned => samples = <<>> /\ oracle = FixedOracle

(* Only what was saved is loaded, and nothing is learned after that.        *)
DeployInv ==
  /\ IsLoadable(file) => stage = "saved" /\ file.state = agent
  /\ \A n \in Contender : deployed[n] # Nothing => stage = "saved" /\ deployed[n] = agent

WarmInv == MatrixInv /\ ReadInv /\ LearnInv /\ DeployInv

-----------------------------------------------------------------------------
(* Paired experiments *)

PairedIn(J, j, k) ==
  /\ IF j.scenario = k.scenario /\ j.seed = k.seed
     THEN \A stream \in StreamSeeds(j) \ StreamSeeds(k) :
             /\ IsPerturbation(stream)
             /\ j.policy \in AdaptivePolicies /\ k.policy \notin AdaptivePolicies
     ELSE StreamSeeds(j) \cap StreamSeeds(k) = {}
  /\ \E l \in J : l.scenario = j.scenario /\ l.seed = j.seed /\ Factors(l) = Factors(k)

LEMMA JobsArePaired ==
  ASSUME NEW m \in Matrices, NEW j \in Jobs(m), NEW k \in Jobs(m)
  PROVE  PairedIn(Jobs(m), j, k)
<1>1. ASSUME j.scenario = k.scenario, j.seed = k.seed, NEW x \in StreamSeeds(j) \ StreamSeeds(k)
      PROVE  /\ IsPerturbation(x)
             /\ j.policy \in AdaptivePolicies /\ k.policy \notin AdaptivePolicies
  <2>1. PairKey(j) = PairKey(k)
    BY <1>1 DEF PairKey
  <2>2. x \in {<<PairKey(j), n, <<"interruption_perturbation", 0>>>> : n \in Perturbed(j)}
    BY <1>1, <2>1 DEF StreamSeeds
  <2>3. PICK n \in Perturbed(j) : x = <<PairKey(j), n, <<"interruption_perturbation", 0>>>>
    BY <2>2
  <2>4. n \notin Perturbed(k)
    BY <1>1, <2>1, <2>3 DEF StreamSeeds
  <2> QED
    BY <1>1, <2>3, <2>4 DEF Perturbed, IsPerturbation
<1>2. ASSUME ~(j.scenario = k.scenario /\ j.seed = k.seed)
      PROVE  StreamSeeds(j) \cap StreamSeeds(k) = {}
  <2>1. PairKey(j) # PairKey(k)
    BY <1>2 DEF PairKey
  <2>2. ASSUME NEW x \in StreamSeeds(j) PROVE x[1] = PairKey(j)
    BY DEF StreamSeeds
  <2>3. ASSUME NEW x \in StreamSeeds(k) PROVE x[1] = PairKey(k)
    BY DEF StreamSeeds
  <2> QED BY <2>1, <2>2, <2>3
<1>3. \E l \in Jobs(m) : l.scenario = j.scenario /\ l.seed = j.seed /\ Factors(l) = Factors(k)
  <2>1. PICK x \in Indices(m) : j = JobOf(m, x)
    BY DEF Jobs
  <2>2. PICK y \in Indices(m) : k = JobOf(m, y)
    BY DEF Jobs
  <2> DEFINE z == <<x[1], x[2], y[3], y[4], y[5]>>
  <2>3. z \in Indices(m)
    BY DEF Indices
  <2>4. JobOf(m, z) \in Jobs(m)
    BY <2>3 DEF Jobs
  <2>5. JobOf(m, z).scenario = j.scenario /\ JobOf(m, z).seed = j.seed
    BY <2>1 DEF JobOf
  <2>6. Factors(JobOf(m, z)) = Factors(k)
    BY <2>2 DEF JobOf, Factors
  <2> QED BY <2>4, <2>5, <2>6
<1> QED
  BY <1>1, <1>2, <1>3 DEF PairedIn

LEMMA PairedByInvariant ==
  ASSUME MatrixInv
  PROVE  AcceptedIsPaired
<1>1. ASSUME stage = "raised"
      PROVE  \/ \E i \in DOMAIN matrix.scenarios : ~FitsSchedule(matrix.scenarios[i], matrix.rounds)
             \/ \E j, k \in Jobs(matrix) : j # k /\ RunId(j) = RunId(k)
  BY <1>1, ExpandsUnless DEF MatrixInv
<1>2. ASSUME stage = "expanded"
      PROVE  \A j, k \in ToSet(queue) : PairedIn(ToSet(queue), j, k)
  <2>1. ToSet(queue) = Jobs(matrix) /\ matrix \in Matrices
    BY <1>2, QueueIsJobs DEF MatrixInv
  <2> QED BY <2>1, JobsArePaired
<1> QED
  BY <1>1, <1>2 DEF AcceptedIsPaired, PairedIn

-----------------------------------------------------------------------------
(* The jobs of a pretraining matrix *)

LEMMA TrainingJob ==
  ASSUME NEW m \in Matrices, MatrixIsValid(m), IsPretraining(m), NEW j \in Jobs(m)
  PROVE  /\ j.arm \in Arm /\ j.arm # NoArmId
         /\ RunId(j) \in Nat
         /\ Contents(j) \subseteq [complete : BOOLEAN, utility : Float, samples : Seq(LocalSample)]
<1>1. m.arms # <<>>
  BY ExperimentAssumption DEF IsPretraining, ToSet
<1>2. j.arm \in Arm
  BY <1>1, OrNoneIs DEF Jobs, JobOf, Indices, IsPretraining, ToSet
<1>3. j.arm # NoArmId
  BY <1>2, ExperimentAssumption DEF NoArmId
<1> QED
  BY <1>2, <1>3, ContentsAssumption

(* A seed, an arm and a scenario tell them apart.                           *)
LEMMA TrainingJobIs ==
  ASSUME NEW m \in Matrices, MatrixIsValid(m), IsPretraining(m), NEW j \in Jobs(m), NEW k \in Jobs(m),
         j.seed = k.seed, j.arm = k.arm, j.scenario.id = k.scenario.id
  PROVE  j = k
<1>1. PICK x \in Indices(m) : j = JobOf(m, x)
  BY DEF Jobs
<1>2. PICK y \in Indices(m) : k = JobOf(m, y)
  BY DEF Jobs
<1>3. /\ x[1] \in DOMAIN m.scenarios /\ y[1] \in DOMAIN m.scenarios
      /\ x[3] \in DOMAIN m.policies /\ y[3] \in DOMAIN m.policies
      /\ x[5] \in DOMAIN OrNone(m.conditions, NoName) /\ y[5] \in DOMAIN OrNone(m.conditions, NoName)
  BY DEF Indices
<1>4. m.policies = <<"pretrain_arm">> /\ OrNone(m.conditions, NoName) = <<NoName>>
  BY OrNoneIs DEF IsPretraining
<1>5. x[3] = y[3] /\ x[5] = y[5]
  BY <1>3, <1>4
<1>6. m.scenarios[x[1]].id = m.scenarios[y[1]].id
  BY <1>1, <1>2 DEF JobOf
<1>7. x[1] = y[1]
  BY <1>3, <1>6 DEF MatrixIsValid, SequencesAreValid, Ids, IsInjective
<1>8. /\ m.seeds[x[2]] = m.seeds[y[2]]
      /\ OrNone(m.arms, NoArmId)[x[4]] = OrNone(m.arms, NoArmId)[y[4]]
  BY <1>1, <1>2 DEF JobOf
<1> QED
  BY <1>1, <1>2, <1>5, <1>7, <1>8 DEF JobOf

-----------------------------------------------------------------------------
(* The order of training *)

SameKey(s, t) == s.seed = t.seed /\ s.node = t.node /\ s.sequence = t.sequence

LEMMA SampleFields ==
  ASSUME NEW s \in LocalSample
  PROVE  /\ s.seed \in Nat /\ s.arm \in Nat /\ s.sequence \in Nat
         /\ s.node[1] \in Nat /\ s.node[2] \in Nat /\ s.node = <<s.node[1], s.node[2]>>
  BY DEF LocalSample

LEMMA PrecedesOrders ==
  ASSUME NEW s \in LocalSample, NEW t \in LocalSample
  PROVE  /\ ~Precedes(s, s)
         /\ \A u \in LocalSample : Precedes(s, t) /\ Precedes(t, u) => Precedes(s, u)
         /\ ~SameKey(s, t) => Precedes(s, t) \/ Precedes(t, s)
<1>1. ~Precedes(s, s)
  BY SampleFields DEF Precedes
<1>2. ASSUME NEW u \in LocalSample, Precedes(s, t), Precedes(t, u) PROVE Precedes(s, u)
  BY <1>2, SampleFields DEF Precedes
<1>3. ASSUME ~SameKey(s, t) PROVE Precedes(s, t) \/ Precedes(t, s)
  BY <1>3, SampleFields DEF Precedes, SameKey
<1> QED
  BY <1>1, <1>2, <1>3

LEMMA CanonicalOrders ==
  ASSUME NEW s \in Seq(LocalSample), \A i, k \in DOMAIN s : i # k => ~SameKey(s[i], s[k])
  PROVE  /\ Canonical(s) \in Seq(LocalSample)
         /\ IsCanonical(Canonical(s))
         /\ ToSet(Canonical(s)) = ToSet(s)
<1> DEFINE D == DOMAIN s
           R == {p \in D \X D : Precedes(s[p[1]], s[p[2]])}
           C == Canonical(s)
           N == Len(s)
<1>1. N \in Nat /\ D = 1 .. N /\ \A i \in D : s[i] \in LocalSample
  BY ElementOfSeq
<1>2. IsFiniteSet(D) /\ Cardinality(D) = N
  <2>1. 1 \in Int /\ N \in Int
    BY <1>1
  <2>2. IsFiniteSet(1 .. N) /\ Cardinality(1 .. N) = IF 1 > N THEN 0 ELSE N - 1 + 1
    <3> HIDE DEF N
    <3> QED BY <2>1, FS_Interval
  <2> HIDE DEF N, D
  <2> QED BY <1>1, <2>2
<1>3. \A i, k \in D : <<i, k>> \in R <=> Precedes(s[i], s[k])
  OBVIOUS
<1>4. C = [i \in D |-> s[CHOOSE k \in D : Cardinality({l \in D : Precedes(s[l], s[k])}) = i - 1]]
  BY DEF Canonical
<1>5. \A i, k \in D : i # k => ~SameKey(s[i], s[k])
  OBVIOUS
<1> HIDE DEF D, R, C, N
<1>6. Orders(R, D)
  <2>1. \A i \in D : <<i, i>> \notin R
    BY <1>1, <1>3, PrecedesOrders
  <2>2. ASSUME NEW i \in D, NEW k \in D, NEW l \in D, <<i, k>> \in R, <<k, l>> \in R
        PROVE  <<i, l>> \in R
    <3>1. s[i] \in LocalSample /\ s[k] \in LocalSample /\ s[l] \in LocalSample
      BY <1>1
    <3>2. Precedes(s[i], s[k]) /\ Precedes(s[k], s[l])
      BY <1>3, <2>2
    <3>3. Precedes(s[i], s[l])
      BY <3>1, <3>2, PrecedesOrders
    <3> QED BY <1>3, <3>3
  <2>3. ASSUME NEW i \in D, NEW k \in D, i # k PROVE <<i, k>> \in R \/ <<k, i>> \in R
    <3>1. s[i] \in LocalSample /\ s[k] \in LocalSample /\ ~SameKey(s[i], s[k])
      BY <1>1, <1>5, <2>3
    <3> QED BY <1>3, <3>1, PrecedesOrders
  <2> QED BY <2>1, <2>2, <2>3 DEF Orders
<1>7. \A k \in D : Before(R, D, k) = Cardinality({l \in D : Precedes(s[l], s[k])})
  <2> SUFFICES ASSUME NEW k \in D
               PROVE  {l \in D : <<l, k>> \in R} = {l \in D : Precedes(s[l], s[k])}
    BY DEF Before
  <2> QED BY <1>3
<1> DEFINE P == [i \in D |-> CHOOSE k \in D : Cardinality({l \in D : Precedes(s[l], s[k])}) = i - 1]
<1>8. C = [i \in D |-> s[P[i]]]
  BY <1>4
<1>9. P = [i \in D |-> CHOOSE k \in D : Before(R, D, k) = i - 1]
  BY <1>7
<1> HIDE DEF P
<1>10. /\ \A k \in D : Before(R, D, k) \in 0 .. N - 1
       /\ \A i, k \in D : <<i, k>> \in R <=> Before(R, D, i) < Before(R, D, k)
       /\ \A i, k \in D : Before(R, D, i) = Before(R, D, k) => i = k
       /\ \A i \in 0 .. N - 1 : \E k \in D : Before(R, D, k) = i
  BY <1>2, <1>6, Ranks
<1>11. ASSUME NEW i \in D PROVE P[i] \in D /\ Before(R, D, P[i]) = i - 1
  <2>1. i - 1 \in 0 .. N - 1
    BY <1>1
  <2>2. \E k \in D : Before(R, D, k) = i - 1
    BY <1>10, <2>1
  <2> QED BY <1>9, <2>2
<1>12. C \in Seq(LocalSample) /\ DOMAIN C = D
  <2>1. C \in [1 .. N -> LocalSample]
    BY <1>1, <1>8, <1>11
  <2> QED BY <1>1, <2>1, SeqDef
<1>13. ASSUME NEW i \in D, NEW k \in D, i < k PROVE Precedes(C[i], C[k])
  <2>1. Before(R, D, P[i]) < Before(R, D, P[k])
    BY <1>1, <1>11, <1>13
  <2>2. Precedes(s[P[i]], s[P[k]])
    BY <1>3, <1>10, <1>11, <2>1
  <2> QED BY <1>8, <2>2
<1>14. ASSUME NEW k \in D PROVE \E i \in D : C[i] = s[k]
  <2> DEFINE i == Before(R, D, k) + 1
  <2>1. i \in D /\ i - 1 = Before(R, D, k)
    BY <1>1, <1>10
  <2>2. P[i] = k
    <3> HIDE DEF i
    <3> QED BY <1>10, <1>11, <2>1
  <2> QED BY <1>8, <2>1, <2>2
<1>15. {C[i] : i \in D} = {s[i] : i \in D}
  BY <1>8, <1>11, <1>14
<1> QED
  BY <1>12, <1>13, <1>15 DEF IsCanonical, ToSet, C, D

(* What was accepted holds no sample twice, and leaves none out.            *)
LEMMA WholeIsContinuous ==
  ASSUME samples \in Seq(LocalSample), InputsAreWhole
  PROVE  /\ \A i, k \in DOMAIN samples : i # k => ~SameKey(samples[i], samples[k])
         /\ \A s \in ToSet(samples) : \A q \in 0 .. s.sequence :
               \E t \in ToSet(samples) : t.node = s.node /\ t.sequence = q
<1> DEFINE D == DOMAIN samples
           P(i) == PlacesOf(samples[i])
           T(i) == 0 .. Cardinality(P(i)) - 1
<1>1. IsFiniteSet(D) /\ \A i \in D : samples[i] \in LocalSample
  <2>1. D = 1 .. Len(samples) /\ 1 \in Int /\ Len(samples) \in Int
    OBVIOUS
  <2> QED BY <2>1, FS_Interval, ElementOfSeq
<1>2. ASSUME NEW i \in D
      PROVE  /\ P(i) \in SUBSET D /\ i \in P(i) /\ IsFiniteSet(P(i)) /\ Cardinality(P(i)) \in Nat
             /\ {samples[l].sequence : l \in P(i)} = T(i)
             /\ \A k \in P(i) : samples[k].node = samples[i].node
             /\ \A k \in D : SameKey(samples[i], samples[k]) => k \in P(i)
  <2>1. P(i) \in SUBSET D /\ i \in P(i) /\ \A k \in P(i) : samples[k].node = samples[i].node
    BY DEF PlacesOf
  <2>2. IsFiniteSet(P(i)) /\ Cardinality(P(i)) \in Nat
    BY <1>1, <2>1, FS_Subset, FS_CardinalityType
  <2>3. {samples[l].sequence : l \in P(i)} = T(i)
    BY DEF InputsAreWhole, IsContinuous
  <2>4. \A k \in D : SameKey(samples[i], samples[k]) => k \in P(i)
    BY DEF PlacesOf, SameKey
  <2> QED BY <2>1, <2>2, <2>3, <2>4
<1> HIDE DEF P
<1>3. ASSUME NEW i \in D, NEW k \in D, i # k, SameKey(samples[i], samples[k]) PROVE FALSE
  <2> DEFINE f == [l \in P(i) |-> samples[l].sequence]
  <2>1. IsFiniteSet(T(i)) /\ Cardinality(T(i)) = Cardinality(P(i))
    <3> DEFINE n == Cardinality(P(i))
    <3>1. n \in Nat /\ 0 \in Int /\ n - 1 \in Int
      BY <1>2
    <3> HIDE DEF n
    <3>2. IsFiniteSet(0 .. n - 1) /\ Cardinality(0 .. n - 1) = IF 0 > n - 1 THEN 0 ELSE n - 1 - 0 + 1
      BY <3>1, FS_Interval
    <3> QED BY <3>1, <3>2 DEF n
  <2>2. f \in Surjection(P(i), T(i))
    <3>1. {f[l] : l \in P(i)} = T(i)
      BY <1>2
    <3> HIDE DEF T
    <3> QED BY <3>1 DEF Surjection
  <2>3. f \in Injection(P(i), T(i))
    <3> HIDE DEF f, T
    <3> QED BY <1>2, <2>1, <2>2, FS_Surjection
  <2>4. i \in P(i) /\ k \in P(i) /\ f[i] = f[k]
    BY <1>2, <1>3 DEF SameKey
  <2> HIDE DEF f, T
  <2> QED BY <1>3, <2>3, <2>4 DEF Injection, IsInjective
<1>4. ASSUME NEW i \in D, NEW q \in 0 .. samples[i].sequence
      PROVE  \E l \in D : samples[l].node = samples[i].node /\ samples[l].sequence = q
  <2>1. samples[i].sequence \in T(i)
    BY <1>2
  <2>2. q \in T(i)
    <3>1. samples[i].sequence \in Nat
      BY <1>1 DEF LocalSample
    <3> QED BY <1>2, <2>1, <3>1
  <2> QED BY <1>2, <2>2
<1> QED
  BY <1>3, <1>4 DEF ToSet

-----------------------------------------------------------------------------
(* The invariant holds: the matrix and the files *)

LEMMA InitInv == WarmInit => WarmInv
<1> SUFFICES ASSUME WarmInit PROVE WarmInv
  OBVIOUS
<1>1. MatrixInv
  BY DEF WarmInit, MatrixInv, Training, Learned
<1>2. ReadInv
  BY DEF WarmInit, ReadInv, Training, Learned
<1>3. LearnInv
  BY DEF WarmInit, LearnInv, Learned
<1>4. DeployInv
  BY WarmstartAssumption DEF WarmInit, DeployInv, IsLoadable, Archive
<1> QED
  BY <1>1, <1>2, <1>3, <1>4 DEF WarmInv

LEMMA MatrixStep == MatrixInv /\ [WarmNext]_warmVars => MatrixInv'
<1> SUFFICES ASSUME MatrixInv, [WarmNext]_warmVars PROVE MatrixInv'
  OBVIOUS
<1> USE DEF MatrixInv, Training, Learned
<1>1. CASE Load
  BY <1>1 DEF Load, Ends
<1>2. CASE Expand
  BY <1>2 DEF Expand, Ends
<1>3. CASE ReadJob
  BY <1>3 DEF ReadJob, Ends
<1>4. CASE EndRead
  BY <1>4 DEF EndRead, Ends
<1>5. CASE Learn
  BY <1>5 DEF Learn
<1>6. CASE FitOracle
  BY <1>6 DEF FitOracle, Ends
<1>7. CASE Save
  BY <1>7 DEF Save, Ends
<1>8. CASE Deploy
  BY <1>8 DEF Deploy
<1>9. CASE UNCHANGED warmVars
  BY <1>9 DEF warmVars
<1> QED
  BY <1>1, <1>2, <1>3, <1>4, <1>5, <1>6, <1>7, <1>8, <1>9 DEF WarmNext

LEMMA DeployStep == LearnInv /\ DeployInv /\ [WarmNext]_warmVars => DeployInv'
<1> SUFFICES ASSUME LearnInv, DeployInv, [WarmNext]_warmVars PROVE DeployInv'
  OBVIOUS
<1> USE DEF DeployInv
<1>1. CASE Load
  BY <1>1 DEF Load, Ends, IsLoadable
<1>2. CASE Expand
  BY <1>2 DEF Expand, Ends, IsLoadable
<1>3. CASE ReadJob
  BY <1>3 DEF ReadJob, Ends, IsLoadable
<1>4. CASE EndRead
  BY <1>4 DEF EndRead, Ends, IsLoadable
<1>5. CASE Learn
  BY <1>5 DEF Learn, IsLoadable
<1>6. CASE FitOracle
  BY <1>6 DEF FitOracle, Ends, IsLoadable
<1>7. CASE Save
  <2>1. Archive(agent).state = agent
    BY DEF Archive
  <2> QED BY <1>7, <2>1 DEF Save, Ends, IsLoadable
<1>8. CASE Deploy
  <2>1. stage = "saved" /\ file.state = agent
    BY <1>8 DEF Deploy
  <2>2. \A n \in Contender : deployed'[n] = agent
    BY <1>8, <2>1 DEF Deploy
  <2> QED BY <1>8, <2>1, <2>2 DEF Deploy, IsLoadable
<1>9. CASE UNCHANGED warmVars
  BY <1>9 DEF warmVars, IsLoadable
<1> QED
  BY <1>1, <1>2, <1>3, <1>4, <1>5, <1>6, <1>7, <1>8, <1>9 DEF WarmNext

-----------------------------------------------------------------------------
(* The invariant holds: reading *)

LEMMA ToSetOfConcat ==
  ASSUME NEW T, NEW s \in Seq(T), NEW t \in Seq(T)
  PROVE  s \o t \in Seq(T) /\ ToSet(s \o t) = ToSet(s) \cup ToSet(t)
<1>1. /\ s \o t \in Seq(T) /\ Len(s \o t) = Len(s) + Len(t)
      /\ DOMAIN (s \o t) = 1 .. Len(s) + Len(t)
      /\ DOMAIN s = 1 .. Len(s) /\ DOMAIN t = 1 .. Len(t) /\ Len(s) \in Nat /\ Len(t) \in Nat
  OBVIOUS
<1>2. \A i \in DOMAIN (s \o t) : (s \o t)[i] = IF i <= Len(s) THEN s[i] ELSE t[i - Len(s)]
  OBVIOUS
<1>3. ASSUME NEW i \in DOMAIN (s \o t) PROVE (s \o t)[i] \in ToSet(s) \cup ToSet(t)
  <2>1. CASE i <= Len(s)
    <3>1. i \in DOMAIN s
      BY <1>1, <2>1
    <3> QED BY <1>2, <2>1, <3>1 DEF ToSet
  <2>2. CASE ~(i <= Len(s))
    <3>1. i - Len(s) \in DOMAIN t
      BY <1>1, <2>2
    <3> QED BY <1>2, <2>2, <3>1 DEF ToSet
  <2> QED BY <2>1, <2>2
<1>4. ASSUME NEW i \in DOMAIN s PROVE s[i] \in ToSet(s \o t)
  <2>1. i \in DOMAIN (s \o t) /\ i <= Len(s)
    BY <1>1
  <2> QED BY <1>2, <2>1 DEF ToSet
<1>5. ASSUME NEW i \in DOMAIN t PROVE t[i] \in ToSet(s \o t)
  <2>1. i + Len(s) \in DOMAIN (s \o t) /\ ~(i + Len(s) <= Len(s)) /\ (i + Len(s)) - Len(s) = i
    BY <1>1
  <2> QED BY <1>2, <2>1 DEF ToSet
<1> QED
  BY <1>1, <1>3, <1>4, <1>5 DEF ToSet

(* The head and the tail of a queue.                                        *)
LEMMA HeadAndTail ==
  ASSUME NEW T, NEW s \in Seq(T), s # <<>>
  PROVE  /\ Head(s) \in T /\ Head(s) = s[1] /\ 1 \in DOMAIN s
         /\ Tail(s) \in Seq(T) /\ ToSet(s) = {Head(s)} \cup ToSet(Tail(s))
         /\ DOMAIN Tail(s) = 1 .. Len(s) - 1 /\ DOMAIN s = 1 .. Len(s) /\ Len(s) \in Nat
         /\ \A i \in DOMAIN Tail(s) : i + 1 \in DOMAIN s /\ Tail(s)[i] = s[i + 1]
<1>1. /\ Len(s) \in Nat \ {0} /\ DOMAIN s = 1 .. Len(s)
      /\ Head(s) = s[1] /\ Tail(s) \in Seq(T) /\ DOMAIN Tail(s) = 1 .. Len(s) - 1
      /\ \A i \in 1 .. Len(s) - 1 : Tail(s)[i] = s[i + 1]
  OBVIOUS
<1>2. Head(s) \in T
  BY <1>1, ElementOfSeq
<1>3. ASSUME NEW i \in DOMAIN s PROVE s[i] \in {Head(s)} \cup ToSet(Tail(s))
  <2>1. CASE i = 1
    BY <1>1, <2>1
  <2>2. CASE i # 1
    <3>1. i - 1 \in DOMAIN Tail(s) /\ (i - 1) + 1 = i
      BY <1>1, <2>2
    <3> QED BY <1>1, <3>1 DEF ToSet
  <2> QED BY <2>1, <2>2
<1>4. \A i \in DOMAIN Tail(s) : i + 1 \in DOMAIN s /\ Tail(s)[i] = s[i + 1]
  BY <1>1
<1>5. ToSet(s) = {Head(s)} \cup ToSet(Tail(s))
  <2>1. ToSet(s) \subseteq {Head(s)} \cup ToSet(Tail(s))
    BY <1>3 DEF ToSet
  <2>2. Head(s) \in ToSet(s)
    BY <1>1 DEF ToSet
  <2>3. ToSet(Tail(s)) \subseteq ToSet(s)
    BY <1>4 DEF ToSet
  <2> QED BY <2>1, <2>2, <2>3
<1> QED
  BY <1>1, <1>2, <1>4, <1>5

(* A job that is read has not been read, and its samples come to the others. *)
LEMMA ReadJobStep == MatrixInv /\ ReadInv /\ ReadJob => ReadInv'
<1> SUFFICES ASSUME MatrixInv, ReadInv, ReadJob PROVE ReadInv'
  OBVIOUS
<1> DEFINE j == Head(queue)
<1>1. stage = "read" /\ queue # <<>> /\ stage \in Training
  BY DEF ReadJob, Training
<1>2. PICK c \in Contents(j) :
        /\ given' = [k \in DOMAIN given \cup {j} |-> IF k = j THEN c ELSE given[k]]
        /\ queue' = Tail(queue) /\ matrix' = matrix
        /\ IF IsUsable(c, j)
           THEN /\ samples' = samples \o c.samples
                /\ utilities' = utilities \cup {<<j.seed, j.arm, j.scenario.id, c.utility>>}
                /\ stage' = stage
           ELSE stage' = "refused"
  BY DEF ReadJob, Ends
<1>3. CASE ~IsUsable(c, j)
  BY <1>2, <1>3 DEF ReadInv, Training, Learned
<1>4. CASE IsUsable(c, j)
  <2>1. /\ samples' = samples \o c.samples /\ stage' = "read"
        /\ utilities' = utilities \cup {<<j.seed, j.arm, j.scenario.id, c.utility>>}
    BY <1>1, <1>2, <1>4
  <2>2. /\ queue \in Seq(Jobs(matrix)) /\ IsInjective(queue) /\ ToSet(queue) \cap DOMAIN given = {}
        /\ samples \in Seq(LocalSample) /\ ToSet(samples) = GivenSamples
        /\ DOMAIN given \subseteq Jobs(matrix)
        /\ \A k \in DOMAIN given : given[k] \in Contents(k) /\ IsUsable(given[k], k)
        /\ utilities = {Row(k) : k \in DOMAIN given}
    BY <1>1 DEF ReadInv
  <2>3. /\ j \in Jobs(matrix) /\ j = queue[1] /\ 1 \in DOMAIN queue
        /\ Tail(queue) \in Seq(Jobs(matrix)) /\ ToSet(queue) = {j} \cup ToSet(Tail(queue))
        /\ DOMAIN Tail(queue) = 1 .. Len(queue) - 1 /\ Len(queue) \in Nat
        /\ \A i \in DOMAIN Tail(queue) : i + 1 \in DOMAIN queue /\ Tail(queue)[i] = queue[i + 1]
    BY <1>1, <2>2, HeadAndTail
  <2> HIDE DEF j
  <2>4. j \notin DOMAIN given
    BY <2>2, <2>3
  <2>5. IsInjective(Tail(queue)) /\ j \notin ToSet(Tail(queue))
    <3>1. ASSUME NEW i \in DOMAIN Tail(queue), NEW k \in DOMAIN Tail(queue),
                 Tail(queue)[i] = Tail(queue)[k]
          PROVE  i = k
      <4>1. i + 1 = k + 1
        BY <2>2, <2>3, <3>1 DEF IsInjective
      <4> QED BY <2>3, <4>1
    <3>2. ASSUME NEW i \in DOMAIN Tail(queue) PROVE Tail(queue)[i] # j
      <4>1. i + 1 # 1
        BY <2>3
      <4> QED BY <2>2, <2>3, <4>1 DEF IsInjective
    <3> QED BY <3>1, <3>2 DEF IsInjective, ToSet
  <2>6. DOMAIN given' = DOMAIN given \cup {j} /\ given'[j] = c
        /\ \A k \in DOMAIN given : given'[k] = given[k]
    BY <1>2, <2>4
  <2>7. c \in [complete : BOOLEAN, utility : Float, samples : Seq(LocalSample)]
    <3>1. matrix \in Matrices /\ MatrixIsValid(matrix) /\ IsPretraining(matrix)
      BY <1>1 DEF MatrixInv
    <3> QED BY <1>2, <2>3, <3>1, TrainingJob
  <2>8. c.samples \in Seq(LocalSample)
    BY <2>7
  <2>9. samples' \in Seq(LocalSample) /\ ToSet(samples') = ToSet(samples) \cup ToSet(c.samples)
    BY <2>1, <2>2, <2>8, ToSetOfConcat
  <2>10. GivenSamples' = GivenSamples \cup ToSet(c.samples)
    <3>1. GivenSamples' = UNION {ToSet(given'[k].samples) : k \in DOMAIN given'}
      BY DEF GivenSamples, ToSet
    <3> QED BY <2>6, <3>1 DEF GivenSamples
  <2>11. utilities' = {Row(k)' : k \in DOMAIN given'}
    <3>1. \A k : Row(k)' = <<k.seed, k.arm, k.scenario.id, given'[k].utility>>
      BY DEF Row
    <3> QED BY <2>1, <2>2, <2>6, <3>1 DEF Row
  <2>12. ToSet(queue') \cap DOMAIN given' = {}
    BY <1>2, <2>2, <2>3, <2>5, <2>6
  <2>13. \A k \in DOMAIN given' : given'[k] \in Contents(k) /\ IsUsable(given'[k], k)
    BY <1>2, <1>4, <2>2, <2>6
  <2>14. DOMAIN given' \subseteq Jobs(matrix')
    BY <1>2, <2>2, <2>3, <2>6
  <2>15. queue' \in Seq(Jobs(matrix')) /\ IsInjective(queue')
    BY <1>2, <2>3, <2>5
  <2>16. ToSet(samples') = GivenSamples'
    BY <2>2, <2>9, <2>10
  <2> QED
    BY <2>1, <2>9, <2>11, <2>12, <2>13, <2>14, <2>15, <2>16 DEF ReadInv
<1> QED
  BY <1>3, <1>4

LEMMA ReadStep == MatrixInv /\ ReadInv /\ [WarmNext]_warmVars => ReadInv'
<1> SUFFICES ASSUME MatrixInv, ReadInv, [WarmNext]_warmVars PROVE ReadInv'
  OBVIOUS
<1>1. CASE Load
  BY <1>1 DEF Load, Ends, ReadInv, Training, Learned
<1>2. CASE Expand
  <2>1. stage = "expand" /\ given' = given /\ samples' = samples /\ utilities' = utilities
        /\ matrix' = matrix
    BY <1>2 DEF Expand
  <2>2. CASE stage' = "read"
    <3>1. queue' = ExpandMatrix(matrix) /\ Expands(matrix)
      BY <1>2, <2>2 DEF Expand, Ends
    <3>2. matrix \in Matrices /\ MatrixIsValid(matrix)
      BY <2>1 DEF MatrixInv
    <3>3. queue' \in Seq(Jobs(matrix)) /\ IsInjective(queue')
      BY <3>1, <3>2, QueueIsJobs
    <3>4. given = <<>> /\ samples = <<>> /\ utilities = {}
      BY <2>1 DEF ReadInv
    <3>5. DOMAIN given = {}
      BY <3>4
    <3>6. samples \in Seq(LocalSample) /\ ToSet(samples) = {}
      BY <3>4 DEF ToSet
    <3>7. GivenSamples' = {}
      BY <2>1, <3>5 DEF GivenSamples
    <3> QED BY <2>1, <2>2, <3>3, <3>4, <3>5, <3>6, <3>7 DEF ReadInv
  <2>3. CASE stage' # "read"
    <3>1. stage' \in {"expanded", "raised"}
      BY <1>2, <2>3 DEF Expand, Ends
    <3> QED BY <3>1 DEF ReadInv, Training, Learned
  <2> QED BY <2>2, <2>3
<1>3. CASE ReadJob
  BY <1>3, ReadJobStep
<1>4. ASSUME EndRead \/ Learn \/ FitOracle \/ Save
      PROVE  ReadInv'
  <2>1. stage \in Training /\ stage' \in {"learn", "refused"} \cup Learned
        /\ given' = given /\ utilities' = utilities /\ matrix' = matrix
    BY <1>4 DEF EndRead, Learn, FitOracle, Save, Ends, Training, Learned
  <2>2. stage' \in Training =>
           \A seed \in PretrainingSeeds, a \in Arm :
              ScenariosOf(seed, a) = ToSet(Ids(matrix.scenarios))
    BY <1>4 DEF EndRead, Learn, FitOracle, Save, Ends, InputsAreWhole, ReadInv, Training, Learned
  <2>3. \A seed, a : ScenariosOf(seed, a)' = ScenariosOf(seed, a)
    BY <2>1 DEF ScenariosOf
  <2>4. stage' \in Training =>
           \A seed \in PretrainingSeeds, a \in Arm :
              ScenariosOf(seed, a)' = ToSet(Ids(matrix'.scenarios))
    BY <2>1, <2>2, <2>3
  <2> QED BY <2>1, <2>4 DEF ReadInv, Training, Learned, Row
<1>5. ASSUME Deploy \/ UNCHANGED warmVars PROVE ReadInv'
  <2>1. UNCHANGED <<matrix, stage, queue, given, samples, utilities>>
    BY <1>5 DEF Deploy, warmVars
  <2> QED BY <2>1 DEF ReadInv, GivenSamples, Row, ScenariosOf
<1> QED
  BY <1>1, <1>2, <1>3, <1>4, <1>5 DEF WarmNext

-----------------------------------------------------------------------------
(* The invariant holds: learning *)

LEMMA AppendIs ==
  ASSUME NEW T, NEW s \in Seq(T), NEW x \in T
  PROVE  /\ Append(s, x) \in Seq(T) /\ ToSet(Append(s, x)) = ToSet(s) \cup {x}
         /\ DOMAIN Append(s, x) = 1 .. Len(s) + 1 /\ DOMAIN s = 1 .. Len(s) /\ Len(s) \in Nat
         /\ \A i \in DOMAIN s : Append(s, x)[i] = s[i]
         /\ Append(s, x)[Len(s) + 1] = x
<1>1. /\ Append(s, x) \in Seq(T)
      /\ DOMAIN Append(s, x) = 1 .. Len(s) + 1 /\ DOMAIN s = 1 .. Len(s) /\ Len(s) \in Nat
      /\ \A i \in 1 .. Len(s) : Append(s, x)[i] = s[i]
      /\ Append(s, x)[Len(s) + 1] = x
  OBVIOUS
<1>2. ToSet(Append(s, x)) \subseteq ToSet(s) \cup {x}
  <2> SUFFICES ASSUME NEW i \in 1 .. Len(s) + 1 PROVE Append(s, x)[i] \in ToSet(s) \cup {x}
    BY <1>1 DEF ToSet
  <2>1. i \in 1 .. Len(s) \/ i = Len(s) + 1
    BY <1>1
  <2> QED BY <1>1, <2>1 DEF ToSet
<1>3. ToSet(s) \cup {x} \subseteq ToSet(Append(s, x))
  <2>1. \A i \in 1 .. Len(s) : i \in 1 .. Len(s) + 1
    BY <1>1
  <2>2. Len(s) + 1 \in 1 .. Len(s) + 1
    BY <1>1
  <2> QED BY <1>1, <2>1, <2>2 DEF ToSet
<1> QED
  BY <1>1, <1>2, <1>3

LEMMA EndReadStep == MatrixInv /\ ReadInv /\ LearnInv /\ EndRead => LearnInv'
<1> SUFFICES ASSUME MatrixInv, ReadInv, LearnInv, EndRead PROVE LearnInv'
  OBVIOUS
<1>1. stage = "read" /\ agent' = agent /\ agent = Untrained /\ given' = given
  BY DEF EndRead, LearnInv, Learned
<1>2. CASE InputsAreWhole
  <2>1. samples' = Canonical(samples) /\ stage' = "learn"
    BY <1>2 DEF EndRead, Ends
  <2>2. samples \in Seq(LocalSample) /\ ToSet(samples) = GivenSamples
    BY <1>1 DEF ReadInv
  <2>3. /\ samples' \in Seq(LocalSample) /\ IsCanonical(samples')
        /\ ToSet(samples') = GivenSamples
    BY <1>2, <2>1, <2>2, WholeIsContinuous, CanonicalOrders
  <2>4. GivenSamples' = GivenSamples
    BY <1>1 DEF GivenSamples
  <2>5. \A s \in GivenSamples : \A q \in 0 .. s.sequence :
              \E t \in GivenSamples : t.node = s.node /\ t.sequence = q
    BY <1>2, <2>2, WholeIsContinuous
  <2>6. agent' \in [Arm -> Seq(LocalSample)] /\ \A a \in Arm : agent'[a] = <<>>
    BY <1>1 DEF Untrained
  <2>7. ASSUME NEW a \in Arm
        PROVE  /\ IsCanonical(agent'[a])
               /\ \A i \in DOMAIN agent'[a], k \in DOMAIN samples' : Precedes(agent'[a][i], samples'[k])
               /\ ToSet(agent'[a]) = {}
    BY <2>6 DEF IsCanonical, ToSet
  <2>8. \A a \in Arm : ToSet(agent'[a]) \cup {s \in ToSet(samples') : s.arm = a} = {s \in GivenSamples' : s.arm = a}
    BY <2>3, <2>4, <2>7
  <2> QED
    BY <2>1, <2>3, <2>4, <2>5, <2>6, <2>7, <2>8 DEF LearnInv, Learned
<1>3. CASE ~InputsAreWhole
  BY <1>1, <1>3 DEF EndRead, Ends, LearnInv, Learned
<1> QED
  BY <1>2, <1>3

LEMMA LearnOneStep == LearnInv /\ Learn => LearnInv'
<1> SUFFICES ASSUME LearnInv, Learn PROVE LearnInv'
  OBVIOUS
<1> DEFINE s == Head(samples)
<1>1. /\ stage = "learn" /\ stage' = "learn" /\ samples # <<>>
      /\ agent' = Updated(agent, s) /\ samples' = Tail(samples) /\ given' = given
  BY DEF Learn
<1>2. /\ agent \in [Arm -> Seq(LocalSample)] /\ samples \in Seq(LocalSample)
      /\ IsCanonical(samples)
      /\ \A a \in Arm :
              /\ IsCanonical(agent[a])
              /\ \A i \in DOMAIN agent[a], k \in DOMAIN samples : Precedes(agent[a][i], samples[k])
              /\ ToSet(agent[a]) \cup {t \in ToSet(samples) : t.arm = a} = {t \in GivenSamples : t.arm = a}
      /\ \A r \in GivenSamples : \A q \in 0 .. r.sequence :
              \E t \in GivenSamples : t.node = r.node /\ t.sequence = q
  BY <1>1 DEF LearnInv
<1>3. /\ s \in LocalSample /\ s = samples[1] /\ 1 \in DOMAIN samples
      /\ samples' \in Seq(LocalSample) /\ ToSet(samples) = {s} \cup ToSet(samples')
      /\ DOMAIN samples' = 1 .. Len(samples) - 1 /\ Len(samples) \in Nat
      /\ \A i \in DOMAIN samples' : i + 1 \in DOMAIN samples /\ samples'[i] = samples[i + 1]
  BY <1>1, <1>2, HeadAndTail
<1> HIDE DEF s
<1>4. GivenSamples' = GivenSamples
  BY <1>1 DEF GivenSamples
<1>5. IsCanonical(samples')
  <2> SUFFICES ASSUME NEW i \in DOMAIN samples', NEW k \in DOMAIN samples', i < k
               PROVE  Precedes(samples'[i], samples'[k])
    BY DEF IsCanonical
  <2>1. i + 1 < k + 1 /\ i + 1 \in DOMAIN samples /\ k + 1 \in DOMAIN samples
    BY <1>3
  <2> QED BY <1>2, <1>3, <2>1 DEF IsCanonical
<1>6. \A k \in DOMAIN samples' : Precedes(s, samples'[k])
  <2> SUFFICES ASSUME NEW k \in DOMAIN samples' PROVE Precedes(s, samples'[k])
    OBVIOUS
  <2>1. 1 < k + 1 /\ k + 1 \in DOMAIN samples
    BY <1>3
  <2> QED BY <1>2, <1>3, <2>1 DEF IsCanonical
<1>7. ASSUME NEW a \in Arm
      PROVE  /\ agent'[a] \in Seq(LocalSample) /\ IsCanonical(agent'[a])
             /\ \A i \in DOMAIN agent'[a], k \in DOMAIN samples' : Precedes(agent'[a][i], samples'[k])
             /\ ToSet(agent'[a]) \cup {t \in ToSet(samples') : t.arm = a} = {t \in GivenSamples : t.arm = a}
  <2>1. \A i \in DOMAIN agent[a], k \in DOMAIN samples' : Precedes(agent[a][i], samples'[k])
    BY <1>2, <1>3
  <2>2. agent[a] \in Seq(LocalSample)
    BY <1>2
  <2>3. CASE s.arm # a
    <3>1. agent'[a] = agent[a]
      BY <1>1, <1>2, <2>3 DEF Updated
    <3>2. {t \in ToSet(samples) : t.arm = a} = {t \in ToSet(samples') : t.arm = a}
      BY <1>3, <2>3
    <3> QED BY <1>2, <2>1, <2>2, <3>1, <3>2
  <2>4. CASE s.arm = a
    <3> DEFINE n == Len(agent[a])
    <3>1. agent'[a] = Append(agent[a], s)
      BY <1>1, <1>2, <2>4 DEF Updated
    <3>2. /\ agent'[a] \in Seq(LocalSample) /\ ToSet(agent'[a]) = ToSet(agent[a]) \cup {s}
          /\ DOMAIN agent'[a] = 1 .. n + 1 /\ DOMAIN agent[a] = 1 .. n /\ n \in Nat
          /\ \A i \in DOMAIN agent[a] : agent'[a][i] = agent[a][i]
          /\ agent'[a][n + 1] = s
      BY <1>3, <2>2, <3>1, AppendIs
    <3> HIDE DEF n
    <3>3. ASSUME NEW i \in DOMAIN agent'[a] PROVE i \in DOMAIN agent[a] \/ i = n + 1
      BY <3>2
    <3>4. IsCanonical(agent'[a])
      <4> SUFFICES ASSUME NEW i \in DOMAIN agent'[a], NEW k \in DOMAIN agent'[a], i < k
                   PROVE  Precedes(agent'[a][i], agent'[a][k])
        BY DEF IsCanonical
      <4>1. i \in DOMAIN agent[a]
        BY <3>2
      <4>2. CASE k \in DOMAIN agent[a]
        BY <1>2, <3>2, <4>1, <4>2 DEF IsCanonical
      <4>3. CASE k = n + 1
        BY <1>2, <1>3, <3>2, <4>1, <4>3
      <4> QED BY <3>3, <4>2, <4>3
    <3>5. \A i \in DOMAIN agent'[a], k \in DOMAIN samples' : Precedes(agent'[a][i], samples'[k])
      BY <1>6, <2>1, <3>2, <3>3
    <3>6. ToSet(agent'[a]) \cup {t \in ToSet(samples') : t.arm = a} = {t \in GivenSamples : t.arm = a}
      <4>1. {t \in ToSet(samples) : t.arm = a} = {s} \cup {t \in ToSet(samples') : t.arm = a}
        BY <1>3, <2>4
      <4> QED BY <1>2, <3>2, <4>1
    <3> QED BY <3>2, <3>4, <3>5, <3>6
  <2> QED BY <2>3, <2>4
<1>8. agent' \in [Arm -> Seq(LocalSample)]
  <2>1. agent' = [agent EXCEPT ![s.arm] = Append(@, s)]
    BY <1>1 DEF Updated
  <2>2. DOMAIN agent' = Arm /\ agent' = [a \in Arm |-> agent'[a]]
    BY <1>2, <2>1
  <2> QED BY <1>7, <2>2
<1> QED
  BY <1>1, <1>2, <1>3, <1>4, <1>5, <1>7, <1>8 DEF LearnInv, Learned

LEMMA LearnStep == MatrixInv /\ ReadInv /\ LearnInv /\ [WarmNext]_warmVars => LearnInv'
<1> SUFFICES ASSUME MatrixInv, ReadInv, LearnInv, [WarmNext]_warmVars PROVE LearnInv'
  OBVIOUS
<1>1. ASSUME Load \/ Expand \/ ReadJob PROVE LearnInv'
  <2>1. stage \in {"matrix", "expand", "read"} /\ agent' = agent
        /\ stage' \in {"expand", "rejected", "raised", "read", "expanded", "refused"}
    BY <1>1 DEF Load, Expand, ReadJob, Ends
  <2> QED BY <2>1 DEF LearnInv, Learned
<1>2. CASE EndRead
  BY <1>2, EndReadStep
<1>3. CASE Learn
  BY <1>3, LearnOneStep
<1>4. CASE FitOracle
  <2>1. /\ stage = "learn" /\ stage' = "trained" /\ samples = <<>> /\ oracle' = FixedOracle
        /\ UNCHANGED <<samples, utilities, agent, given>>
    BY <1>4 DEF FitOracle, Ends
  <2>2. FixedOracle' = FixedOracle
    BY <2>1 DEF FixedOracle, Utility, SeedUtility, ScenariosOf
  <2>3. GivenSamples' = GivenSamples
    BY <2>1 DEF GivenSamples
  <2> QED BY <2>1, <2>2, <2>3 DEF LearnInv, Learned
<1>5. ASSUME Save \/ Deploy \/ UNCHANGED warmVars PROVE LearnInv'
  <2>1. UNCHANGED <<samples, utilities, agent, given, oracle>>
        /\ (stage' = stage \/ (stage \in Learned /\ stage' \in Learned))
    BY <1>5 DEF Save, Deploy, warmVars, Ends, Learned
  <2>2. FixedOracle' = FixedOracle
    BY <2>1 DEF FixedOracle, Utility, SeedUtility, ScenariosOf
  <2>3. GivenSamples' = GivenSamples
    BY <2>1 DEF GivenSamples
  <2> QED BY <2>1, <2>2, <2>3 DEF LearnInv, Learned
<1> QED
  BY <1>1, <1>2, <1>3, <1>4, <1>5 DEF WarmNext

LEMMA WarmInvariant == WarmSpec => []WarmInv
<1>1. WarmInv /\ [WarmNext]_warmVars => WarmInv'
  BY MatrixStep, ReadStep, LearnStep, DeployStep DEF WarmInv
<1> QED
  BY InitInv, <1>1, PTL DEF WarmSpec

-----------------------------------------------------------------------------
(* Theorems *)

(* An accepted matrix expands unless a phase schedule has another length or *)
(* two run ids collide, and what it expands to is a paired experiment:      *)
(* expand_matrix and derive_stream_seed.                                    *)
THEOREM MatricesArePaired == WarmSpec => []AcceptedIsPaired
<1>1. WarmInv => AcceptedIsPaired
  BY PairedByInvariant DEF WarmInv
<1> QED
  BY WarmInvariant, <1>1, PTL

LEMMA PrecedesIsLess ==
  ASSUME NEW s \in LocalSample, NEW t \in LocalSample
  PROVE  Precedes(s, t) <=> IsLess(SortKey(s), SortKey(t))
<1> DEFINE p == SortKey(s)
           q == SortKey(t)
           First(d) == p[d] < q[d] /\ \A e \in 1 .. d - 1 : p[e] = q[e]
<1>1. /\ p[1] = s.seed /\ p[2] = s.node[1] /\ p[3] = s.node[2] /\ p[4] = s.sequence
      /\ q[1] = t.seed /\ q[2] = t.node[1] /\ q[3] = t.node[2] /\ q[4] = t.sequence
  BY DEF SortKey
<1>2. Precedes(s, t) <=>
        \/ p[1] < q[1]
        \/ p[1] = q[1] /\ p[2] < q[2]
        \/ p[1] = q[1] /\ p[2] = q[2] /\ p[3] < q[3]
        \/ p[1] = q[1] /\ p[2] = q[2] /\ p[3] = q[3] /\ p[4] < q[4]
  BY <1>1, SampleFields DEF Precedes
<1> HIDE DEF p, q
<1>3. /\ First(1) <=> p[1] < q[1]
      /\ First(2) <=> p[1] = q[1] /\ p[2] < q[2]
      /\ First(3) <=> p[1] = q[1] /\ p[2] = q[2] /\ p[3] < q[3]
      /\ First(4) <=> p[1] = q[1] /\ p[2] = q[2] /\ p[3] = q[3] /\ p[4] < q[4]
  OBVIOUS
<1>4. IsLess(p, q) <=> \E d \in 1 .. 4 : First(d)
  BY DEF IsLess
<1> HIDE DEF First
<1>5. (\E d \in 1 .. 4 : First(d)) <=> First(1) \/ First(2) \/ First(3) \/ First(4)
  OBVIOUS
<1> QED
  BY <1>2, <1>3, <1>4, <1>5 DEF p, q

LEMMA LearnsByInvariant == WarmInv => LearnsTheRecords
<1> SUFFICES ASSUME WarmInv PROVE LearnsTheRecords
  OBVIOUS
<1>1. stage \in {"matrix", "expand", "rejected", "raised", "expanded", "read", "refused"} =>
          agent = Untrained
  BY DEF WarmInv, LearnInv, Learned
<1>2. ASSUME stage \in Learned, NEW a \in Arm
      PROVE  IsInOrder(agent[a], {s \in GivenSamples : s.arm = a})
  <2>1. /\ agent[a] \in Seq(LocalSample) /\ IsCanonical(agent[a]) /\ samples = <<>>
        /\ ToSet(agent[a]) \cup {s \in ToSet(samples) : s.arm = a} = {s \in GivenSamples : s.arm = a}
    BY <1>2 DEF WarmInv, LearnInv
  <2>2. ToSet(samples) = {}
    BY <2>1 DEF ToSet
  <2>3. ToSet(agent[a]) = {s \in GivenSamples : s.arm = a}
    BY <2>1, <2>2
  <2>4. ASSUME NEW i \in DOMAIN agent[a], NEW k \in DOMAIN agent[a], i < k
        PROVE  IsLess(SortKey(agent[a][i]), SortKey(agent[a][k]))
    <3>1. agent[a][i] \in LocalSample /\ agent[a][k] \in LocalSample
      BY <2>1, ElementOfSeq
    <3>2. Precedes(agent[a][i], agent[a][k])
      BY <2>1, <2>4 DEF IsCanonical
    <3> QED BY <3>1, <3>2, PrecedesIsLess
  <2> QED BY <2>3, <2>4 DEF IsInOrder
<1>3. stage \in Learned =>
          \A s \in GivenSamples : \A q \in 0 .. s.sequence :
              \E t \in GivenSamples : t.node = s.node /\ t.sequence = q
  BY DEF WarmInv, LearnInv
<1>4. \A n \in Contender : deployed[n] # Nothing => deployed[n] = agent
  BY DEF WarmInv, DeployInv
<1> QED
  BY <1>1, <1>2, <1>3, <1>4 DEF LearnsTheRecords, Learned

(* Every arm learns its samples of the records in the one order of training *)
(* (AgentIsAFunction says that there is one only), nothing that was refused *)
(* is learned, and only what was learned is deployed:                       *)
(* _load_pretraining_inputs, pretrain_linucb and LinUCB.save.               *)
THEOREM TrainingIsCanonical == WarmSpec => []LearnsTheRecords
  BY WarmInvariant, LearnsByInvariant, PTL

(* A set of samples is learned in one order: two trainings on the same      *)
(* samples, whatever order they came in, give the same agent                *)
(* (pretrain_linucb).                                                       *)
THEOREM AgentIsAFunction ==
  ASSUME NEW p \in Seq(LocalSample), NEW q \in Seq(LocalSample), NEW S,
         IsInOrder(p, S), IsInOrder(q, S)
  PROVE  p = q
<1>1. /\ DOMAIN p = 1 .. Len(p) /\ Len(p) \in Nat /\ \A i \in DOMAIN p : p[i] \in LocalSample
      /\ DOMAIN q = 1 .. Len(q) /\ Len(q) \in Nat /\ \A i \in DOMAIN q : q[i] \in LocalSample
  BY ElementOfSeq
<1>2. /\ \A i, k \in DOMAIN p : i < k => Precedes(p[i], p[k])
      /\ \A i, k \in DOMAIN q : i < k => Precedes(q[i], q[k])
  BY <1>1, PrecedesIsLess DEF IsInOrder
<1>3. /\ \A i \in DOMAIN p : \E k \in DOMAIN q : p[i] = q[k]
      /\ \A i \in DOMAIN q : \E k \in DOMAIN p : q[i] = p[k]
  BY DEF IsInOrder, ToSet
<1> DEFINE Same(i) == i \in DOMAIN p /\ i \in DOMAIN q /\ p[i] = q[i]
           T == {i \in Nat : i \in DOMAIN p \cup DOMAIN q /\ ~Same(i)}
<1>4. ASSUME T # {} PROVE FALSE
  <2>1. PICK i \in T : \A k \in T : i <= k
    BY <1>4, LeastNumber
  <2>2. \A k \in DOMAIN p \cup DOMAIN q : k < i => Same(k)
    BY <1>1, <2>1
  <2>3. ASSUME i \in DOMAIN p
        PROVE  i \in DOMAIN q /\ Precedes(q[i], p[i])
    <3>1. PICK k \in DOMAIN q : p[i] = q[k]
      BY <1>3, <2>3
    <3>2. ~(k < i)
      <4> SUFFICES ASSUME k < i PROVE FALSE
        OBVIOUS
      <4>1. k \in DOMAIN p /\ p[k] = q[k]
        BY <2>2
      <4>2. Precedes(p[k], p[i])
        BY <1>2, <2>3, <4>1
      <4> QED BY <1>1, <2>3, <3>1, <4>1, <4>2, PrecedesOrders
    <3>3. k # i
      BY <2>1, <2>3, <3>1
    <3>4. i < k /\ i \in DOMAIN q
      BY <1>1, <2>1, <2>3, <3>2, <3>3
    <3> QED BY <1>2, <3>1, <3>4
  <2>4. ASSUME i \in DOMAIN q
        PROVE  i \in DOMAIN p /\ Precedes(p[i], q[i])
    <3>1. PICK k \in DOMAIN p : q[i] = p[k]
      BY <1>3, <2>4
    <3>2. ~(k < i)
      <4> SUFFICES ASSUME k < i PROVE FALSE
        OBVIOUS
      <4>1. k \in DOMAIN q /\ p[k] = q[k]
        BY <2>2
      <4>2. Precedes(q[k], q[i])
        BY <1>2, <2>4, <4>1
      <4> QED BY <1>1, <2>4, <3>1, <4>1, <4>2, PrecedesOrders
    <3>3. k # i
      BY <2>1, <2>4, <3>1
    <3>4. i < k /\ i \in DOMAIN p
      BY <1>1, <2>1, <2>4, <3>2, <3>3
    <3> QED BY <1>2, <3>1, <3>4
  <2>5. i \in DOMAIN p /\ i \in DOMAIN q
    BY <2>1, <2>3, <2>4
  <2>6. p[i] \in LocalSample /\ q[i] \in LocalSample /\ Precedes(p[i], q[i]) /\ Precedes(q[i], p[i])
    BY <1>1, <2>3, <2>4, <2>5
  <2> QED BY <2>6, PrecedesOrders
<1>5. \A i \in DOMAIN p \cup DOMAIN q : Same(i)
  BY <1>1, <1>4
<1>6. DOMAIN p = DOMAIN q /\ \A i \in DOMAIN p : p[i] = q[i]
  BY <1>5
<1>7. p = [i \in DOMAIN p |-> p[i]] /\ q = [i \in DOMAIN q |-> q[i]]
  BY <1>1
<1> QED
  BY <1>6, <1>7

-----------------------------------------------------------------------------
(* Sums and means of floating point numbers *)

(* A bound of the terms bounds the sum.                                     *)
LEMMA SumsCompare ==
  ASSUME NEW S, IsFiniteSet(S), NEW v, NEW w, \A x \in S : v[x] \in Int /\ w[x] \in Int,
         NEW r \in Int, NEW p \in Int, NEW e \in Int,
         \A x \in S : r * v[x] <= p * w[x] + e
  PROVE  /\ Total(v, S) \in Int /\ Total(w, S) \in Int
         /\ r * Total(v, S) <= p * Total(w, S) + Cardinality(S) * e
<1>1. PICK g : AddsUp(g, v, S) /\ Total(v, S) = g[S]
  BY TotalIs
<1>2. PICK h : AddsUp(h, w, S) /\ Total(w, S) = h[S]
  BY TotalIs
<1> DEFINE F == {s \in SUBSET S : r * g[s] <= p * h[s] + Cardinality(s) * e}
<1>3. {} \in F
  BY <1>1, <1>2, FS_EmptySet DEF AddsUp
<1>4. ASSUME NEW s \in SUBSET S, s # {}, \A x \in s : s \ {x} \in F
      PROVE  s \in F
  <2>1. PICK x \in s : TRUE
    BY <1>4
  <2> DEFINE c == Cardinality(s \ {x})
             b == g[s \ {x}]
             d == h[s \ {x}]
  <2>2. IsFiniteSet(s) /\ IsFiniteSet(s \ {x})
    BY FS_Subset
  <2>3. Cardinality(s) = c + 1 /\ c \in Nat
    <3>1. Cardinality(s \ {x}) = Cardinality(s) - 1 /\ Cardinality(s) \in Nat /\ c \in Nat
      BY <2>1, <2>2, FS_RemoveElement, FS_CardinalityType
    <3> QED BY <3>1
  <2>4. g[s] = b + v[x] /\ h[s] = d + w[x] /\ b \in Int /\ d \in Int
    BY <1>1, <1>2, <2>1 DEF AddsUp
  <2>5. r * b <= p * d + c * e
    BY <1>4, <2>1
  <2>6. x \in S /\ v[x] \in Int /\ w[x] \in Int /\ r * v[x] <= p * w[x] + e
    BY <2>1
  <2> HIDE DEF b, c, d
  <2>7. r * (b + v[x]) = r * b + r * v[x] /\ p * (d + w[x]) = p * d + p * w[x] /\ (c + 1) * e = c * e + e
    BY <2>3, <2>4, <2>6
  <2>8. r * b \in Int /\ r * v[x] \in Int /\ p * d \in Int /\ p * w[x] \in Int /\ c * e \in Int
    BY <2>3, <2>4, <2>6
  <2>9. r * (b + v[x]) <= p * (d + w[x]) + (c + 1) * e
    BY <2>5, <2>6, <2>7, <2>8
  <2> QED BY <2>3, <2>4, <2>9
<1>5. \A s \in SUBSET S : s \in F
  <2> HIDE DEF F
  <2> QED BY <1>3, <1>4, SubsetInduction, Zenon
<1> QED
  BY <1>1, <1>2, <1>5 DEF AddsUp

LEMMA MeanIs ==
  ASSUME NEW t \in Int, NEW n \in Nat
  PROVE  /\ Mean(t, n) \in Float /\ Mean(t, n) \in Int
         /\ \A g \in Float : Distance(n * Mean(t, n), t) <= Distance(n * g, t)
<1> DEFINE D(f) == Distance(n * f, t)
           u == [f \in Float |-> - D(f)]
<1>1. ASSUME NEW f \in Float PROVE f \in Int /\ D(f) \in Int
  <2>1. f \in Int /\ n * f \in Int
    BY FloatAssumption
  <2> QED BY <2>1 DEF Distance
<1> HIDE DEF D
<1>2. PICK f \in Float : \A g \in Float : Better(u, f, g)
  <2>1. u \in [Float -> Int]
    BY <1>1
  <2> HIDE DEF u
  <2> QED BY <2>1, FloatAssumption, HasBest
<1>3. ASSUME NEW g \in Float PROVE D(f) <= D(g)
  <2>1. -D(f) >= -D(g)
    BY <1>1, <1>2 DEF Better
  <2> QED BY <1>1, <2>1
<1>4. Mean(t, n) = CHOOSE x \in Float : \A g \in Float : D(x) <= D(g)
  BY DEF Mean, D
<1>5. Mean(t, n) \in Float /\ \A g \in Float : D(Mean(t, n)) <= D(g)
  BY <1>3, <1>4
<1> QED
  BY <1>1, <1>5 DEF D

LEMMA MeanIsMonotone ==
  ASSUME NEW s \in Int, NEW t \in Int, s <= t, NEW n \in Nat \ {0}
  PROVE  Mean(s, n) <= Mean(t, n)
<1> DEFINE f == Mean(s, n)
           g == Mean(t, n)
<1>1. /\ f \in Int /\ g \in Int
      /\ Distance(n * f, s) <= Distance(n * g, s)
      /\ Distance(n * g, t) <= Distance(n * f, t)
  BY MeanIs
<1>2. s = t => f = g
  OBVIOUS
<1> HIDE DEF f, g
<1> SUFFICES ASSUME g < f PROVE FALSE
  BY <1>1 DEF f, g
<1>3. n * g < n * f /\ n * g \in Int /\ n * f \in Int
  BY <1>1
<1>4. s = t
  <2> DEFINE x == n * f
             y == n * g
  <2>1. x \in Int /\ y \in Int /\ y < x /\ Distance(x, s) <= Distance(y, s) /\ Distance(y, t) <= Distance(x, t)
    BY <1>1, <1>3
  <2> HIDE DEF x, y
  <2> QED BY <2>1 DEF Distance
<1> QED
  BY <1>1, <1>2, <1>4

(* Rounding moves a number between two others by half the spacing.          *)
LEMMA MeanIsNear ==
  ASSUME NEW t \in Int, NEW n \in Nat \ {0}, NEW lo \in Float, NEW hi \in Float,
         n * lo <= t, t <= n * hi
  PROVE  /\ 2 * (n * Mean(t, n)) <= 2 * t + n * Spacing
         /\ 2 * t <= 2 * (n * Mean(t, n)) + n * Spacing
<1> DEFINE L == {x \in Float : n * x <= t}
           id == [x \in L |-> x]
<1>1. L \in SUBSET Int /\ IsFiniteSet(L) /\ L # {}
  BY FloatAssumption, FS_Subset
<1>2. PICK f \in L : \A x \in L : Better(id, f, x)
  <2>1. id \in [L -> Int]
    BY <1>1
  <2> HIDE DEF L, id
  <2> QED BY <1>1, <2>1, HasBest
<1>3. f \in Float /\ f \in Int /\ n * f <= t /\ n * f \in Int /\ \A x \in L : x <= f
  BY <1>1, <1>2 DEF Better
<1> DEFINE m == Mean(t, n)
           k == n * m
           h == n * Spacing
<1>4. m \in Int /\ k \in Int /\ h \in Int /\ h >= 0 /\ \A x \in Float : Distance(k, t) <= Distance(n * x, t)
  BY MeanIs, FloatAssumption
<1>5. CASE \A x \in Float : x <= f
  <2>1. hi <= f /\ hi \in Int
    BY <1>5, FloatAssumption
  <2>2. n * hi <= n * f
    BY <1>3, <2>1
  <2>3. n * hi \in Int
    BY <2>1
  <2>4. n * f = t
    BY <1>3, <2>2, <2>3
  <2>5. Distance(k, t) <= Distance(n * f, t)
    BY <1>3, <1>4
  <2> HIDE DEF k, h
  <2>6. k = t
    BY <1>3, <1>4, <2>4, <2>5 DEF Distance
  <2> QED BY <1>4, <2>6 DEF k, h
<1>6. CASE \E x \in Float : f < x /\ x <= f + Spacing
  <2>1. PICK x \in Float : f < x /\ x <= f + Spacing
    BY <1>6
  <2>2. x \in Int /\ n * x \in Int /\ Spacing \in Int
    BY FloatAssumption
  <2>3. n * x > t
    BY <1>3, <2>1, <2>2
  <2>4. n * x <= n * f + n * Spacing
    <3>1. n * x <= n * (f + Spacing)
      BY <1>3, <2>1, <2>2
    <3>2. n * (f + Spacing) = n * f + n * Spacing
      BY <1>3, <2>2
    <3> QED BY <3>1, <3>2
  <2>5. Distance(k, t) <= Distance(n * f, t) /\ Distance(k, t) <= Distance(n * x, t)
    BY <1>3, <1>4
  <2> DEFINE y == n * f
             z == n * x
  <2>6. /\ y \in Int /\ z \in Int /\ y <= t /\ z > t /\ z <= y + h
        /\ Distance(k, t) <= Distance(y, t) /\ Distance(k, t) <= Distance(z, t)
    BY <1>3, <2>2, <2>3, <2>4, <2>5
  <2> HIDE DEF k, h, y, z
  <2>7. 2 * k <= 2 * t + h /\ 2 * t <= 2 * k + h
    BY <1>4, <2>6 DEF Distance
  <2> QED BY <2>7 DEF k, h
<1> QED
  BY <1>3, <1>5, <1>6, FloatAssumption

(* The mean of floating point numbers.                                      *)
LEMMA MeansAreNear ==
  ASSUME NEW S, IsFiniteSet(S), S # {}, NEW w, \A x \in S : w[x] \in Float, NEW n, n = Cardinality(S)
  PROVE  /\ n \in Nat \ {0} /\ Total(w, S) \in Int
         /\ 2 * (n * Mean(Total(w, S), n)) <= 2 * Total(w, S) + n * Spacing
         /\ 2 * Total(w, S) <= 2 * (n * Mean(Total(w, S), n)) + n * Spacing
<1>1. n \in Nat \ {0}
  BY FS_CardinalityType, FS_EmptySet
<1>2. \A x \in S : w[x] \in Int
  BY FloatAssumption
<1>3. PICK hi \in Float : \A x \in Float : x <= hi
  <2> DEFINE u == [x \in Float |-> x]
  <2>1. u \in [Float -> Int]
    BY FloatAssumption
  <2>2. PICK f \in Float : \A x \in Float : Better(u, f, x)
    <3> HIDE DEF u
    <3> QED BY <2>1, FloatAssumption, HasBest
  <2>3. \A x \in Float : x <= f
    BY <2>2, FloatAssumption DEF Better
  <2> QED BY <2>3
<1>4. PICK lo \in Float : \A x \in Float : lo <= x
  <2> DEFINE u == [x \in Float |-> -x]
  <2>1. u \in [Float -> Int]
    BY FloatAssumption
  <2>2. PICK f \in Float : \A x \in Float : Better(u, f, x)
    <3> HIDE DEF u
    <3> QED BY <2>1, FloatAssumption, HasBest
  <2>3. \A x \in Float : f <= x
    BY <2>2, FloatAssumption DEF Better
  <2> QED BY <2>3
<1>5. lo \in Int /\ hi \in Int /\ -lo \in Int
  BY FloatAssumption
<1> DEFINE t == Total(w, S)
<1>6. t \in Int /\ t <= n * hi
  <2>1. \A x \in S : 1 * w[x] <= 0 * w[x] + hi
    BY <1>2, <1>3, <1>5
  <2>2. /\ Total(w, S) \in Int
        /\ 1 * Total(w, S) <= 0 * Total(w, S) + Cardinality(S) * hi
    <3>1. 1 \in Int /\ 0 \in Int /\ \A x \in S : w[x] \in Int /\ w[x] \in Int
      BY <1>2
    <3> QED BY <1>5, <2>1, <3>1, SumsCompare, Zenon
  <2>3. t \in Int /\ 1 * t <= 0 * t + n * hi
    BY <2>2
  <2>4. n * hi \in Int
    BY <1>1, <1>5
  <2> HIDE DEF t
  <2> QED BY <2>3, <2>4
<1>7. n * lo <= t
  <2>1. \A x \in S : (-1) * w[x] <= 0 * w[x] + (-lo)
    BY <1>2, <1>4, <1>5
  <2>2. (-1) * Total(w, S) <= 0 * Total(w, S) + Cardinality(S) * (-lo)
    <3>1. -1 \in Int /\ 0 \in Int /\ \A x \in S : w[x] \in Int /\ w[x] \in Int
      BY <1>2
    <3> QED BY <1>5, <2>1, <3>1, SumsCompare, Zenon
  <2>3. (-1) * t <= 0 * t + n * (-lo)
    BY <2>2
  <2>4. n * (-lo) = -(n * lo) /\ n * lo \in Int
    BY <1>1, <1>5
  <2> HIDE DEF t
  <2> QED BY <1>6, <2>3, <2>4
<1> HIDE DEF t
<1>8. 2 * (n * Mean(t, n)) <= 2 * t + n * Spacing /\ 2 * t <= 2 * (n * Mean(t, n)) + n * Spacing
  BY <1>1, <1>6, <1>7, MeanIsNear
<1> QED
  BY <1>1, <1>6, <1>8 DEF t

-----------------------------------------------------------------------------
(* The oracle *)

(* A seed and an arm have one record for each scenario.                     *)
LEMMA OneOfEachScenario ==
  ASSUME MatrixInv, ReadInv, stage \in Learned, NEW a \in Arm, NEW seed \in PretrainingSeeds,
         NEW S, S = {j \in DOMAIN given : j.seed = seed /\ j.arm = a}
  PROVE  /\ IsFiniteSet(S) /\ S # {} /\ Cardinality(S) = Len(matrix.scenarios)
         /\ Cardinality(ScenariosOf(seed, a)) = Len(matrix.scenarios)
<1> DEFINE N == Len(matrix.scenarios)
           I == Ids(matrix.scenarios)
           R == ScenariosOf(seed, a)
           f == [j \in S |-> j.scenario.id]
<1>1. /\ DOMAIN given \subseteq Jobs(matrix) /\ utilities = {Row(j) : j \in DOMAIN given}
      /\ ScenariosOf(seed, a) = ToSet(I)
  BY DEF ReadInv, Training, Learned
<1>2. matrix \in Matrices /\ MatrixIsValid(matrix) /\ IsPretraining(matrix)
  BY DEF MatrixInv, Training, Learned
<1>3. IsFiniteSet(S)
  BY <1>1, <1>2, JobsCounted, FS_Subset
<1>4. /\ matrix.scenarios \in Seq(ToSet(matrix.scenarios)) /\ N \in Nat \ {0}
      /\ DOMAIN matrix.scenarios = 1 .. N
  <2>1. matrix.scenarios \in Seq(ToSet(matrix.scenarios)) /\ matrix.scenarios # <<>>
    BY <1>2, MatrixAssumption DEF MatrixIsValid, SequencesAreValid
  <2> QED BY <2>1
<1>5. DOMAIN I = 1 .. N /\ IsInjective(I)
  BY <1>2, <1>4 DEF Ids, MatrixIsValid, SequencesAreValid
<1>6. Cardinality(1 .. N) = N /\ IsFiniteSet(1 .. N)
  <2>1. 1 \in Int /\ N \in Int
    BY <1>4
  <2>2. IsFiniteSet(1 .. N) /\ Cardinality(1 .. N) = IF 1 > N THEN 0 ELSE N - 1 + 1
    <3> HIDE DEF N
    <3> QED BY <2>1, FS_Interval
  <2> HIDE DEF N
  <2> QED BY <1>4, <2>2
<1>7. Cardinality(R) = N
  <2> DEFINE g == [i \in 1 .. N |-> I[i]]
  <2>1. g \in Surjection(1 .. N, R)
    BY <1>1, <1>5 DEF Surjection, ToSet
  <2>2. g \in Injection(1 .. N, R)
    <3>1. \A i, k \in 1 .. N : g[i] = g[k] => i = k
      BY <1>5 DEF IsInjective
    <3>2. g \in [1 .. N -> R]
      BY <2>1 DEF Surjection
    <3> HIDE DEF g, R, N
    <3> QED BY <3>1, <3>2 DEF Injection, IsInjective
  <2> HIDE DEF g, R, N
  <2> QED BY <1>6, <2>1, <2>2, FS_Surjection
<1>8. R = {j.scenario.id : j \in S}
  <2>1. \A j : Row(j)[1] = j.seed /\ Row(j)[2] = j.arm /\ Row(j)[3] = j.scenario.id
    BY DEF Row
  <2>2. {v \in utilities : v[1] = seed /\ v[2] = a} = {Row(j) : j \in S}
    BY <1>1, <2>1
  <2> QED BY <2>1, <2>2 DEF ScenariosOf
<1>9. f \in Surjection(S, R)
  BY <1>8 DEF Surjection
<1>10. f \in Injection(S, R)
  <2>1. ASSUME NEW j \in S, NEW k \in S, f[j] = f[k] PROVE j = k
    <3>1. j.scenario.id = k.scenario.id /\ j.seed = k.seed /\ j.arm = k.arm
      BY <2>1
    <3>2. j \in Jobs(matrix) /\ k \in Jobs(matrix)
      BY <1>1
    <3> QED BY <1>2, <3>1, <3>2, TrainingJobIs
  <2>2. f \in [S -> R]
    BY <1>9 DEF Surjection
  <2> HIDE DEF f, R
  <2> QED BY <2>1, <2>2 DEF Injection, IsInjective
<1>11. Cardinality(R) = Cardinality(S)
  <2> HIDE DEF f, R
  <2> QED BY <1>3, <1>9, <1>10, FS_Surjection
<1>12. S # {}
  <2>1. Cardinality(S) = N
    BY <1>7, <1>11
  <2> HIDE DEF N
  <2> QED BY <1>4, <2>1, FS_EmptySet
<1> QED
  BY <1>3, <1>7, <1>11, <1>12

(* A sum over the rows of a seed and an arm is one over the records.        *)
LEMMA RowsAreRecords ==
  ASSUME MatrixInv, ReadInv, stage \in Learned, NEW a \in Arm, NEW seed \in PretrainingSeeds
  PROVE  /\ Total([u \in utilities |-> u[4]], {u \in utilities : u[1] = seed /\ u[2] = a})
               = TotalOf(seed, a)
         /\ \A j \in DOMAIN given : j.arm = a => given[j].utility \in Float
<1> DEFINE S == {j \in DOMAIN given : j.seed = seed /\ j.arm = a}
           T == {u \in utilities : u[1] = seed /\ u[2] = a}
           w == [j \in DOMAIN given |-> given[j].utility]
           v == [u \in utilities |-> u[4]]
           F == [j \in S |-> Row(j)]
<1>1. /\ DOMAIN given \subseteq Jobs(matrix) /\ utilities = {Row(j) : j \in DOMAIN given}
      /\ \A j \in DOMAIN given : given[j] \in Contents(j)
  BY DEF ReadInv, Training
<1>2. matrix \in Matrices /\ MatrixIsValid(matrix) /\ IsPretraining(matrix)
  BY DEF MatrixInv, Training, Learned
<1>3. IsFiniteSet(S)
  BY <1>1, <1>2, JobsCounted, FS_Subset
<1>4. ASSUME NEW j \in DOMAIN given PROVE given[j].utility \in Float /\ given[j].utility \in Int
  <2>1. given[j] \in [complete : BOOLEAN, utility : Float, samples : Seq(LocalSample)]
    BY <1>1, <1>2, TrainingJob
  <2> QED BY <2>1, FloatAssumption
<1>5. \A j \in DOMAIN given :
         Row(j)[1] = j.seed /\ Row(j)[2] = j.arm /\ Row(j)[3] = j.scenario.id /\ Row(j)[4] = given[j].utility
  BY DEF Row
<1>6. ASSUME NEW j \in S, NEW k \in S, F[j] = F[k] PROVE j = k
  <2>1. j.seed = k.seed /\ j.arm = k.arm /\ j.scenario.id = k.scenario.id
    BY <1>5, <1>6
  <2>2. j \in Jobs(matrix) /\ k \in Jobs(matrix)
    BY <1>1
  <2> QED BY <1>2, <2>1, <2>2, TrainingJobIs
<1>7. T = {F[j] : j \in S}
  BY <1>1, <1>5
<1>8. \A j \in S : v[F[j]] = w[j]
  BY <1>1, <1>5
<1>9. F \in [S -> T] /\ \A j \in S : w[j] \in Int
  BY <1>4, <1>7
<1> HIDE DEF S, T, w, v, F
<1>10. Total(w, S) = Total(v, T)
  BY <1>3, <1>6, <1>7, <1>8, <1>9, Reindexed
<1> QED
  BY <1>4, <1>10 DEF TotalOf, S, T, w, v

(* What the two roundings of an arm's utility do to the exact sums.         *)
LEMMA UtilityIsNear ==
  ASSUME MatrixInv, ReadInv, stage \in Learned, NEW a \in Arm,
         NEW n, n = Len(matrix.scenarios), NEW k, k = Cardinality(PretrainingSeeds),
         NEW A, A = Total([seed \in PretrainingSeeds |-> SeedUtility(seed, a)], PretrainingSeeds)
  PROVE  /\ n \in Nat \ {0} /\ k \in Nat \ {0}
         /\ \A seed \in PretrainingSeeds :
               TotalOf(seed, a) \in Int /\ SeedUtility(seed, a) = Mean(TotalOf(seed, a), n)
         /\ \A seed \in PretrainingSeeds : SeedUtility(seed, a) \in Int
         /\ A \in Int /\ ExactTotal(a) \in Int /\ Utility(a) \in Int /\ Utility(a) = Mean(A, k)
         /\ 2 * (k * Utility(a)) <= 2 * A + k * Spacing
         /\ 2 * A <= 2 * (k * Utility(a)) + k * Spacing
         /\ (2 * n) * A <= 2 * ExactTotal(a) + k * (n * Spacing)
         /\ 2 * ExactTotal(a) <= (2 * n) * A + k * (n * Spacing)
<1> DEFINE w == [seed \in PretrainingSeeds |-> SeedUtility(seed, a)]
           v == [seed \in PretrainingSeeds |-> TotalOf(seed, a)]
<1>1. ASSUME NEW seed \in PretrainingSeeds
      PROVE  /\ n \in Nat \ {0} /\ TotalOf(seed, a) \in Int
             /\ SeedUtility(seed, a) = Mean(TotalOf(seed, a), n)
             /\ 2 * (n * SeedUtility(seed, a)) <= 2 * TotalOf(seed, a) + n * Spacing
             /\ 2 * TotalOf(seed, a) <= 2 * (n * SeedUtility(seed, a)) + n * Spacing
  <2> DEFINE S == {j \in DOMAIN given : j.seed = seed /\ j.arm = a}
             u == [j \in DOMAIN given |-> given[j].utility]
  <2>1. /\ IsFiniteSet(S) /\ S # {} /\ n = Cardinality(S)
        /\ Cardinality(ScenariosOf(seed, a)) = n
    <3> HIDE DEF S
    <3>1. S = {j \in DOMAIN given : j.seed = seed /\ j.arm = a}
      BY DEF S
    <3> QED BY <3>1, OneOfEachScenario
  <2>2. \A j \in S : u[j] \in Float
    BY RowsAreRecords
  <2>3. SeedUtility(seed, a) = Mean(TotalOf(seed, a), n)
    BY <2>1, RowsAreRecords DEF SeedUtility
  <2>4. TotalOf(seed, a) = Total(u, S)
    BY DEF TotalOf
  <2> HIDE DEF S, u
  <2> QED BY <2>1, <2>2, <2>3, <2>4, MeansAreNear
<1>2. PretrainingSeeds # {} /\ IsFiniteSet(PretrainingSeeds)
  BY WarmstartAssumption
<1>3. n \in Nat \ {0}
  BY <1>1, <1>2
<1>4. ASSUME NEW seed \in PretrainingSeeds
      PROVE  SeedUtility(seed, a) \in Float /\ SeedUtility(seed, a) \in Int
  <2>1. TotalOf(seed, a) \in Int /\ SeedUtility(seed, a) = Mean(TotalOf(seed, a), n) /\ n \in Nat
    BY <1>1
  <2> QED BY <2>1, MeanIs
<1>5. /\ Utility(a) = Mean(A, k) /\ ExactTotal(a) = Total(v, PretrainingSeeds) /\ A = Total(w, PretrainingSeeds)
  BY DEF Utility, ExactTotal
<1>6. \A seed \in PretrainingSeeds : w[seed] \in Float /\ w[seed] \in Int /\ v[seed] \in Int
  BY <1>1, <1>4
<1>7. \A seed \in PretrainingSeeds :
        /\ (2 * n) * w[seed] <= 2 * v[seed] + n * Spacing
        /\ 2 * v[seed] <= (2 * n) * w[seed] + n * Spacing
  <2> SUFFICES ASSUME NEW seed \in PretrainingSeeds
               PROVE  /\ (2 * n) * w[seed] <= 2 * v[seed] + n * Spacing
                      /\ 2 * v[seed] <= (2 * n) * w[seed] + n * Spacing
    OBVIOUS
  <2> DEFINE x == SeedUtility(seed, a)
  <2>1. w[seed] = x /\ v[seed] = TotalOf(seed, a) /\ x \in Int
    BY <1>4
  <2>2. 2 * (n * x) <= 2 * TotalOf(seed, a) + n * Spacing /\ 2 * TotalOf(seed, a) <= 2 * (n * x) + n * Spacing
    BY <1>1
  <2> HIDE DEF x, w, v
  <2>3. (2 * n) * x = 2 * (n * x)
    BY <1>3, <2>1
  <2> QED BY <2>1, <2>2, <2>3
<1> HIDE DEF w, v
<1>8. /\ k \in Nat \ {0} /\ A \in Int
      /\ 2 * (k * Mean(A, k)) <= 2 * A + k * Spacing
      /\ 2 * A <= 2 * (k * Mean(A, k)) + k * Spacing
  BY <1>2, <1>5, <1>6, MeansAreNear
<1>9. Mean(A, k) \in Int
  BY <1>8, MeanIs
<1>10. 2 * n \in Int /\ 2 \in Int /\ n * Spacing \in Int
  BY <1>3, FloatAssumption
<1>11. /\ Total(v, PretrainingSeeds) \in Int
       /\ (2 * n) * Total(w, PretrainingSeeds) <= 2 * Total(v, PretrainingSeeds) + Cardinality(PretrainingSeeds) * (n * Spacing)
  <2>1. \A x \in PretrainingSeeds : w[x] \in Int /\ v[x] \in Int
    BY <1>6
  <2>2. \A x \in PretrainingSeeds : (2 * n) * w[x] <= 2 * v[x] + n * Spacing
    BY <1>7
  <2> QED BY <1>2, <1>10, <2>1, <2>2, SumsCompare, Zenon
<1>12. 2 * Total(v, PretrainingSeeds) <= (2 * n) * Total(w, PretrainingSeeds) + Cardinality(PretrainingSeeds) * (n * Spacing)
  <2>1. \A x \in PretrainingSeeds : v[x] \in Int /\ w[x] \in Int
    BY <1>6
  <2>2. \A x \in PretrainingSeeds : 2 * v[x] <= (2 * n) * w[x] + n * Spacing
    BY <1>7
  <2> QED BY <1>2, <1>10, <2>1, <2>2, SumsCompare, Zenon
<1> QED
  BY <1>1, <1>3, <1>4, <1>5, <1>8, <1>9, <1>11, <1>12

(* The oracle has the highest rounded utility, the lowest number of several. *)
LEMMA OracleIsChosen ==
  ASSUME WarmInv, stage \in Learned
  PROVE  /\ oracle \in Arm
         /\ \A a \in Arm : Utility(oracle) > Utility(a) \/ (Utility(oracle) = Utility(a) /\ oracle <= a)
<1> DEFINE u == [b \in Arm |-> Utility(b)]
<1>1. \A b \in Arm : Utility(b) \in Int
  BY UtilityIsNear DEF WarmInv
<1>2. oracle = FixedOracle
  BY DEF WarmInv, LearnInv
<1>3. PICK b \in Arm : \A c \in Arm : Better(u, b, c)
  <2>1. Arm \in SUBSET Int /\ Arm # {} /\ IsFiniteSet(Arm) /\ u \in [Arm -> Int]
    BY <1>1, ExperimentAssumption, WarmstartAssumption
  <2> HIDE DEF u
  <2> QED BY <2>1, HasBest
<1>4. \E x \in Arm : \A c \in Arm : Utility(x) > Utility(c) \/ (Utility(x) = Utility(c) /\ x <= c)
  BY <1>3 DEF Better
<1> QED
  BY <1>2, <1>4 DEF FixedOracle

LEMMA OracleByInvariant == WarmInv => OracleIsBest
<1> SUFFICES ASSUME WarmInv, stage \in Learned, NEW a \in Arm
             PROVE  /\ ExactTotal(a) <= ExactTotal(oracle) + 2 * Spacing * Records(matrix)
                    /\ (\A seed \in PretrainingSeeds : TotalOf(seed, a) >= TotalOf(seed, oracle)) =>
                          oracle <= a
  BY DEF OracleIsBest, Learned
<1> DEFINE n == Len(matrix.scenarios)
           k == Cardinality(PretrainingSeeds)
           w(b) == [seed \in PretrainingSeeds |-> SeedUtility(seed, b)]
           A(b) == Total(w(b), PretrainingSeeds)
           X(b) == ExactTotal(b)
           U(b) == Utility(b)
<1>1. /\ oracle \in Arm /\ a \in Nat /\ oracle \in Nat
      /\ U(oracle) > U(a) \/ (U(oracle) = U(a) /\ oracle <= a)
  BY OracleIsChosen, ExperimentAssumption
<1>2. ASSUME NEW b \in Arm
      PROVE  /\ n \in Nat \ {0} /\ k \in Nat \ {0}
             /\ \A seed \in PretrainingSeeds :
                   TotalOf(seed, b) \in Int /\ SeedUtility(seed, b) = Mean(TotalOf(seed, b), n)
             /\ \A seed \in PretrainingSeeds : SeedUtility(seed, b) \in Int
             /\ A(b) \in Int /\ X(b) \in Int /\ U(b) \in Int /\ U(b) = Mean(A(b), k)
             /\ 2 * (k * U(b)) <= 2 * A(b) + k * Spacing
             /\ 2 * A(b) <= 2 * (k * U(b)) + k * Spacing
             /\ (2 * n) * A(b) <= 2 * X(b) + k * (n * Spacing)
             /\ 2 * X(b) <= (2 * n) * A(b) + k * (n * Spacing)
  BY UtilityIsNear DEF WarmInv
<1>3. Records(matrix) = k * n
  BY DEF Records
<1> HIDE DEF n, k, A, X, U
<1>4. X(a) <= X(oracle) + 2 * Spacing * (k * n)
  <2> DEFINE h == k * Spacing
             nh == n * h
             p == n * A(a)
             q == n * A(oracle)
  <2>1. k \in Nat /\ n \in Nat /\ n > 0 /\ Spacing \in Nat /\ h \in Nat /\ nh \in Nat /\ p \in Int /\ q \in Int
    BY <1>1, <1>2, FloatAssumption
  <2>2. k * (n * Spacing) = nh /\ 2 * Spacing * (k * n) = 2 * nh
    <3>1. k * (n * Spacing) = n * (k * Spacing)
      BY <2>1
    <3>2. 2 * Spacing * (k * n) = 2 * (n * (k * Spacing))
      BY <2>1
    <3> QED BY <3>1, <3>2
  <2>3. k * U(a) <= k * U(oracle) /\ k * U(a) \in Int /\ k * U(oracle) \in Int
    <3>1. U(a) \in Int /\ U(oracle) \in Int /\ U(a) <= U(oracle)
      BY <1>1, <1>2
    <3> QED BY <2>1, <3>1
  <2>4. A(a) <= A(oracle) + h
    <3>1. /\ A(a) \in Int /\ A(oracle) \in Int
          /\ 2 * A(a) <= 2 * (k * U(a)) + h /\ 2 * (k * U(oracle)) <= 2 * A(oracle) + h
      BY <1>1, <1>2
    <3> HIDE DEF h
    <3> QED BY <2>1, <2>3, <3>1
  <2>5. p <= q + nh
    <3>1. A(a) \in Int /\ A(oracle) \in Int
      BY <1>1, <1>2
    <3> HIDE DEF h
    <3>2. n * A(a) <= n * (A(oracle) + h)
      BY <2>1, <2>4, <3>1
    <3>3. n * (A(oracle) + h) = n * A(oracle) + n * h
      BY <2>1, <3>1
    <3> QED BY <3>2, <3>3
  <2>6. 2 * X(a) <= 2 * p + nh /\ 2 * q <= 2 * X(oracle) + nh
    <3>1. /\ A(a) \in Int /\ A(oracle) \in Int
          /\ 2 * X(a) <= (2 * n) * A(a) + nh /\ (2 * n) * A(oracle) <= 2 * X(oracle) + nh
      BY <1>1, <1>2, <2>2
    <3>2. (2 * n) * A(a) = 2 * p /\ (2 * n) * A(oracle) = 2 * q
      BY <2>1, <3>1
    <3> HIDE DEF p, q, nh
    <3> QED BY <3>1, <3>2
  <2>7. X(a) \in Int /\ X(oracle) \in Int
    BY <1>1, <1>2
  <2> HIDE DEF h, nh, p, q
  <2> QED BY <2>1, <2>2, <2>5, <2>6, <2>7
<1>5. ASSUME \A seed \in PretrainingSeeds : TotalOf(seed, a) >= TotalOf(seed, oracle)
      PROVE  oracle <= a
  <2>1. ASSUME NEW seed \in PretrainingSeeds PROVE SeedUtility(seed, oracle) <= SeedUtility(seed, a)
    <3>1. TotalOf(seed, oracle) \in Int /\ TotalOf(seed, a) \in Int /\ TotalOf(seed, oracle) <= TotalOf(seed, a)
      BY <1>1, <1>2, <1>5
    <3>2. SeedUtility(seed, oracle) = Mean(TotalOf(seed, oracle), n) /\ SeedUtility(seed, a) = Mean(TotalOf(seed, a), n)
      BY <1>1, <1>2
    <3>3. n \in Nat \ {0}
      BY <1>2
    <3> QED BY <3>1, <3>2, <3>3, MeanIsMonotone
  <2>2. A(oracle) <= A(a)
    <3> DEFINE S == PretrainingSeeds
               x == w(oracle)
               y == w(a)
    <3>1. \A seed \in S : x[seed] \in Int /\ y[seed] \in Int /\ x[seed] <= y[seed]
      BY <1>1, <1>2, <2>1
    <3>2. IsFiniteSet(S) /\ 1 \in Int /\ 0 \in Int /\ Cardinality(S) \in Int
      BY WarmstartAssumption, FS_CardinalityType
    <3> HIDE DEF S, x, y, w
    <3>3. \A seed \in S : x[seed] \in Int /\ y[seed] \in Int
      BY <3>1
    <3>4. \A seed \in S : 1 * x[seed] <= 1 * y[seed] + 0
      BY <3>1
    <3>5. 1 * Total(x, S) <= 1 * Total(y, S) + Cardinality(S) * 0
      BY <3>2, <3>3, <3>4, SumsCompare, Zenon
    <3>6. A(oracle) = Total(x, S) /\ A(a) = Total(y, S)
      BY DEF A, S, x, y
    <3> QED BY <1>1, <1>2, <3>2, <3>5, <3>6
  <2>3. A(oracle) \in Int /\ A(a) \in Int /\ k \in Nat \ {0} /\ U(oracle) = Mean(A(oracle), k) /\ U(a) = Mean(A(a), k)
    BY <1>1, <1>2
  <2>4. U(oracle) <= U(a)
    BY <2>2, <2>3, MeanIsMonotone
  <2>5. U(oracle) \in Int /\ U(a) \in Int
    BY <1>1, <1>2
  <2> QED BY <1>1, <2>4, <2>5
<1> QED
  BY <1>3, <1>4, <1>5 DEF X

(* No arm is better over all the records than the fixed oracle by more than *)
(* its two roundings, and the lower of equal arms is not passed over:       *)
(* _load_pretraining_inputs, fit_fixed_oracle.                              *)
THEOREM OracleIsTheBestArm == WarmSpec => []OracleIsBest
  BY WarmInvariant, OracleByInvariant, PTL
=============================================================================
