----------------------------- MODULE FoldProofs -----------------------------
(***************************************************************************)
(* Induction, folds and sums, as the theorems about the other modules need *)
(* them: the payments of a round, the transactions of a block, the blocks  *)
(* of the chain.                                                           *)
(*                                                                         *)
(* Induction is stated for sets, not for predicates: a set of numbers that *)
(* holds 0 and the next of each of its members is Nat.  A fold is defined  *)
(* by a function of the subsets of what is folded, and the first thing to  *)
(* prove is that there is one that satisfies its definition.               *)
(***************************************************************************)
EXTENDS Integers, SequencesExt, FiniteSetTheorems, TLAPS

\* The sum of f over S.
Total(f, S) == MapThenSumSet(LAMBDA x : f[x], S)

-----------------------------------------------------------------------------
(* Induction.                                                               *)

LEMMA NaturalsBySteps ==
    ASSUME NEW S \in SUBSET Nat, 0 \in S, \A n \in S : n + 1 \in S
    PROVE  S = Nat
<1> SUFFICES ASSUME S # Nat
             PROVE  FALSE
  OBVIOUS
<1> DEFINE T == Nat \ S
           R == OpToRel(<, Nat)
<1>1. T \subseteq Nat /\ T # {}
  OBVIOUS
<1>2. PICK m \in T : \A y \in T : <<y, m>> \notin R
  <2> HIDE DEF T, R
  <2>1. IsWellFoundedOn(R, Nat)
    BY NatLessThanWellFounded DEF R
  <2> QED  BY <1>1, <2>1, WFMin
<1>3. m # 0 /\ m \in Nat
  OBVIOUS
<1>4. m - 1 \in Nat /\ (m - 1) + 1 = m
  BY <1>3
<1>5. m - 1 \notin S
  BY <1>4
<1>6. <<m - 1, m>> \in R
  BY <1>3, <1>4 DEF OpToRel
<1> QED  BY <1>2, <1>4, <1>5, <1>6

\* Every finite set has a property that a set has whenever its proper subsets do.
LEMMA SubsetsBySize ==
    ASSUME NEW S, IsFiniteSet(S), NEW A,
           \A T \in SUBSET S : (\A U \in SUBSET T : U # T => U \in A) => T \in A
    PROVE  SUBSET S \subseteq A
<1> SUFFICES ASSUME ~(SUBSET S \subseteq A)
             PROVE  FALSE
  OBVIOUS
<1> DEFINE B == (SUBSET S) \ A
           R == StrictSubsetOrdering(S)
<1>1. B \subseteq SUBSET S /\ B # {}
  OBVIOUS
<1>2. PICK T \in B : \A U \in B : <<U, T>> \notin R
  <2>1. FiniteSubsetsOf(S) = SUBSET S
    BY FS_FiniteSubsetsOfFinite
  <2>2. IsWellFoundedOn(R, FiniteSubsetsOf(S))
    BY FS_StrictSubsetOrderingWellFounded
  <2> HIDE DEF B, R
  <2> QED  BY <1>1, <2>1, <2>2, WFMin
<1>3. ASSUME NEW U \in SUBSET T, U # T
      PROVE  U \in A
  <2>1. U \in SUBSET S /\ T \in SUBSET S
    BY <1>3
  <2>2. <<U, T>> \in R
    BY <1>3, <2>1 DEF StrictSubsetOrdering
  <2> QED  BY <1>2, <2>1, <2>2
<1> QED  BY <1>3

\* ... or whenever it is empty or has one element more than a set that has it.
LEMMA SubsetsByAdding ==
    ASSUME NEW S, IsFiniteSet(S), NEW A, {} \in A,
           \A T \in SUBSET S : \A x \in S \ T : T \in A => T \cup {x} \in A
    PROVE  S \in A
<1>1. ASSUME NEW T \in SUBSET S, \A U \in SUBSET T : U # T => U \in A
      PROVE  T \in A
  <2>1. CASE T = {}
    BY <2>1
  <2>2. ASSUME NEW x \in T
        PROVE  T \in A
    <3>1. T \ {x} \in A /\ T \ {x} \in SUBSET S /\ x \in S \ (T \ {x})
      BY <1>1
    <3>2. (T \ {x}) \cup {x} \in A
      BY <3>1
    <3>3. (T \ {x}) \cup {x} = T
      OBVIOUS
    <3> QED  BY <3>2, <3>3
  <2> QED  BY <2>1, <2>2
<1>2. SUBSET S \subseteq A
  BY <1>1, SubsetsBySize
<1> QED  BY <1>2
-----------------------------------------------------------------------------
(* Folds.                                                                   *)

\* What folding needs of c and F.
Chooses(c, S)   == \A T \in SUBSET S : T # {} => c[T] \in T
Stays(F, S, D)  == \A x \in S : \A d \in D : F[<<x, d>>] \in D

\* Folding F over the subsets of S, the elements taken in the order c chooses.
Folds(g, S, base, c, F) ==
    \A T \in SUBSET S :
        g[T] = IF T = {} THEN base ELSE F[<<c[T], g[T \ {c[T]}]>>]

LEMMA FoldExists ==
    ASSUME NEW S, IsFiniteSet(S), NEW D, NEW base \in D, NEW c, NEW F,
           Chooses(c, S), Stays(F, S, D)
    PROVE  \E g \in [SUBSET S -> D] : Folds(g, S, base, c, F)
<1> USE DEF Chooses, Stays
<1> DEFINE Upto(g, n) ==
             \A T \in SUBSET S : Cardinality(T) <= n =>
                 g[T] = IF T = {} THEN base ELSE F[<<c[T], g[T \ {c[T]}]>>]
           A == {n \in Nat : \E g \in [SUBSET S -> D] : Upto(g, n)}
<1>1. \A T \in SUBSET S : IsFiniteSet(T) /\ Cardinality(T) \in Nat
  BY FS_Subset, FS_CardinalityType
<1>2. 0 \in A
  <2>1. [T \in SUBSET S |-> base] \in [SUBSET S -> D]
    OBVIOUS
  <2>2. \A T \in SUBSET S : Cardinality(T) <= 0 => T = {}
    BY <1>1, FS_EmptySet
  <2>3. Upto([T \in SUBSET S |-> base], 0)
    BY <2>2
  <2> QED  BY <2>1, <2>3
<1>3. ASSUME NEW n \in A
      PROVE  n + 1 \in A
  <2>1. PICK g \in [SUBSET S -> D] : Upto(g, n)
    BY <1>3
  <2> DEFINE h == [T \in SUBSET S |-> IF T = {} THEN base ELSE F[<<c[T], g[T \ {c[T]}]>>]]
  <2>2. h \in [SUBSET S -> D]
    <3>1. ASSUME NEW T \in SUBSET S, T # {}
          PROVE  F[<<c[T], g[T \ {c[T]}]>>] \in D
      <4>1. c[T] \in S /\ g[T \ {c[T]}] \in D
        BY <3>1
      <4> QED  BY <4>1
    <3> QED  BY <3>1
  <2>3. ASSUME NEW T \in SUBSET S, Cardinality(T) <= n + 1, T # {}
        PROVE  h[T \ {c[T]}] = g[T \ {c[T]}]
    <3>1. c[T] \in T
      BY <2>3
    <3>2. Cardinality(T \ {c[T]}) = Cardinality(T) - 1
      BY <1>1, <3>1, FS_RemoveElement
    <3>3. T \ {c[T]} \in SUBSET S /\ Cardinality(T \ {c[T]}) <= n
      BY <1>1, <1>3, <2>3, <3>2
    <3> QED  BY <2>1, <3>3
  <2>4. Upto(h, n + 1)
    BY <2>3
  <2>5. n + 1 \in Nat
    BY <1>3
  <2> HIDE DEF h, Upto
  <2> QED  BY <2>2, <2>4, <2>5
<1>4. A = Nat
  <2> HIDE DEF A
  <2>1. A \subseteq Nat
    BY DEF A
  <2> QED  BY <1>2, <1>3, <2>1, NaturalsBySteps
<1>5. Cardinality(S) \in A
  BY <1>1, <1>4
<1>6. PICK g \in [SUBSET S -> D] : Upto(g, Cardinality(S))
  BY <1>5
<1>7. \A T \in SUBSET S : Cardinality(T) <= Cardinality(S)
  BY FS_Subset
<1> QED  BY <1>6, <1>7 DEF Folds
-----------------------------------------------------------------------------
(* Sums.                                                                    *)

Some(T) == CHOOSE x \in T : TRUE

Numbers(f, S) == \A x \in S : f[x] \in Int

\* Adding up f over the subsets of S.
Adds(g, f, S) ==
    \A T \in SUBSET S :
        g[T] = IF T = {} THEN 0 ELSE f[Some(T)] + g[T \ {Some(T)}]

LEMMA SumExists ==
    ASSUME NEW S, IsFiniteSet(S), NEW f, Numbers(f, S)
    PROVE  \E g \in [SUBSET S -> Int] : Adds(g, f, S) /\ Total(f, S) = g[S]
<1> DEFINE c == [T \in SUBSET S |-> Some(T)]
           F == [z \in S \X Int |-> f[z[1]] + z[2]]
           Sum(g) == g = [T \in SUBSET S |->
                            IF T = {} THEN 0 ELSE f[Some(T)] + g[T \ {Some(T)}]]
<1>1. \A T \in SUBSET S : T # {} => Some(T) \in T
  BY DEF Some
<1>2. \A x \in S : \A d \in Int : F[<<x, d>>] = f[x] + d /\ F[<<x, d>>] \in Int
  BY DEF Numbers
<1>3. PICK g \in [SUBSET S -> Int] : Folds(g, S, 0, c, F)
  <2>1. Chooses(c, S)
    BY <1>1 DEF Chooses
  <2>2. Stays(F, S, Int)
    BY <1>2 DEF Stays
  <2>4. 0 \in Int
    OBVIOUS
  <2> HIDE DEF c, F
  <2>3. \E g \in [SUBSET S -> Int] : Folds(g, S, 0, c, F)
    BY <2>1, <2>2, <2>4, FoldExists, Zenon
  <2> QED  BY <2>3
<1>4. Adds(g, f, S)
  <2>1. ASSUME NEW T \in SUBSET S
        PROVE  g[T] = IF T = {} THEN 0 ELSE f[Some(T)] + g[T \ {Some(T)}]
    <3>1. CASE T = {}
      BY <1>3, <3>1 DEF Folds
    <3>2. CASE T # {}
      <4>1. c[T] = Some(T) /\ Some(T) \in S /\ g[T \ {Some(T)}] \in Int
        BY <1>1, <3>2
      <4>2. g[T] = F[<<Some(T), g[T \ {Some(T)}]>>]
        BY <1>3, <3>2, <4>1 DEF Folds
      <4> HIDE DEF F
      <4> QED  BY <1>2, <3>2, <4>1, <4>2
    <3> QED  BY <3>1, <3>2
  <2> QED  BY <2>1 DEF Adds
<1>5. Sum(g)
  BY <1>4 DEF Adds
<1>6. PICK it : it = (CHOOSE h : Sum(h)) /\ Sum(it) /\ Total(f, S) = it[S]
  <2>1. Total(f, S) = (CHOOSE h : Sum(h))[S]
    BY DEF Total, MapThenSumSet, MapThenFoldSet, Some
  <2>2. Sum(CHOOSE h : Sum(h))
    BY <1>5
  <2> HIDE DEF Sum
  <2> QED  BY <2>1, <2>2
<1>7. Adds(it, f, S)
  BY <1>6 DEF Adds
<1>8. it = g
  <2> DEFINE A == {T \in SUBSET S : it[T] = g[T]}
  <2>1. ASSUME NEW T \in SUBSET S, \A U \in SUBSET T : U # T => U \in A
        PROVE  T \in A
    <3>1. CASE T = {}
      BY <1>4, <1>7, <3>1 DEF Adds
    <3>2. CASE T # {}
      <4>1. Some(T) \in T
        BY <1>1, <3>2
      <4>2. it[T \ {Some(T)}] = g[T \ {Some(T)}]
        BY <2>1, <4>1
      <4> QED  BY <1>4, <1>7, <3>2, <4>2 DEF Adds
    <3> QED  BY <3>1, <3>2
  <2>2. SUBSET S \subseteq A
    <3> HIDE DEF A
    <3> QED  BY <2>1, SubsetsBySize
  <2>3. \A T \in SUBSET S : it[T] = g[T]
    BY <2>2
  <2>4. it = [T \in SUBSET S |-> it[T]] /\ g = [T \in SUBSET S |-> g[T]]
    BY <1>6
  <2> QED  BY <2>3, <2>4
<1> QED  BY <1>4, <1>6, <1>8

LEMMA TotalType ==
    ASSUME NEW S, IsFiniteSet(S), NEW f, Numbers(f, S)
    PROVE  Total(f, S) \in Int
<1>1. PICK g \in [SUBSET S -> Int] : Adds(g, f, S) /\ Total(f, S) = g[S]
  BY SumExists
<1> QED  BY <1>1

LEMMA TotalEmpty ==
    ASSUME NEW f
    PROVE  Total(f, {}) = 0
<1>1. IsFiniteSet({}) /\ Numbers(f, {})
  BY FS_EmptySet DEF Numbers
<1> QED  BY <1>1, SumExists DEF Adds

\* Whatever is added first, the sum is the same.
FirstIsAny(g, f, S) == \A T \in SUBSET S : \A y \in T : g[T] = f[y] + g[T \ {y}]

LEMMA AnyFirst ==
    ASSUME NEW S, IsFiniteSet(S), NEW f, Numbers(f, S),
           NEW g \in [SUBSET S -> Int], Adds(g, f, S)
    PROVE  FirstIsAny(g, f, S)
<1> DEFINE A == {T \in SUBSET S : \A y \in T : g[T] = f[y] + g[T \ {y}]}
<1>1. ASSUME NEW T \in SUBSET S, \A U \in SUBSET T : U # T => U \in A
      PROVE  T \in A
  <2>1. ASSUME NEW y \in T
        PROVE  g[T] = f[y] + g[T \ {y}]
    <3> DEFINE z == Some(T)
    <3>1. z \in T /\ g[T] = f[z] + g[T \ {z}]
      BY DEF Adds, Some
    <3> HIDE DEF z
    <3>2. CASE z = y
      BY <3>1, <3>2
    <3>3. CASE z # y
      <4>1. T \ {z} \in A /\ T \ {y} \in A /\ y \in T \ {z} /\ z \in T \ {y}
        BY <1>1, <3>1, <3>3
      <4>2. g[T \ {z}] = f[y] + g[(T \ {z}) \ {y}]
        BY <4>1
      <4>3. g[T \ {y}] = f[z] + g[(T \ {y}) \ {z}]
        BY <4>1
      <4>4. (T \ {z}) \ {y} = (T \ {y}) \ {z}
        OBVIOUS
      <4>5. f[y] \in Int /\ f[z] \in Int /\ g[(T \ {y}) \ {z}] \in Int
        BY <3>1 DEF Numbers
      <4>6. g[T \ {z}] = f[y] + g[(T \ {y}) \ {z}]
        BY <4>2, <4>4
      <4>7. g[T] = f[z] + (f[y] + g[(T \ {y}) \ {z}])
        BY <3>1, <4>6
      <4> QED  BY <4>3, <4>5, <4>7
    <3> QED  BY <3>2, <3>3
  <2> QED  BY <2>1
<1>2. SUBSET S \subseteq A
  <2> HIDE DEF A
  <2> QED  BY <1>1, SubsetsBySize
<1> QED  BY <1>2 DEF FirstIsAny

LEMMA TotalAdd ==
    ASSUME NEW S, IsFiniteSet(S), NEW x, x \notin S, NEW f, Numbers(f, S \cup {x})
    PROVE  Total(f, S \cup {x}) = Total(f, S) + f[x]
<1> DEFINE W == S \cup {x}
<1>1. IsFiniteSet(W)
  BY FS_AddElement
<1>0. Numbers(f, S)
  BY DEF Numbers
<1>2. PICK g \in [SUBSET W -> Int] : Adds(g, f, W) /\ Total(f, W) = g[W]
  BY <1>1, SumExists
<1>3. PICK h \in [SUBSET S -> Int] : Adds(h, f, S) /\ Total(f, S) = h[S]
  BY <1>0, SumExists
<1>4. h[S] = g[S]
  <2> DEFINE A == {T \in SUBSET S : h[T] = g[T]}
  <2>1. ASSUME NEW T \in SUBSET S, \A U \in SUBSET T : U # T => U \in A
        PROVE  T \in A
    <3>1. CASE T = {}
      BY <1>2, <1>3, <3>1 DEF Adds
    <3>2. CASE T # {}
      <4>1. Some(T) \in T
        BY <3>2 DEF Some
      <4>2. h[T \ {Some(T)}] = g[T \ {Some(T)}]
        BY <2>1, <4>1
      <4> QED  BY <1>2, <1>3, <3>2, <4>2 DEF Adds
    <3> QED  BY <3>1, <3>2
  <2>2. SUBSET S \subseteq A
    <3> HIDE DEF A
    <3> QED  BY <2>1, SubsetsBySize
  <2> QED  BY <2>2
<1>5. g[W] = f[x] + g[W \ {x}]
  <2>1. FirstIsAny(g, f, W)
    <3> HIDE DEF W
    <3>1. Numbers(f, W)
      BY DEF W
    <3> QED  BY <1>1, <1>2, <3>1, AnyFirst
  <2> QED  BY <2>1 DEF FirstIsAny
<1>6. W \ {x} = S /\ f[x] \in Int /\ h[S] \in Int
  BY DEF Numbers
<1>7. Total(f, W) = f[x] + Total(f, S)
  <2> HIDE DEF W
  <2> QED  BY <1>2, <1>3, <1>4, <1>5, <1>6
<1>8. Total(f, S) \in Int
  BY <1>3, <1>6
<1> QED  BY <1>6, <1>7, <1>8
\* A step of an induction over the set that is summed over.
LEMMA TotalNext ==
    ASSUME NEW S, IsFiniteSet(S), NEW f, Numbers(f, S),
           NEW T \in SUBSET S, NEW x \in S \ T
    PROVE  /\ Total(f, T \cup {x}) = Total(f, T) + f[x]
           /\ Total(f, T) \in Int /\ f[x] \in Int
<1>1. IsFiniteSet(T)
  BY FS_Subset
<1>2. Numbers(f, T) /\ Numbers(f, T \cup {x}) /\ f[x] \in Int
  BY DEF Numbers
<1> QED  BY <1>1, <1>2, TotalAdd, TotalType

\* Where f is h but for one more on C, its sum is that of h and the size of C.
LEMMA TotalMore ==
    ASSUME NEW S, IsFiniteSet(S), NEW f, NEW h, NEW C \in SUBSET S, Numbers(h, S),
           \A x \in S : f[x] = IF x \in C THEN h[x] + 1 ELSE h[x]
    PROVE  Total(f, S) = Total(h, S) + Cardinality(C)
<1> DEFINE A == {T \in SUBSET S : Total(f, T) = Total(h, T) + Cardinality(C \cap T)}
<1>1. Numbers(f, S)
  BY DEF Numbers
<1>2. {} \in A
  <2>1. C \cap {} = {}
    OBVIOUS
  <2>2. Total(f, {}) = 0 /\ Total(h, {}) = 0 /\ Cardinality(C \cap {}) = 0
    BY <2>1, TotalEmpty, FS_EmptySet
  <2> QED  BY <2>2
<1>3. ASSUME NEW T \in SUBSET S, NEW x \in S \ T, T \in A
      PROVE  T \cup {x} \in A
  <2>1. /\ Total(f, T \cup {x}) = Total(f, T) + f[x]
        /\ Total(h, T \cup {x}) = Total(h, T) + h[x]
        /\ Total(h, T) \in Int /\ h[x] \in Int
    BY <1>1, TotalNext
  <2>2. Total(f, T) = Total(h, T) + Cardinality(C \cap T)
    BY <1>3
  <2>3. IsFiniteSet(C \cap T) /\ Cardinality(C \cap T) \in Nat
    BY FS_Subset, FS_CardinalityType
  <2>4. CASE x \in C
    <3>1. C \cap (T \cup {x}) = (C \cap T) \cup {x} /\ x \notin C \cap T
      BY <2>4
    <3>2. Cardinality(C \cap (T \cup {x})) = Cardinality(C \cap T) + 1
      BY <2>3, <3>1, FS_AddElement
    <3> QED  BY <2>1, <2>2, <2>3, <2>4, <3>2
  <2>5. CASE x \notin C
    <3>1. C \cap (T \cup {x}) = C \cap T
      BY <2>5
    <3>2. Cardinality(C \cap (T \cup {x})) = Cardinality(C \cap T)
      BY <3>1
    <3>3. f[x] = h[x]
      BY <2>5
    <3>4. Total(f, T \cup {x}) = Total(h, T \cup {x}) + Cardinality(C \cap (T \cup {x}))
      BY <2>1, <2>2, <2>3, <3>2, <3>3
    <3> QED  BY <3>4
  <2> QED  BY <2>4, <2>5
<1>4. S \in A
  <2> HIDE DEF A
  <2> QED  BY <1>2, <1>3, SubsetsByAdding
<1>5. C \cap S = C
  OBVIOUS
<1> QED  BY <1>4, <1>5

LEMMA TotalSame ==
    ASSUME NEW S, IsFiniteSet(S), NEW f, NEW h, Numbers(h, S),
           \A x \in S : f[x] = h[x]
    PROVE  Total(f, S) = Total(h, S)
<1>1. Total(f, S) = Total(h, S) + Cardinality({})
  BY TotalMore
<1>2. Total(h, S) \in Int /\ Cardinality({}) = 0
  BY TotalType, FS_EmptySet
<1> QED  BY <1>1, <1>2

\* What is 0 on part of a set adds nothing there.
LEMMA TotalWithin ==
    ASSUME NEW S, IsFiniteSet(S), NEW W \in SUBSET S, NEW f, Numbers(f, S),
           \A x \in S \ W : f[x] = 0
    PROVE  Total(f, S) = Total(f, W)
<1> DEFINE A == {T \in SUBSET (S \ W) : Total(f, W \cup T) = Total(f, W)}
<1>1. {} \in A
  <2>1. W \cup {} = W
    OBVIOUS
  <2> QED  BY <2>1
<1>2. ASSUME NEW T \in SUBSET (S \ W), NEW x \in (S \ W) \ T, T \in A
      PROVE  T \cup {x} \in A
  <2> DEFINE V == W \cup T
  <2>1. V \in SUBSET S /\ x \in S \ V /\ f[x] = 0
    OBVIOUS
  <2>2. V \cup {x} = W \cup (T \cup {x}) /\ Total(f, V) = Total(f, W)
    BY <1>2
  <2> HIDE DEF V
  <2>3. Total(f, V \cup {x}) = Total(f, V) + f[x] /\ Total(f, V) \in Int
    BY <2>1, TotalNext
  <2>4. Total(f, V \cup {x}) = Total(f, V)
    BY <2>1, <2>3
  <2>5. Total(f, W \cup (T \cup {x})) = Total(f, W)
    BY <2>2, <2>4, Zenon
  <2> QED  BY <2>5
<1>3. IsFiniteSet(S \ W)
  BY FS_Difference
<1>4. S \ W \in A
  <2> HIDE DEF A
  <2> QED  BY <1>1, <1>2, <1>3, SubsetsByAdding
<1>5. W \cup (S \ W) = S
  OBVIOUS
<1> QED  BY <1>4, <1>5

LEMMA TotalZero ==
    ASSUME NEW S, IsFiniteSet(S), NEW f, \A x \in S : f[x] = 0
    PROVE  Total(f, S) = 0
<1>1. Numbers(f, S) /\ {} \in SUBSET S
  BY DEF Numbers
<1>2. Total(f, S) = Total(f, {})
  BY <1>1, TotalWithin
<1> QED  BY <1>2, TotalEmpty

\* A change of f in one place.
LEMMA TotalChange ==
    ASSUME NEW S, IsFiniteSet(S), NEW x \in S, NEW f, NEW h, Numbers(f, S), h[x] \in Int,
           \A y \in S \ {x} : h[y] = f[y]
    PROVE  /\ Total(h, S) = Total(f, S) - f[x] + h[x]
           /\ Total(f, S) \in Int
<1> DEFINE T == S \ {x}
<1>1. T \in SUBSET S /\ x \in S \ T /\ T \cup {x} = S
  OBVIOUS
<1>2. Numbers(h, S) /\ Numbers(f, T) /\ IsFiniteSet(T)
  BY <1>1, FS_Subset DEF Numbers
<1>3. Total(h, T) = Total(f, T)
  BY <1>2, TotalSame
<1>4. /\ Total(f, S) = Total(f, T) + f[x] /\ Total(f, T) \in Int /\ f[x] \in Int
      /\ Total(h, S) = Total(h, T) + h[x]
  <2> HIDE DEF T
  <2> QED  BY <1>1, <1>2, TotalNext
<1> HIDE DEF T
<1> QED  BY <1>3, <1>4

\* A sum of what is not negative is not negative.
LEMMA TotalNatural ==
    ASSUME NEW S, IsFiniteSet(S), NEW f, \A x \in S : f[x] \in Nat
    PROVE  Total(f, S) \in Nat
<1> DEFINE A == {T \in SUBSET S : Total(f, T) \in Nat}
<1>1. Numbers(f, S)
  BY DEF Numbers
<1>2. {} \in A
  BY TotalEmpty
<1>3. ASSUME NEW T \in SUBSET S, NEW x \in S \ T, T \in A
      PROVE  T \cup {x} \in A
  BY <1>1, <1>3, TotalNext
<1> HIDE DEF A
<1>4. S \in A
  BY <1>2, <1>3, SubsetsByAdding
<1> QED  BY <1>4 DEF A

\* The sum over a list, one element longer.
LEMMA TotalOfNext ==
    ASSUME NEW n \in Nat, NEW f, NEW h, Numbers(f, 1..n), h[n + 1] \in Int,
           \A i \in 1..n : h[i] = f[i]
    PROVE  /\ Total(h, 1..(n + 1)) = Total(f, 1..n) + h[n + 1]
           /\ Total(f, 1..n) \in Int
<1>1. 1..(n + 1) = (1..n) \cup {n + 1} /\ n + 1 \notin 1..n
  OBVIOUS
<1>2. IsFiniteSet(1..n)
  BY FS_Interval
<1>3. Numbers(h, (1..n) \cup {n + 1})
  BY DEF Numbers
<1>4. Total(h, (1..n) \cup {n + 1}) = Total(h, 1..n) + h[n + 1]
  BY <1>1, <1>2, <1>3, TotalAdd
<1>5. Total(h, 1..n) = Total(f, 1..n)
  BY <1>2, TotalSame
<1> QED  BY <1>1, <1>2, <1>4, <1>5, TotalType
-----------------------------------------------------------------------------
(* First and last.                                                          *)

\* A set of numbers that is not empty has a first, and if it is finite a last.
LEMMA FirstNumber ==
    ASSUME NEW T \in SUBSET Nat, T # {}
    PROVE  \E m \in T : \A y \in T : m <= y
<1> DEFINE R == OpToRel(<, Nat)
<1>1. PICK m \in T : \A y \in T : <<y, m>> \notin R
  <2>1. IsWellFoundedOn(R, Nat)
    BY NatLessThanWellFounded
  <2> HIDE DEF R
  <2> QED  BY <2>1, WFMin
<1>2. \A y \in T : ~(y < m)
  BY <1>1 DEF OpToRel
<1> QED  BY <1>2

LEMMA LastNumber ==
    ASSUME NEW n \in Nat, NEW T \in SUBSET (1..n), T # {}
    PROVE  \E m \in T : \A y \in T : m >= y
<1> DEFINE W == {n - y : y \in T}
<1>1. W \in SUBSET Nat /\ W # {}
  <2>1. \A y \in T : n - y \in Nat
    OBVIOUS
  <2> QED  BY <2>1
<1>2. PICK w \in W : \A v \in W : w <= v
  <2> HIDE DEF W
  <2> QED  BY <1>1, FirstNumber
<1>3. PICK m \in T : w = n - m
  OBVIOUS
<1>4. ASSUME NEW y \in T
      PROVE  m >= y
  <2>1. n - m <= n - y
    BY <1>2, <1>3
  <2> QED  BY <2>1
<1> QED  BY <1>4
-----------------------------------------------------------------------------
(* Lists with repetitions.                                                  *)

Places(s, t) == {i \in 1..Len(s) : s[i] = t}
Copies(s, t) == Cardinality(Places(s, t))

LEMMA PlacesFinite ==
    ASSUME NEW S, NEW s \in Seq(S), NEW t
    PROVE  /\ IsFiniteSet(Places(s, t)) /\ Copies(s, t) \in Nat
           /\ Copies(s, t) <= Len(s)
           /\ Copies(s, t) = 0 <=> Places(s, t) = {}
<1>1. IsFiniteSet(1..Len(s)) /\ Cardinality(1..Len(s)) = Len(s)
  <2>1. Len(s) \in Nat
    OBVIOUS
  <2> QED  BY <2>1, FS_Interval
<1>2. Places(s, t) \subseteq 1..Len(s)
  BY DEF Places
<1>3. IsFiniteSet(Places(s, t)) /\ Cardinality(Places(s, t)) <= Len(s)
  BY <1>1, <1>2, FS_Subset
<1> QED  BY <1>3, FS_CardinalityType, FS_EmptySet DEF Copies

LEMMA CopiesOfNothing ==
    ASSUME NEW t
    PROVE  Copies(<<>>, t) = 0
<1>1. Places(<<>>, t) = {}
  BY DEF Places
<1> QED  BY <1>1, FS_EmptySet DEF Copies

LEMMA CopiesOfAppend ==
    ASSUME NEW S, NEW s \in Seq(S), NEW x \in S, NEW t
    PROVE  Copies(Append(s, x), t) = IF x = t THEN Copies(s, t) + 1 ELSE Copies(s, t)
<1> DEFINE a == Append(s, x)
<1>1. /\ Len(s) \in Nat /\ Len(a) = Len(s) + 1 /\ a[Len(s) + 1] = x
      /\ \A i \in 1..Len(s) : a[i] = s[i]
  OBVIOUS
<1> HIDE DEF a
<1>2. CASE x = t
  <2>1. Places(a, t) = Places(s, t) \cup {Len(s) + 1} /\ Len(s) + 1 \notin Places(s, t)
    BY <1>1, <1>2 DEF Places
  <2>2. Cardinality(Places(a, t)) = Cardinality(Places(s, t)) + 1
    BY <2>1, PlacesFinite, FS_AddElement
  <2> QED  BY <1>2, <2>2 DEF Copies, a
<1>3. CASE x # t
  <2>1. Places(a, t) = Places(s, t)
    BY <1>1, <1>3 DEF Places
  <2> QED  BY <1>3, <2>1 DEF Copies, a
<1> QED  BY <1>2, <1>3

\* Places in another list, by a bijection.
LEMMA CopiesMatch ==
    ASSUME NEW S, NEW s \in Seq(S), NEW r, NEW t, NEW W \in SUBSET Places(s, t),
           NEW f \in [W -> Places(r, t)],
           \A i, k \in W : f[i] = f[k] => i = k,
           \A k \in Places(r, t) : \E i \in W : f[i] = k
    PROVE  Copies(r, t) = Cardinality(W)
<1>1. f \in Bijection(W, Places(r, t))
  BY DEF Bijection, Injection, Surjection, IsInjective
<1>2. IsFiniteSet(W)
  BY PlacesFinite, FS_Subset
<1> QED  BY <1>1, <1>2, FS_Bijection DEF Copies, ExistsBijection

LEMMA CopiesAfterFirst ==
    ASSUME NEW S, NEW s \in Seq(S), NEW x, NEW t, x # t
    PROVE  Copies(<<x>> \o s, t) = Copies(s, t)
<1> DEFINE r == <<x>> \o s
           f == [i \in Places(s, t) |-> i + 1]
<1>1. Len(s) \in Nat /\ Len(r) = Len(s) + 1 /\ r[1] = x /\ \A i \in 1..Len(s) : r[i + 1] = s[i]
  OBVIOUS
<1> HIDE DEF r
<1>2. f \in [Places(s, t) -> Places(r, t)]
  BY <1>1 DEF Places
<1>3. \A i, k \in Places(s, t) : f[i] = f[k] => i = k
  BY <1>1 DEF Places
<1>4. ASSUME NEW k \in Places(r, t)
      PROVE  \E i \in Places(s, t) : f[i] = k
  <2>1. k \in 2..Len(r)
    BY <1>1 DEF Places
  <2>2. k - 1 \in 1..Len(s) /\ (k - 1) + 1 = k
    BY <1>1, <2>1
  <2>3. s[k - 1] = t
    BY <1>1, <2>2 DEF Places
  <2>4. k - 1 \in Places(s, t)
    BY <2>2, <2>3 DEF Places
  <2> QED  BY <2>2, <2>4
<1> HIDE DEF f
<1>5. Copies(r, t) = Cardinality(Places(s, t))
  BY <1>2, <1>3, <1>4, CopiesMatch
<1> QED  BY <1>5 DEF Copies, r

\* RemoveFirst takes out one element, the rest keep their order.
LEMMA RemoveFirstFinds ==
    ASSUME NEW S, NEW s \in Seq(S), NEW e
    PROVE  \/ Places(s, e) = {} /\ RemoveFirst(s, e) = s
           \/ \E k \in Places(s, e) :
                /\ RemoveFirst(s, e) \in Seq(S)
                /\ Len(RemoveFirst(s, e)) = Len(s) - 1
                /\ \A i \in 1..(Len(s) - 1) :
                     RemoveFirst(s, e)[i] = IF i < k THEN s[i] ELSE s[i + 1]
<1>1. CASE Places(s, e) = {}
  <2>1. ~\E i \in 1..Len(s) : s[i] = e
    BY <1>1 DEF Places
  <2> QED  BY <1>1, <2>1 DEF RemoveFirst
<1>2. CASE Places(s, e) # {}
  <2> DEFINE k == SelectInSeq(s, LAMBDA v : v = e)
  <2>1. k = Min(Places(s, e))
    BY <1>2 DEF SelectInSeq, Places
  <2>2. Places(s, e) \in SUBSET Nat
    BY DEF Places
  <2>3. \E m \in Places(s, e) : \A y \in Places(s, e) : m <= y
    BY <1>2, <2>2, FirstNumber
  <2>4. Min(Places(s, e)) \in Places(s, e)
    BY <2>3 DEF Min
  <2>5. k \in 1..Len(s) /\ s[k] = e /\ k \in Places(s, e)
    BY <2>1, <2>4 DEF Places
  <2>6. RemoveFirst(s, e) = SubSeq(s, 1, k - 1) \o SubSeq(s, k + 1, Len(s))
    BY <2>5 DEF RemoveFirst, RemoveAt
  <2> HIDE DEF k
  <2>7. Len(s) \in Nat /\ k \in Nat
    BY <2>5
  <2>8. /\ SubSeq(s, 1, k - 1) \in Seq(S) /\ Len(SubSeq(s, 1, k - 1)) = k - 1
        /\ \A i \in 1..(k - 1) : SubSeq(s, 1, k - 1)[i] = s[i]
    BY <2>5, <2>7
  <2>9. /\ SubSeq(s, k + 1, Len(s)) \in Seq(S) /\ Len(SubSeq(s, k + 1, Len(s))) = Len(s) - k
        /\ \A i \in 1..(Len(s) - k) : SubSeq(s, k + 1, Len(s))[i] = s[k + i]
    BY <2>5, <2>7
  <2> DEFINE a == SubSeq(s, 1, k - 1)
             b == SubSeq(s, k + 1, Len(s))
  <2>10. /\ a \in Seq(S) /\ b \in Seq(S) /\ Len(a) = k - 1 /\ Len(b) = Len(s) - k
         /\ \A i \in 1..(k - 1) : a[i] = s[i]
         /\ \A i \in 1..(Len(s) - k) : b[i] = s[k + i]
         /\ RemoveFirst(s, e) = a \o b
    BY <2>6, <2>8, <2>9
  <2> HIDE DEF a, b
  <2>11. /\ a \o b \in Seq(S) /\ Len(a \o b) = Len(s) - 1
         /\ \A i \in 1..(k - 1) : (a \o b)[i] = a[i]
         /\ \A i \in 1..(Len(s) - k) : (a \o b)[(k - 1) + i] = b[i]
    <3>1. k - 1 \in Nat /\ (k - 1) + (Len(s) - k) = Len(s) - 1
      BY <2>5, <2>7
    <3>2. /\ a \o b \in Seq(S) /\ Len(a \o b) = Len(a) + Len(b)
          /\ \A i \in 1..Len(a) : (a \o b)[i] = a[i]
          /\ \A i \in 1..Len(b) : (a \o b)[Len(a) + i] = b[i]
      <4>1. a \in Seq(S) /\ b \in Seq(S)
        BY <2>10
      <4> QED  BY <4>1
    <3> QED  BY <2>10, <3>1, <3>2
  <2>12. ASSUME NEW i \in 1..(Len(s) - 1)
         PROVE  (a \o b)[i] = IF i < k THEN s[i] ELSE s[i + 1]
    <3>1. CASE i < k
      BY <2>7, <2>10, <2>11, <3>1
    <3>2. CASE ~(i < k)
      <4>1. i - (k - 1) \in 1..(Len(s) - k) /\ (k - 1) + (i - (k - 1)) = i
            /\ k + (i - (k - 1)) = i + 1
        BY <2>5, <2>7, <3>2
      <4>2. \A h \in 1..(Len(s) - k) : (a \o b)[(k - 1) + h] = s[k + h]
        BY <2>10, <2>11
      <4>3. (a \o b)[(k - 1) + (i - (k - 1))] = s[k + (i - (k - 1))]
        BY <4>1, <4>2
      <4>4. (a \o b)[i] = s[i + 1]
        BY <4>1, <4>3
      <4> QED  BY <3>2, <4>4
    <3> QED  BY <3>1, <3>2
  <2> QED  BY <2>5, <2>10, <2>11, <2>12
<1> QED  BY <1>1, <1>2

LEMMA CopiesAfterRemove ==
    ASSUME NEW S, NEW s \in Seq(S), NEW e
    PROVE  /\ RemoveFirst(s, e) \in Seq(S) /\ Len(RemoveFirst(s, e)) <= Len(s)
           /\ \A t : Copies(RemoveFirst(s, e), t)
                     = IF t = e /\ Copies(s, t) > 0 THEN Copies(s, t) - 1 ELSE Copies(s, t)
<1> DEFINE r == RemoveFirst(s, e)
<1>1. CASE Places(s, e) = {} /\ r = s
  <2>1. Copies(s, e) = 0 /\ ~(Copies(s, e) > 0)
    BY <1>1, PlacesFinite
  <2> QED  BY <1>1, <2>1
<1>2. ASSUME NEW k \in Places(s, e), r \in Seq(S), Len(r) = Len(s) - 1,
             \A i \in 1..(Len(s) - 1) : r[i] = IF i < k THEN s[i] ELSE s[i + 1]
      PROVE  /\ r \in Seq(S) /\ Len(r) <= Len(s)
             /\ \A t : Copies(r, t)
                       = IF t = e /\ Copies(s, t) > 0 THEN Copies(s, t) - 1 ELSE Copies(s, t)
  <2> HIDE DEF r
  <2>1. Len(s) \in Nat /\ k \in 1..Len(s) /\ s[k] = e
    BY DEF Places
  <2>2. ASSUME NEW t
        PROVE  Copies(r, t) = Cardinality(Places(s, t) \ {k})
    <3> DEFINE W == Places(s, t) \ {k}
               f == [i \in W |-> IF i < k THEN i ELSE i - 1]
    <3>1. f \in [W -> Places(r, t)]
      <4>1. ASSUME NEW i \in W
            PROVE  (IF i < k THEN i ELSE i - 1) \in Places(r, t)
        <5>1. i \in 1..Len(s) /\ s[i] = t /\ i # k
          BY DEF Places
        <5>2. CASE i < k
          <6>1. i \in 1..(Len(s) - 1) /\ r[i] = s[i]
            BY <1>2, <2>1, <5>1, <5>2
          <6> QED  BY <1>2, <5>1, <5>2, <6>1 DEF Places
        <5>3. CASE ~(i < k)
          <6>1. i - 1 \in 1..(Len(s) - 1) /\ ~(i - 1 < k) /\ (i - 1) + 1 = i
            BY <2>1, <5>1, <5>3
          <6>2. r[i - 1] = s[i]
            BY <1>2, <6>1
          <6> QED  BY <1>2, <5>1, <5>3, <6>1, <6>2 DEF Places
        <5> QED  BY <5>2, <5>3
      <4> QED  BY <4>1
    <3>2. \A i, j \in W : f[i] = f[j] => i = j
      <4>1. \A i \in W : i \in 1..Len(s) /\ i # k
        BY DEF Places
      <4> QED  BY <2>1, <4>1
    <3>3. ASSUME NEW j \in Places(r, t)
          PROVE  \E i \in W : f[i] = j
      <4>1. j \in 1..(Len(s) - 1) /\ r[j] = t
        BY <1>2 DEF Places
      <4>2. CASE j < k
        <5>1. j \in 1..Len(s) /\ s[j] = t /\ j # k
          BY <1>2, <2>1, <4>1, <4>2
        <5>2. j \in W
          BY <5>1 DEF Places
        <5> QED  BY <4>2, <5>2
      <4>3. CASE ~(j < k)
        <5>1. j + 1 \in 1..Len(s) /\ s[j + 1] = t /\ j + 1 # k /\ ~(j + 1 < k)
              /\ (j + 1) - 1 = j
          BY <1>2, <2>1, <4>1, <4>3
        <5>2. j + 1 \in W
          BY <5>1 DEF Places
        <5> QED  BY <5>1, <5>2
      <4> QED  BY <4>2, <4>3
    <3>4. W \in SUBSET Places(s, t)
      OBVIOUS
    <3> HIDE DEF W, f
    <3>5. Copies(r, t) = Cardinality(W)
      BY <3>1, <3>2, <3>3, <3>4, CopiesMatch
    <3> QED  BY <3>5 DEF W
  <2>3. ASSUME NEW t
        PROVE  Copies(r, t)
                 = IF t = e /\ Copies(s, t) > 0 THEN Copies(s, t) - 1 ELSE Copies(s, t)
    <3>1. IsFiniteSet(Places(s, t)) /\ Copies(s, t) \in Nat
      BY PlacesFinite
    <3>2. CASE t = e
      <4>1. k \in Places(s, t) /\ Copies(s, t) > 0
        BY <3>1, <3>2, PlacesFinite
      <4>2. Cardinality(Places(s, t) \ {k}) = Cardinality(Places(s, t)) - 1
        BY <3>1, <4>1, FS_RemoveElement
      <4> QED  BY <2>2, <3>2, <4>1, <4>2 DEF Copies
    <3>3. CASE t # e
      <4>1. Places(s, t) \ {k} = Places(s, t)
        BY <2>1, <3>3 DEF Places
      <4> QED  BY <2>2, <3>3, <4>1 DEF Copies
    <3> QED  BY <3>2, <3>3
  <2> QED  BY <1>2, <2>1, <2>3
<1> HIDE DEF r
<1>3. \/ Places(s, e) = {} /\ r = s
      \/ \E k \in Places(s, e) :
           /\ r \in Seq(S) /\ Len(r) = Len(s) - 1
           /\ \A i \in 1..(Len(s) - 1) : r[i] = IF i < k THEN s[i] ELSE s[i + 1]
  BY RemoveFirstFinds DEF r
<1>4. /\ r \in Seq(S) /\ Len(r) <= Len(s)
      /\ \A t : Copies(r, t)
                = IF t = e /\ Copies(s, t) > 0 THEN Copies(s, t) - 1 ELSE Copies(s, t)
  BY <1>1, <1>2, <1>3 DEF r
<1> QED  BY <1>4 DEF r
-----------------------------------------------------------------------------
(* Taking the elements of one list out of another.                          *)

RemoveAll(s, b) == FoldLeft(RemoveFirst, s, b)

\* Removing over the subsets of the places of b, the last place last.
Removes(g, s, b, S) ==
    \A T \in SUBSET S :
        g[T] = IF T = {} THEN s ELSE RemoveFirst(g[T \ {Max(T)}], b[Max(T)])

LEMMA MaxIsLast ==
    ASSUME NEW n \in Nat
    PROVE  /\ \A T \in SUBSET (1..n) : T # {} => Max(T) \in T
           /\ \A k \in 1..n : Max(1..k) = k
<1>1. ASSUME NEW T \in SUBSET (1..n), T # {}
      PROVE  Max(T) \in T /\ \A y \in T : Max(T) >= y
  <2>1. \E m \in T : \A y \in T : m >= y
    BY <1>1, LastNumber
  <2> QED  BY <2>1 DEF Max
<1>2. ASSUME NEW k \in 1..n
      PROVE  Max(1..k) = k
  <2>1. 1..k \in SUBSET (1..n) /\ 1..k # {} /\ k \in 1..k
    OBVIOUS
  <2>2. Max(1..k) \in 1..k /\ Max(1..k) >= k
    BY <1>1, <2>1
  <2> QED  BY <2>2
<1> QED  BY <1>1, <1>2

LEMMA RemovesExists ==
    ASSUME NEW A, NEW s \in Seq(A), NEW B, NEW b \in Seq(B)
    PROVE  \E g \in [SUBSET (1..Len(b)) -> Seq(A)] :
             Removes(g, s, b, 1..Len(b)) /\ RemoveAll(s, b) = g[1..Len(b)]
<1> DEFINE S == 1..Len(b)
           D == Seq(A)
           c == [T \in SUBSET S |-> Max(T)]
           F == [z \in S \X D |-> RemoveFirst(z[2], b[z[1]])]
           Fold(g) == g = [T \in SUBSET S |->
                            IF T = {} THEN s ELSE RemoveFirst(g[T \ {Max(T)}], b[Max(T)])]
<1>0. Len(b) \in Nat /\ IsFiniteSet(S) /\ DOMAIN b = S /\ s \in D
  <2>1. Len(b) \in Nat
    OBVIOUS
  <2> QED  BY <2>1, FS_Interval
<1>1. \A T \in SUBSET S : T # {} => Max(T) \in T
  BY <1>0, MaxIsLast
<1>2. \A x \in S : \A d \in D : F[<<x, d>>] = RemoveFirst(d, b[x]) /\ F[<<x, d>>] \in D
  <2>1. \A d \in D : \A e : RemoveFirst(d, e) \in D
    BY CopiesAfterRemove
  <2> HIDE DEF D, S
  <2> QED  BY <2>1
<1> HIDE DEF D, S
<1>3. PICK g \in [SUBSET S -> D] : Folds(g, S, s, c, F)
  <2>1. Chooses(c, S)
    BY <1>1 DEF Chooses
  <2>2. Stays(F, S, D)
    BY <1>2 DEF Stays
  <2> HIDE DEF c, F
  <2>3. \E g \in [SUBSET S -> D] : Folds(g, S, s, c, F)
    BY <1>0, <2>1, <2>2, FoldExists, Zenon
  <2> QED  BY <2>3
<1>4. Removes(g, s, b, S)
  <2>1. ASSUME NEW T \in SUBSET S
        PROVE  g[T] = IF T = {} THEN s ELSE RemoveFirst(g[T \ {Max(T)}], b[Max(T)])
    <3>1. CASE T = {}
      BY <1>3, <3>1 DEF Folds
    <3>2. CASE T # {}
      <4>1. c[T] = Max(T) /\ Max(T) \in S /\ g[T \ {Max(T)}] \in D
        BY <1>1, <3>2
      <4>2. g[T] = F[<<Max(T), g[T \ {Max(T)}]>>]
        BY <1>3, <3>2, <4>1 DEF Folds
      <4> HIDE DEF F
      <4> QED  BY <1>2, <3>2, <4>1, <4>2
    <3> QED  BY <3>1, <3>2
  <2> QED  BY <2>1 DEF Removes
<1>5. Fold(g)
  BY <1>4 DEF Removes
<1>6. PICK it : it = (CHOOSE h : Fold(h)) /\ Fold(it) /\ RemoveAll(s, b) = it[S]
  <2>1. RemoveAll(s, b) = (CHOOSE h : Fold(h))[S]
    BY <1>0 DEF RemoveAll, FoldLeft, MapThenFoldSet
  <2>2. Fold(CHOOSE h : Fold(h))
    BY <1>5
  <2> HIDE DEF Fold
  <2> QED  BY <2>1, <2>2
<1>7. Removes(it, s, b, S)
  BY <1>6 DEF Removes
<1>8. it[S] = g[S]
  <2> DEFINE Q == {T \in SUBSET S : it[T] = g[T]}
  <2>1. ASSUME NEW T \in SUBSET S, \A U \in SUBSET T : U # T => U \in Q
        PROVE  T \in Q
    <3>1. CASE T = {}
      BY <1>4, <1>7, <3>1 DEF Removes
    <3>2. CASE T # {}
      <4>1. Max(T) \in T
        BY <1>1, <3>2
      <4>2. it[T \ {Max(T)}] = g[T \ {Max(T)}]
        BY <2>1, <4>1
      <4> QED  BY <1>4, <1>7, <3>2, <4>2 DEF Removes
    <3> QED  BY <3>1, <3>2
  <2>2. SUBSET S \subseteq Q
    <3> HIDE DEF Q
    <3> QED  BY <1>0, <2>1, SubsetsBySize
  <2> QED  BY <2>2
<1>9. \E h \in [SUBSET S -> D] : Removes(h, s, b, S) /\ RemoveAll(s, b) = h[S]
  BY <1>4, <1>6, <1>8
<1> QED  BY <1>9 DEF S, D

Less(m, n) == IF m < n THEN 0 ELSE m - n

\* Of each value the copies in b go, or all there are.
LEMMA CopiesAfterRemoveAll ==
    ASSUME NEW A, NEW s \in Seq(A), NEW B, NEW b \in Seq(B)
    PROVE  /\ RemoveAll(s, b) \in Seq(A) /\ Len(RemoveAll(s, b)) <= Len(s)
           /\ \A t : Copies(RemoveAll(s, b), t) = Less(Copies(s, t), Copies(b, t))
<1>1. PICK g \in [SUBSET (1..Len(b)) -> Seq(A)] :
             Removes(g, s, b, 1..Len(b)) /\ RemoveAll(s, b) = g[1..Len(b)]
  BY RemovesExists
<1>2. Len(b) \in Nat /\ Len(s) \in Nat
  OBVIOUS
<1> DEFINE Upto(k, t) == {i \in 1..k : b[i] = t}
           Q == {k \in Nat : k <= Len(b) =>
                   /\ Len(g[1..k]) <= Len(s)
                   /\ \A t : Copies(g[1..k], t) = Less(Copies(s, t), Cardinality(Upto(k, t)))}
<1>3. 0 \in Q
  <2>1. 1..0 = {} /\ {} \in SUBSET (1..Len(b))
    OBVIOUS
  <2>2. g[1..0] = s
    BY <1>1, <2>1, Zenon DEF Removes
  <2>3. ASSUME NEW t
        PROVE  Copies(g[1..0], t) = Less(Copies(s, t), Cardinality(Upto(0, t)))
    <3>1. Upto(0, t) = {}
      OBVIOUS
    <3>2. Cardinality(Upto(0, t)) = 0 /\ Copies(s, t) \in Nat
      BY <3>1, FS_EmptySet, PlacesFinite
    <3> HIDE DEF Upto
    <3> QED  BY <2>2, <3>2 DEF Less
  <2> HIDE DEF Upto
  <2>4. Len(g[1..0]) <= Len(s)
    BY <1>2, <2>2
  <2> QED  BY <2>3, <2>4
<1>4. ASSUME NEW k \in Q
      PROVE  k + 1 \in Q
  <2>1. k \in Nat /\ k + 1 \in Nat
    OBVIOUS
  <2> SUFFICES ASSUME k + 1 <= Len(b)
               PROVE  /\ Len(g[1..(k + 1)]) <= Len(s)
                      /\ \A t : Copies(g[1..(k + 1)], t)
                                = Less(Copies(s, t), Cardinality(Upto(k + 1, t)))
    BY <2>1
  <2>2. /\ Len(g[1..k]) <= Len(s)
        /\ \A t : Copies(g[1..k], t) = Less(Copies(s, t), Cardinality(Upto(k, t)))
    BY <1>2, <2>1
  <2>3. /\ 1..(k + 1) \in SUBSET (1..Len(b)) /\ 1..(k + 1) # {}
        /\ 1..k \in SUBSET (1..Len(b)) /\ (1..(k + 1)) \ {k + 1} = 1..k
        /\ k + 1 \in 1..Len(b)
    <3>1. k + 1 \in 1..Len(b) /\ k + 1 \in 1..(k + 1)
      BY <1>2, <2>1
    <3>2. (1..(k + 1)) \ {k + 1} = 1..k
      BY <2>1
    <3>3. \A i \in 1..(k + 1) : i \in 1..Len(b)
      BY <1>2, <2>1
    <3> QED  BY <3>1, <3>2, <3>3
  <2>4. Max(1..(k + 1)) = k + 1
    BY <1>2, <2>3, MaxIsLast
  <2>5. g[1..(k + 1)] = RemoveFirst(g[(1..(k + 1)) \ {k + 1}], b[k + 1])
    BY <1>1, <2>3, <2>4, Zenon DEF Removes
  <2>6. g[1..(k + 1)] = RemoveFirst(g[1..k], b[k + 1])
    BY <2>3, <2>5, Zenon
  <2>7. g[1..k] \in Seq(A)
    BY <2>3
  <2> DEFINE r == g[1..k]
             e == b[k + 1]
  <2>8. /\ RemoveFirst(r, e) \in Seq(A) /\ Len(RemoveFirst(r, e)) <= Len(r)
        /\ \A t : Copies(RemoveFirst(r, e), t)
                  = IF t = e /\ Copies(r, t) > 0 THEN Copies(r, t) - 1 ELSE Copies(r, t)
    <3> HIDE DEF e
    <3> QED  BY <2>7, CopiesAfterRemove
  <2>9. ASSUME NEW t
        PROVE  Copies(g[1..(k + 1)], t) = Less(Copies(s, t), Cardinality(Upto(k + 1, t)))
    <3>1. IsFiniteSet(Upto(k, t)) /\ Cardinality(Upto(k, t)) \in Nat
      <4>1. IsFiniteSet(1..k) /\ Upto(k, t) \subseteq 1..k
        BY <2>1, FS_Interval
      <4> HIDE DEF Upto
      <4> QED  BY <4>1, FS_Subset, FS_CardinalityType
    <3>2. Copies(s, t) \in Nat
      BY PlacesFinite
    <3>3. CASE t = e
      <4>1. Upto(k + 1, t) = Upto(k, t) \cup {k + 1} /\ k + 1 \notin Upto(k, t)
        BY <2>1, <3>3
      <4> HIDE DEF Upto, e, r
      <4>2. Cardinality(Upto(k + 1, t)) = Cardinality(Upto(k, t)) + 1
        BY <3>1, <4>1, FS_AddElement
      <4>3. Copies(r, t) = Less(Copies(s, t), Cardinality(Upto(k, t)))
        BY <2>2 DEF r
      <4>4. Copies(RemoveFirst(r, e), t) = IF Copies(r, t) > 0 THEN Copies(r, t) - 1 ELSE Copies(r, t)
        BY <2>8, <3>3
      <4>5. g[1..(k + 1)] = RemoveFirst(r, e)
        BY <2>6 DEF r, e
      <4> QED  BY <3>1, <3>2, <4>2, <4>3, <4>4, <4>5 DEF Less
    <3>4. CASE t # e
      <4>1. Upto(k + 1, t) = Upto(k, t)
        BY <2>1, <3>4
      <4> HIDE DEF Upto, e, r
      <4>2. Copies(RemoveFirst(r, e), t) = Copies(r, t)
        BY <2>8, <3>4
      <4>3. g[1..(k + 1)] = RemoveFirst(r, e)
        BY <2>6 DEF r, e
      <4> QED  BY <2>2, <4>1, <4>2, <4>3 DEF r
    <3> QED  BY <3>3, <3>4
  <2>10. Len(g[1..(k + 1)]) <= Len(s)
    <3>1. Len(RemoveFirst(r, e)) \in Nat /\ Len(r) \in Nat
      <4>1. RemoveFirst(r, e) \in Seq(A) /\ r \in Seq(A)
        BY <2>7, <2>8
      <4> HIDE DEF r, e
      <4> QED  BY <4>1
    <3>2. Len(RemoveFirst(r, e)) <= Len(r) /\ Len(r) <= Len(s) /\ g[1..(k + 1)] = RemoveFirst(r, e)
      BY <2>2, <2>6, <2>8
    <3> HIDE DEF r, e
    <3> QED  BY <1>2, <3>1, <3>2
  <2> HIDE DEF Upto
  <2> QED  BY <2>9, <2>10
<1>5. Q = Nat
  <2>1. Q \subseteq Nat
    OBVIOUS
  <2> HIDE DEF Q
  <2> QED  BY <1>3, <1>4, <2>1, NaturalsBySteps
<1>6. /\ Len(g[1..Len(b)]) <= Len(s)
      /\ \A t : Copies(g[1..Len(b)], t) = Less(Copies(s, t), Cardinality(Upto(Len(b), t)))
  <2>1. Len(b) \in Q
    BY <1>2, <1>5, Zenon
  <2> HIDE DEF Upto
  <2> QED  BY <1>2, <2>1
<1>7. \A t : Upto(Len(b), t) = Places(b, t)
  BY DEF Places
<1>8. g[1..Len(b)] \in Seq(A)
  BY <1>1
<1> HIDE DEF Upto
<1> QED  BY <1>1, <1>6, <1>7, <1>8 DEF Copies
-----------------------------------------------------------------------------
(* Sums of sums, of products, and over the values of a list.                *)

LEMMA TotalPlus ==
    ASSUME NEW S, IsFiniteSet(S), NEW f, NEW g, NEW h, Numbers(f, S), Numbers(g, S),
           \A x \in S : h[x] = f[x] + g[x]
    PROVE  Total(h, S) = Total(f, S) + Total(g, S)
<1> DEFINE A == {T \in SUBSET S : Total(h, T) = Total(f, T) + Total(g, T)}
<1>1. Numbers(h, S)
  BY DEF Numbers
<1>2. {} \in A
  BY TotalEmpty
<1>3. ASSUME NEW T \in SUBSET S, NEW x \in S \ T, T \in A
      PROVE  T \cup {x} \in A
  <2>1. Total(h, T \cup {x}) = Total(h, T) + h[x]
    BY <1>1, TotalNext
  <2>2. /\ Total(f, T \cup {x}) = Total(f, T) + f[x]
        /\ Total(f, T) \in Int /\ f[x] \in Int
    BY TotalNext
  <2>3. /\ Total(g, T \cup {x}) = Total(g, T) + g[x]
        /\ Total(g, T) \in Int /\ g[x] \in Int
    BY TotalNext
  <2> QED  BY <1>3, <2>1, <2>2, <2>3
<1> HIDE DEF A
<1>4. S \in A
  BY <1>2, <1>3, SubsetsByAdding
<1> QED  BY <1>4 DEF A

LEMMA Distributes ==
    ASSUME NEW a \in Int, NEW b \in Int, NEW w \in Int
    PROVE  (a + b) * w = a * w + b * w /\ a * w \in Int
OBVIOUS

LEMMA TotalTimes ==
    ASSUME NEW S, IsFiniteSet(S), NEW f, NEW h, NEW w \in Int, Numbers(f, S),
           \A x \in S : h[x] = f[x] * w
    PROVE  Total(h, S) = Total(f, S) * w
<1> DEFINE A == {T \in SUBSET S : Total(h, T) = Total(f, T) * w}
<1>1. Numbers(h, S)
  BY DEF Numbers
<1>2. {} \in A
  BY TotalEmpty
<1>3. ASSUME NEW T \in SUBSET S, NEW x \in S \ T, T \in A
      PROVE  T \cup {x} \in A
  <2>1. Total(h, T \cup {x}) = Total(h, T) + h[x]
    BY <1>1, TotalNext
  <2>2. /\ Total(f, T \cup {x}) = Total(f, T) + f[x]
        /\ Total(f, T) \in Int /\ f[x] \in Int
    BY TotalNext
  <2>3. (Total(f, T) + f[x]) * w = Total(f, T) * w + f[x] * w
    BY <2>2, Distributes
  <2> QED  BY <1>3, <2>1, <2>2, <2>3
<1> HIDE DEF A
<1>4. S \in A
  BY <1>2, <1>3, SubsetsByAdding
<1> QED  BY <1>4 DEF A

LEMMA TotalConstant ==
    ASSUME NEW S, IsFiniteSet(S), NEW h, NEW w \in Int, \A x \in S : h[x] = w
    PROVE  Total(h, S) = Cardinality(S) * w
<1> DEFINE A == {T \in SUBSET S : Total(h, T) = Cardinality(T) * w}
<1>1. Numbers(h, S)
  BY DEF Numbers
<1>2. {} \in A
  BY TotalEmpty, FS_EmptySet
<1>3. ASSUME NEW T \in SUBSET S, NEW x \in S \ T, T \in A
      PROVE  T \cup {x} \in A
  <2>1. Total(h, T \cup {x}) = Total(h, T) + h[x]
    BY <1>1, TotalNext
  <2>2. IsFiniteSet(T) /\ Cardinality(T) \in Nat
    BY FS_Subset, FS_CardinalityType
  <2>3. Cardinality(T \cup {x}) = Cardinality(T) + 1
    BY <2>2, FS_AddElement
  <2>4. (Cardinality(T) + 1) * w = Cardinality(T) * w + 1 * w
    BY <2>2, Distributes
  <2> QED  BY <1>3, <2>1, <2>2, <2>3, <2>4
<1> HIDE DEF A
<1>4. S \in A
  BY <1>2, <1>3, SubsetsByAdding
<1> QED  BY <1>4 DEF A

\* The sum over rows is the sum over columns.
LEMMA TotalSwap ==
    ASSUME NEW S, IsFiniteSet(S), NEW A, IsFiniteSet(A), NEW F, Numbers(F, S \X A),
           NEW rows, NEW r, NEW cols, NEW c,
           \A x \in S : r[x] = Total(rows[x], A) /\ \A t \in A : rows[x][t] = F[<<x, t>>],
           \A t \in A : c[t] = Total(cols[t], S) /\ \A x \in S : cols[t][x] = F[<<x, t>>]
    PROVE  Total(r, S) = Total(c, A)
<1> DEFINE C(T) == [t \in A |-> Total(cols[t], T)]
           Q    == {T \in SUBSET S : Total(r, T) = Total(C(T), A)}
<1>1. /\ \A x \in S : Numbers(rows[x], A)
      /\ \A t \in A : Numbers(cols[t], S)
  <2>1. \A x \in S : \A t \in A : F[<<x, t>>] \in Int
    BY DEF Numbers
  <2>2. \A x \in S : Numbers(rows[x], A)
    BY <2>1 DEF Numbers
  <2>3. \A t \in A : Numbers(cols[t], S)
    BY <2>1 DEF Numbers
  <2> QED  BY <2>2, <2>3
<1>2. Numbers(r, S)
  <2>1. \A x \in S : Total(rows[x], A) \in Int
    BY <1>1, TotalType
  <2> QED  BY <2>1 DEF Numbers
<1>3. ASSUME NEW T \in SUBSET S
      PROVE  Numbers(C(T), A)
  <2>1. IsFiniteSet(T)
    BY FS_Subset
  <2>2. \A t \in A : Numbers(cols[t], T)
    BY <1>1 DEF Numbers
  <2>3. \A t \in A : Total(cols[t], T) \in Int
    BY <2>1, <2>2, TotalType
  <2> QED  BY <2>3 DEF Numbers
<1>4. {} \in Q
  <2>1. \A t \in A : C({})[t] = 0
    BY TotalEmpty
  <2> HIDE DEF C
  <2>2. Total(C({}), A) = 0
    BY <2>1, TotalZero
  <2> QED  BY <2>2, TotalEmpty
<1>5. ASSUME NEW T \in SUBSET S, NEW x \in S \ T, T \in Q
      PROVE  T \cup {x} \in Q
  <2>1. Total(r, T \cup {x}) = Total(r, T) + r[x]
    BY <1>2, TotalNext
  <2>2. \A t \in A : C(T \cup {x})[t] = C(T)[t] + rows[x][t]
    <3>1. ASSUME NEW t \in A
          PROVE  Total(cols[t], T \cup {x}) = Total(cols[t], T) + rows[x][t]
      <4>1. Total(cols[t], T \cup {x}) = Total(cols[t], T) + cols[t][x]
        BY <1>1, TotalNext
      <4> QED  BY <4>1
    <3> QED  BY <3>1
  <2> HIDE DEF C
  <2>3. Total(C(T \cup {x}), A) = Total(C(T), A) + Total(rows[x], A)
    <3> DEFINE f == C(T)
               g == rows[x]
               h == C(T \cup {x})
    <3>1. Numbers(f, A) /\ Numbers(g, A)
      BY <1>1, <1>3
    <3>2. \A t \in A : h[t] = f[t] + g[t]
      BY <2>2
    <3> HIDE DEF f, g, h
    <3>3. Total(h, A) = Total(f, A) + Total(g, A)
      BY <3>1, <3>2, TotalPlus
    <3> QED  BY <3>3 DEF f, g, h
  <2>4. r[x] = Total(rows[x], A)
    OBVIOUS
  <2>5. Total(r, T) = Total(C(T), A)
    BY <1>5
  <2> QED  BY <2>1, <2>3, <2>4, <2>5
<1>6. S \in Q
  <2> HIDE DEF Q
  <2> QED  BY <1>4, <1>5, SubsetsByAdding
<1>7. Total(C(S), A) = Total(c, A)
  <2>1. \A t \in A : c[t] = C(S)[t]
    OBVIOUS
  <2> HIDE DEF C
  <2> QED  BY <1>3, <2>1, TotalSame
<1> QED  BY <1>6, <1>7

\* A sum over a list, its last element added last, and as a fold from the left adds.
LEMMA TotalLast ==
    ASSUME NEW n \in Nat, NEW f, Numbers(f, 1..n), NEW T \in SUBSET (1..n), T # {}
    PROVE  /\ Max(T) \in T
           /\ Total(f, T) = Total(f, T \ {Max(T)}) + f[Max(T)]
<1>1. Max(T) \in T
  BY MaxIsLast
<1> DEFINE m == Max(T)
<1>2. T \ {m} \in SUBSET (1..n) /\ m \in (1..n) \ (T \ {m}) /\ (T \ {m}) \cup {m} = T
  BY <1>1
<1>3. IsFiniteSet(1..n)
  BY FS_Interval
<1>4. Total(f, (T \ {m}) \cup {m}) = Total(f, T \ {m}) + f[m]
  <2> DEFINE N == 1..n
             R == T \ {m}
  <2>1. IsFiniteSet(N) /\ Numbers(f, N) /\ R \in SUBSET N /\ m \in N \ R
    BY <1>2, <1>3
  <2> HIDE DEF N, R, m
  <2>2. Total(f, R \cup {m}) = Total(f, R) + f[m]
    BY <2>1, TotalNext
  <2> QED  BY <2>2 DEF R
<1> HIDE DEF m
<1> QED  BY <1>1, <1>2, <1>4 DEF m

LEMMA SumsByLast ==
    ASSUME NEW n \in Nat, NEW f, Numbers(f, 1..n)
    PROVE  \E g : g = [T \in SUBSET (1..n) |->
                         IF T = {} THEN 0 ELSE g[T \ {Max(T)}] + f[Max(T)]]
<1> DEFINE S == 1..n
           g == [T \in SUBSET S |-> Total(f, T)]
           h == [T \in SUBSET S |-> IF T = {} THEN 0 ELSE g[T \ {Max(T)}] + f[Max(T)]]
<1>1. ASSUME NEW T \in SUBSET S
      PROVE  g[T] = h[T]
  <2>1. CASE T = {}
    BY <2>1, TotalEmpty
  <2>2. CASE T # {}
    <3>1. Max(T) \in T /\ Total(f, T) = Total(f, T \ {Max(T)}) + f[Max(T)]
      BY <2>2, TotalLast
    <3>2. g[T \ {Max(T)}] = Total(f, T \ {Max(T)})
      BY <3>1
    <3> HIDE DEF S
    <3> QED  BY <2>2, <3>1, <3>2
  <2> QED  BY <2>1, <2>2
<1>2. g = h
  <2> HIDE DEF S
  <2> QED  BY <1>1
<1> HIDE DEF g
<1> QED  BY <1>2

LEMMA TotalByLast ==
    ASSUME NEW n \in Nat, NEW f, Numbers(f, 1..n), NEW it,
           \A T \in SUBSET (1..n) :
               it[T] = IF T = {} THEN 0 ELSE it[T \ {Max(T)}] + f[Max(T)]
    PROVE  it[1..n] = Total(f, 1..n)
<1> DEFINE Q == {T \in SUBSET (1..n) : it[T] = Total(f, T)}
<1>1. ASSUME NEW T \in SUBSET (1..n), \A U \in SUBSET T : U # T => U \in Q
      PROVE  T \in Q
  <2>1. CASE T = {}
    BY <2>1, TotalEmpty
  <2>2. CASE T # {}
    <3>1. /\ Max(T) \in T
          /\ Total(f, T) = Total(f, T \ {Max(T)}) + f[Max(T)]
      BY <2>2, TotalLast
    <3>2. it[T \ {Max(T)}] = Total(f, T \ {Max(T)})
      BY <1>1, <3>1
    <3> QED  BY <2>2, <3>1, <3>2
  <2> QED  BY <2>1, <2>2
<1>2. IsFiniteSet(1..n)
  BY FS_Interval
<1>3. SUBSET (1..n) \subseteq Q
  <2> DEFINE N == 1..n
  <2>1. IsFiniteSet(N)
    BY <1>2
  <2>2. \A T \in SUBSET N : (\A U \in SUBSET T : U # T => U \in Q) => T \in Q
    <3> HIDE DEF Q
    <3> QED  BY <1>1
  <2> HIDE DEF Q, N
  <2>3. SUBSET N \subseteq Q
    BY <2>1, <2>2, SubsetsBySize
  <2> QED  BY <2>3 DEF N
<1> QED  BY <1>3

\* What the elements of a list weigh, value by value.
LEMMA TotalByValue ==
    ASSUME NEW A, IsFiniteSet(A), NEW s \in Seq(A), NEW w, Numbers(w, A),
           NEW f, \A i \in 1..Len(s) : f[i] = w[s[i]],
           NEW h, \A t \in A : h[t] = Copies(s, t) * w[t]
    PROVE  Total(f, 1..Len(s)) = Total(h, A)
<1> DEFINE S    == 1..Len(s)
           P(T, t) == {i \in T : s[i] = t}
           H(T) == [t \in A |-> Cardinality(P(T, t)) * w[t]]
           Q    == {T \in SUBSET S : Total(f, T) = Total(H(T), A)}
<1>1. IsFiniteSet(S) /\ \A i \in S : s[i] \in A
  <2>1. Len(s) \in Nat
    OBVIOUS
  <2> QED  BY <2>1, FS_Interval
<1>2. Numbers(f, S)
  BY <1>1 DEF Numbers
<1>3. ASSUME NEW T \in SUBSET S, NEW t
      PROVE  IsFiniteSet(P(T, t)) /\ Cardinality(P(T, t)) \in Nat
  <2>1. P(T, t) \in SUBSET S
    OBVIOUS
  <2> QED  BY <1>1, <2>1, FS_Subset, FS_CardinalityType
<1>4. \A T \in SUBSET S : Numbers(H(T), A)
  <2> HIDE DEF P
  <2>1. \A T \in SUBSET S : \A t \in A : Cardinality(P(T, t)) * w[t] \in Int
    BY <1>3, Distributes DEF Numbers
  <2> QED  BY <2>1 DEF Numbers
<1> HIDE DEF S
<1>5. {} \in Q
  <2>1. \A t \in A : H({})[t] = 0
    <3>1. \A t : Cardinality(P({}, t)) = 0
      <4>1. \A t : P({}, t) = {}
        OBVIOUS
      <4> HIDE DEF P
      <4> QED  BY <4>1, FS_EmptySet
    <3> HIDE DEF P
    <3> QED  BY <3>1 DEF Numbers
  <2> HIDE DEF H
  <2>2. Total(H({}), A) = 0
    BY <2>1, TotalZero
  <2> QED  BY <2>2, TotalEmpty
<1>6. ASSUME NEW T \in SUBSET S, NEW x \in S \ T, T \in Q
      PROVE  T \cup {x} \in Q
  <2> DEFINE U == T \cup {x}
             u == s[x]
  <2>1. Total(f, U) = Total(f, T) + f[x] /\ Total(f, T) \in Int
    BY <1>1, <1>2, TotalNext
  <2>2. u \in A /\ f[x] = w[u] /\ w[u] \in Int
    BY <1>1 DEF S, Numbers
  <2>3. /\ P(U, u) = P(T, u) \cup {x} /\ x \notin P(T, u)
        /\ \A t \in A \ {u} : P(U, t) = P(T, t)
    OBVIOUS
  <2>4. Cardinality(P(U, u)) = Cardinality(P(T, u)) + 1 /\ Cardinality(P(T, u)) \in Nat
    <3> DEFINE K == P(T, u)
               J == P(U, u)
    <3>1. IsFiniteSet(K) /\ Cardinality(K) \in Nat
      BY <1>3
    <3>2. J = K \cup {x} /\ x \notin K
      BY <2>3
    <3> HIDE DEF J, K
    <3>3. Cardinality(J) = Cardinality(K) + 1
      BY <3>1, <3>2, FS_AddElement
    <3> QED  BY <3>1, <3>3 DEF J, K
  <2> HIDE DEF P, u
  <2>5. H(U)[u] = H(T)[u] + w[u] /\ H(T)[u] \in Int /\ H(U)[u] \in Int
    <3>1. (Cardinality(P(T, u)) + 1) * w[u] = Cardinality(P(T, u)) * w[u] + 1 * w[u]
          /\ Cardinality(P(T, u)) * w[u] \in Int
      BY <2>2, <2>4, Distributes
    <3> QED  BY <2>2, <2>4, <3>1
  <2>6. \A t \in A \ {u} : H(U)[t] = H(T)[t]
    BY <2>3
  <2>7. Numbers(H(T), A) /\ U \in SUBSET S
    BY <1>4
  <2> HIDE DEF H, U
  <2>8. Total(H(U), A) = Total(H(T), A) - H(T)[u] + H(U)[u] /\ Total(H(T), A) \in Int
    BY <2>2, <2>5, <2>6, <2>7, TotalChange
  <2>9. Total(f, T) = Total(H(T), A)
    BY <1>6
  <2>10. Total(f, U) = Total(H(U), A)
    BY <2>1, <2>2, <2>5, <2>8, <2>9
  <2> QED  BY <2>7, <2>10 DEF U
<1>7. S \in Q
  <2> HIDE DEF Q
  <2> QED  BY <1>1, <1>5, <1>6, SubsetsByAdding
<1>8. Total(H(S), A) = Total(h, A)
  <2>1. \A t \in A : h[t] = H(S)[t]
    BY DEF Copies, Places, S
  <2>2. Numbers(H(S), A)
    BY <1>4
  <2> HIDE DEF H
  <2> QED  BY <2>1, <2>2, TotalSame
<1> QED  BY <1>7, <1>8 DEF S
=============================================================================
