--------------------------- MODULE AlgorithmLemmas ---------------------------
(***************************************************************************)
(* Lemmas about finite sets, orders and folds.                             *)
(***************************************************************************)
EXTENDS Integers, FiniteSets, Functions, FiniteSetTheorems,
        WellFoundedInduction, TLAPS

----------------------------------------------------------------------------
(***************************************************************************)
(* Induction.                                                              *)
(***************************************************************************)

(* Induction over the naturals, for a set instead of a predicate: what     *)
(* WFMin says of the least natural outside the set.                        *)
LEMMA NatSetInduction ==
    ASSUME NEW X, 0 \in X, \A n \in Nat : n \in X => n + 1 \in X
    PROVE  Nat \subseteq X
<1> DEFINE T == Nat \ X
           R == OpToRel(<, Nat)
<1>1. SUFFICES ASSUME T # {} PROVE FALSE
  OBVIOUS
<1>2. PICK x \in T : \A y \in T : <<y, x>> \notin R
  <2>1. T \subseteq Nat
    OBVIOUS
  <2> HIDE DEF T, R
  <2>2. IsWellFoundedOn(R, Nat)
    BY NatLessThanWellFounded DEF R
  <2> QED
    BY <1>1, <2>1, <2>2, WFMin
<1>3. x \in Nat /\ x # 0
  OBVIOUS
<1>4. x - 1 \in Nat
  BY <1>3
<1>5. x - 1 \notin T
  <2>1. <<x - 1, x>> \in R
    BY <1>3, <1>4 DEF OpToRel
  <2> HIDE DEF R, T
  <2> QED
    BY <1>2, <2>1
<1> QED
  BY <1>3, <1>4, <1>5

(* Induction over the subsets of a finite set: a set of subsets that has   *)
(* the empty one, and with a subset each that is larger by one element,    *)
(* has them all.                                                           *)
LEMMA SubsetInduction ==
    ASSUME NEW S, IsFiniteSet(S), NEW X, {} \in X,
           \A T \in SUBSET S : \A x \in S \ T : T \in X => T \cup {x} \in X
    PROVE  SUBSET S \subseteq X
<1> DEFINE Y == {n \in Nat : \A T \in SUBSET S : Cardinality(T) = n => T \in X}
<1>1. \A T \in SUBSET S : IsFiniteSet(T) /\ Cardinality(T) \in Nat
  BY FS_Subset, FS_CardinalityType
<1>2. 0 \in Y
  BY <1>1, FS_EmptySet
<1>3. ASSUME NEW n \in Nat, n \in Y PROVE n + 1 \in Y
  <2> SUFFICES ASSUME NEW T \in SUBSET S, Cardinality(T) = n + 1 PROVE T \in X
    OBVIOUS
  <2>0. IsFiniteSet(T) /\ Cardinality(T) # 0
    BY <1>1
  <2>1. PICK x : x \in T
    <3>1. T # {}
      BY <2>0, FS_EmptySet
    <3> QED
      BY <3>1
  <2>2. Cardinality(T \ {x}) = n
    <3> HIDE DEF Y
    <3>1. Cardinality(T \ {x}) = Cardinality(T) - 1
      BY <2>0, <2>1, FS_RemoveElement
    <3> QED
      BY <3>1
  <2>3. T \ {x} \in X
    BY <1>3, <2>2
  <2>4. (T \ {x}) \cup {x} = T
    BY <2>1
  <2> QED
    BY <2>1, <2>3, <2>4
<1>4. Nat \subseteq Y
  <2> HIDE DEF Y
  <2> QED
    BY <1>2, <1>3, NatSetInduction
<1> QED
  BY <1>1, <1>4

LEMMA FiniteImage ==
    ASSUME NEW S, IsFiniteSet(S), NEW f
    PROVE  IsFiniteSet({f[x] : x \in S})
<1>1. [x \in S |-> f[x]] \in Surjection(S, {f[x] : x \in S})
  BY DEF Surjection
<1> QED
  BY <1>1, FS_Surjection

----------------------------------------------------------------------------
(***************************************************************************)
(* Folds.  G is the operation as a function, fun the values.               *)
(***************************************************************************)
Folds(it, S, base, G, fun) ==
    \A s \in SUBSET S :
        it[s] = IF s = {} THEN base
                ELSE G[<<fun[CHOOSE x \in s : TRUE], it[s \ {CHOOSE x \in s : TRUE}]>>]

(* The recursion by which a fold over a finite set is defined has a        *)
(* solution: it is built for subsets of one element, of two, and so on.    *)
LEMMA FoldExists ==
    ASSUME NEW S, IsFiniteSet(S), NEW V, NEW base \in V, NEW G \in [V \X V -> V],
           NEW fun, \A x \in S : fun[x] \in V
    PROVE  \E it \in [SUBSET S -> V] : Folds(it, S, base, G, fun)
<1> DEFINE first(s) == CHOOSE x \in s : TRUE
           Body(it, s) == IF s = {} THEN base ELSE G[<<fun[first(s)], it[s \ {first(s)}]>>]
           Solves(it, n) == \A s \in SUBSET S : Cardinality(s) <= n => it[s] = Body(it, s)
           Y == {n \in Nat : \E it \in [SUBSET S -> V] : Solves(it, n)}
<1>1. \A s \in SUBSET S : /\ IsFiniteSet(s) /\ Cardinality(s) \in Nat
                          /\ Cardinality(s) <= Cardinality(S)
                          /\ Cardinality(s) = 0 <=> s = {}
  BY FS_Subset, FS_CardinalityType, FS_EmptySet
<1>2. \A s \in SUBSET S : s # {} => /\ first(s) \in s
                                    /\ s \ {first(s)} \in SUBSET S
                                    /\ Cardinality(s \ {first(s)}) = Cardinality(s) - 1
  <2> TAKE s \in SUBSET S
  <2> HAVE s # {}
  <2>1. first(s) \in s
    OBVIOUS
  <2> HIDE DEF first
  <2> QED
    BY <1>1, <2>1, FS_RemoveElement
<1> HIDE DEF first
<1>3. 0 \in Y
  <2> DEFINE it == [s \in SUBSET S |-> base]
  <2>1. \A s \in SUBSET S : Cardinality(s) <= 0 => s = {}
    BY <1>1
  <2>2. Solves(it, 0)
    BY <2>1
  <2>3. it \in [SUBSET S -> V]
    OBVIOUS
  <2> HIDE DEF it, Solves
  <2> QED
    BY <2>2, <2>3
<1>4. ASSUME NEW n \in Nat, n \in Y PROVE n + 1 \in Y
  <2>1. PICK it \in [SUBSET S -> V] : Solves(it, n)
    BY <1>4
  <2> DEFINE next == [s \in SUBSET S |-> IF Cardinality(s) = n + 1 THEN Body(it, s) ELSE it[s]]
  <2>2. \A s \in SUBSET S : Body(it, s) \in V
    BY <1>2
  <2>3. next \in [SUBSET S -> V]
    BY <2>2
  <2>4. ASSUME NEW s \in SUBSET S, Cardinality(s) <= n + 1 PROVE next[s] = Body(next, s)
    <3>1. s # {} => next[s \ {first(s)}] = it[s \ {first(s)}]
      <4> SUFFICES ASSUME s # {} PROVE next[s \ {first(s)}] = it[s \ {first(s)}]
        OBVIOUS
      <4>1. s \ {first(s)} \in SUBSET S /\ Cardinality(s \ {first(s)}) = Cardinality(s) - 1
        BY <1>2
      <4>2. Cardinality(s \ {first(s)}) # n + 1
        BY <1>1, <2>4, <4>1
      <4> QED
        BY <4>1, <4>2
    <3>2. Body(next, s) = Body(it, s)
      BY <3>1
    <3>3. next[s] = Body(it, s)
      <4>1. CASE Cardinality(s) = n + 1
        BY <4>1
      <4>2. CASE Cardinality(s) # n + 1
        <5>1. Cardinality(s) <= n
          BY <1>1, <2>4, <4>2
        <5>2. next[s] = it[s]
          BY <4>2
        <5> QED
          BY <2>1, <5>1, <5>2
      <4> QED
        BY <4>1, <4>2
    <3> QED
      BY <3>2, <3>3
  <2>5. Solves(next, n + 1)
    BY <2>4
  <2> HIDE DEF next, Solves
  <2> QED
    BY <2>3, <2>5
<1>5. Nat \subseteq Y
  <2> HIDE DEF Y
  <2> QED
    BY <1>3, <1>4, NatSetInduction
<1>6. PICK it \in [SUBSET S -> V] : Solves(it, Cardinality(S))
  BY <1>1, <1>5
<1>7. \A s \in SUBSET S : it[s] = Body(it, s)
  BY <1>1, <1>6
<1> QED
  BY <1>7 DEF Folds, first

IsAC(G, V) ==
    /\ G \in [V \X V -> V]
    /\ \A a, b \in V : G[<<a, b>>] = G[<<b, a>>]
    /\ \A a, b, c \in V : G[<<a, G[<<b, c>>]>>] = G[<<G[<<a, b>>], c>>]

\* it folds all subsets of S.
IsFold(it, S, V, base, G, fun) ==
    /\ IsFiniteSet(S) /\ base \in V /\ IsAC(G, V)
    /\ \A x \in S : fun[x] \in V
    /\ it \in [SUBSET S -> V] /\ Folds(it, S, base, G, fun)

(* For an associative and commutative operation any element may be taken   *)
(* out first.                                                              *)
LEMMA FoldTakesAny ==
    ASSUME NEW S, NEW V, NEW base, NEW G, NEW fun, NEW it,
           IsFold(it, S, V, base, G, fun)
    PROVE  /\ it[{}] = base
           /\ \A T \in SUBSET S : \A x \in T : it[T] = G[<<fun[x], it[T \ {x}]>>]
<1> DEFINE Any(T) == \A x \in T : it[T] = G[<<fun[x], it[T \ {x}]>>]
           Y == {n \in Nat : \A T \in SUBSET S : Cardinality(T) = n => Any(T)}
<1>0. /\ IsFiniteSet(S) /\ base \in V /\ IsAC(G, V)
      /\ \A x \in S : fun[x] \in V
      /\ it \in [SUBSET S -> V] /\ Folds(it, S, base, G, fun)
  BY DEF IsFold
<1>1. \A s \in SUBSET S : /\ IsFiniteSet(s) /\ Cardinality(s) \in Nat
                          /\ Cardinality(s) = 0 <=> s = {}
  BY <1>0, FS_Subset, FS_CardinalityType, FS_EmptySet
<1>2. \A s \in SUBSET S : \A x \in s : Cardinality(s \ {x}) = Cardinality(s) - 1
  BY <1>1, FS_RemoveElement
<1>3. 0 \in Y
  BY <1>1
<1>4. ASSUME NEW n \in Nat, n \in Y PROVE n + 1 \in Y
  <2> HIDE DEF Any
  <2> SUFFICES ASSUME NEW T \in SUBSET S, Cardinality(T) = n + 1 PROVE Any(T)
    OBVIOUS
  <2> USE DEF Any
  <2> TAKE x \in T
  <2>1. PICK c : c = CHOOSE y \in T : TRUE
    OBVIOUS
  <2>2. c \in T /\ it[T] = G[<<fun[c], it[T \ {c}]>>]
    BY <1>0, <2>1 DEF Folds
  <2>3. CASE c = x
    BY <2>2, <2>3
  <2>4. CASE c # x
    <3> DEFINE U == T \ {c, x}
    <3>1. /\ T \ {c} \in SUBSET S /\ x \in T \ {c} /\ (T \ {c}) \ {x} = U
          /\ T \ {x} \in SUBSET S /\ c \in T \ {x} /\ (T \ {x}) \ {c} = U
      BY <2>2, <2>4
    <3>2. Cardinality(T \ {c}) = n /\ Cardinality(T \ {x}) = n
      <4>1. /\ Cardinality(T \ {c}) = Cardinality(T) - 1
            /\ Cardinality(T \ {x}) = Cardinality(T) - 1
        BY <1>2, <2>2
      <4> QED
        BY <4>1
    <3>3. Any(T \ {c}) /\ Any(T \ {x})
      BY <1>4, <3>1, <3>2
    <3>4. it[T \ {c}] = G[<<fun[x], it[U]>>] /\ it[T \ {x}] = G[<<fun[c], it[U]>>]
      <4>1. /\ it[T \ {c}] = G[<<fun[x], it[(T \ {c}) \ {x}]>>]
            /\ it[T \ {x}] = G[<<fun[c], it[(T \ {x}) \ {c}]>>]
        BY <3>1, <3>3
      <4> QED
        BY <3>1, <4>1
    <3>5. fun[x] \in V /\ fun[c] \in V /\ it[U] \in V
      BY <1>0, <2>2
    <3> HIDE DEF U
    <3>6. G[<<fun[c], G[<<fun[x], it[U]>>]>>] = G[<<fun[x], G[<<fun[c], it[U]>>]>>]
      <4>1. /\ G[<<fun[c], G[<<fun[x], it[U]>>]>>] = G[<<G[<<fun[c], fun[x]>>], it[U]>>]
            /\ G[<<fun[x], G[<<fun[c], it[U]>>]>>] = G[<<G[<<fun[x], fun[c]>>], it[U]>>]
            /\ G[<<fun[c], fun[x]>>] = G[<<fun[x], fun[c]>>]
        BY <1>0, <3>5 DEF IsAC
      <4> QED
        BY <4>1
    <3> QED
      BY <2>2, <3>4, <3>6
  <2> QED
    BY <2>3, <2>4
<1>5. Nat \subseteq Y
  <2> HIDE DEF Y
  <2> QED
    BY <1>3, <1>4, NatSetInduction
<1>6. it[{}] = base
  BY <1>0 DEF Folds
<1> QED
  BY <1>1, <1>5, <1>6

(* Folds over the same values agree, whatever the sets they were made for. *)
LEMMA FoldUnique ==
    ASSUME NEW S, NEW T \in SUBSET S, NEW V, NEW base, NEW G,
           NEW f, NEW g, \A x \in T : g[x] = f[x],
           NEW it, IsFold(it, S, V, base, G, f),
           NEW jt, IsFold(jt, T, V, base, G, g)
    PROVE  it[T] = jt[T]
<1> DEFINE X == {U \in SUBSET T : it[U] = jt[U]}
<1>1. IsFiniteSet(T)
  BY DEF IsFold
<1>2. /\ it[{}] = base
      /\ \A U \in SUBSET S : \A x \in U : it[U] = G[<<f[x], it[U \ {x}]>>]
  BY FoldTakesAny
<1>3. /\ jt[{}] = base
      /\ \A U \in SUBSET T : \A x \in U : jt[U] = G[<<g[x], jt[U \ {x}]>>]
  BY FoldTakesAny
<1>4. {} \in X
  BY <1>2, <1>3
<1>5. ASSUME NEW U \in SUBSET T, NEW x \in T \ U, U \in X PROVE U \cup {x} \in X
  <2>1. (U \cup {x}) \ {x} = U /\ U \cup {x} \in SUBSET T /\ U \cup {x} \in SUBSET S
    OBVIOUS
  <2>2. it[U \cup {x}] = G[<<f[x], it[U]>>]
    BY <1>2, <2>1
  <2>3. jt[U \cup {x}] = G[<<g[x], jt[U]>>]
    BY <1>3, <2>1
  <2>4. it[U] = jt[U] /\ g[x] = f[x]
    BY <1>5
  <2> QED
    BY <2>1, <2>2, <2>3, <2>4
<1>6. SUBSET T \subseteq X
  <2> HIDE DEF X
  <2> QED
    BY <1>1, <1>4, <1>5, SubsetInduction
<1> QED
  BY <1>6

ProductOver(f, S) == FoldFunctionOnSet(LAMBDA a, b : a * b, 1, f, S)

Times == [p \in Int \X Int |-> p[1] * p[2]]
Plus == [p \in Int \X Int |-> p[1] + p[2]]

LEMMA TimesPlus ==
    /\ IsAC(Times, Int) /\ \A a, b \in Int : Times[<<a, b>>] = a * b
    /\ IsAC(Plus, Int) /\ \A a, b \in Int : Plus[<<a, b>>] = a + b
<1>1. \A a, b \in Int : Times[<<a, b>>] = a * b /\ Plus[<<a, b>>] = a + b
  BY DEF Times, Plus
<1>2. Times \in [Int \X Int -> Int] /\ Plus \in [Int \X Int -> Int]
  BY DEF Times, Plus
<1>3. ASSUME NEW a \in Int, NEW b \in Int, NEW c \in Int
      PROVE  /\ Times[<<a, Times[<<b, c>>]>>] = Times[<<Times[<<a, b>>], c>>]
             /\ Plus[<<a, Plus[<<b, c>>]>>] = Plus[<<Plus[<<a, b>>], c>>]
  <2>1. a * b \in Int /\ b * c \in Int /\ a + b \in Int /\ b + c \in Int
    OBVIOUS
  <2>2. a * (b * c) = (a * b) * c /\ a + (b + c) = (a + b) + c
    OBVIOUS
  <2>3. Times[<<a, Times[<<b, c>>]>>] = a * (b * c) /\ Times[<<Times[<<a, b>>], c>>] = (a * b) * c
    BY <1>1, <2>1
  <2>4. Plus[<<a, Plus[<<b, c>>]>>] = a + (b + c) /\ Plus[<<Plus[<<a, b>>], c>>] = (a + b) + c
    BY <1>1, <2>1
  <2> QED
    BY <2>2, <2>3, <2>4
<1>4. ASSUME NEW a \in Int, NEW b \in Int
      PROVE  Times[<<a, b>>] = Times[<<b, a>>] /\ Plus[<<a, b>>] = Plus[<<b, a>>]
  <2>1. a * b = b * a /\ a + b = b + a
    OBVIOUS
  <2> QED
    BY <1>1, <2>1
<1>5. IsAC(Times, Int)
  BY <1>2, <1>3, <1>4 DEF IsAC
<1>6. IsAC(Plus, Int)
  BY <1>2, <1>3, <1>4 DEF IsAC
<1> QED
  BY <1>1, <1>5, <1>6

(* Two solutions of the recursion are equal, one element at a time.        *)
LEMMA FoldSteps ==
    ASSUME NEW S, IsFiniteSet(S), NEW it, NEW jt, jt[{}] = it[{}],
           \A s \in SUBSET S : s # {} =>
               LET c == CHOOSE x \in s : TRUE IN
               jt[s \ {c}] = it[s \ {c}] => jt[s] = it[s]
    PROVE  jt[S] = it[S]
<1> DEFINE Y == {n \in Nat : \A s \in SUBSET S : Cardinality(s) = n => jt[s] = it[s]}
<1>1. \A s \in SUBSET S : /\ IsFiniteSet(s) /\ Cardinality(s) \in Nat
                          /\ Cardinality(s) = 0 <=> s = {}
  BY FS_Subset, FS_CardinalityType, FS_EmptySet
<1>2. 0 \in Y
  BY <1>1
<1>3. ASSUME NEW n \in Nat, n \in Y PROVE n + 1 \in Y
  <2> SUFFICES ASSUME NEW s \in SUBSET S, Cardinality(s) = n + 1 PROVE jt[s] = it[s]
    OBVIOUS
  <2>1. PICK c : c = CHOOSE x \in s : TRUE
    OBVIOUS
  <2>2. s # {}
    BY <1>1
  <2>3. c \in s
    BY <2>1, <2>2
  <2>4. Cardinality(s \ {c}) = n
    <3>1. Cardinality(s \ {c}) = Cardinality(s) - 1
      BY <1>1, <2>3, FS_RemoveElement
    <3> QED
      BY <3>1
  <2>5. jt[s \ {c}] = it[s \ {c}]
    BY <1>3, <2>4
  <2> QED
    BY <2>1, <2>2, <2>5
<1>4. Nat \subseteq Y
  <2> HIDE DEF Y
  <2> QED
    BY <1>2, <1>3, NatSetInduction
<1> QED
  BY <1>1, <1>4

(* What the community modules compute are such folds.                      *)
LEMMA ProductIsFold ==
    ASSUME NEW S, IsFiniteSet(S), NEW f, \A x \in S : f[x] \in Int
    PROVE  \E it : IsFold(it, S, Int, 1, Times, f) /\ ProductOver(f, S) = it[S]
<1> DEFINE first(s) == CHOOSE x \in s : TRUE
           Solution(it) ==
               it = [s \in SUBSET S |->
                       IF s = {} THEN 1 ELSE f[first(s)] * it[s \ {first(s)}]]
           iter == CHOOSE it : Solution(it)
<1>1. ProductOver(f, S) = iter[S]
  BY DEF ProductOver, FoldFunctionOnSet, MapThenFoldSet
<1>2. PICK it \in [SUBSET S -> Int] : Folds(it, S, 1, Times, f)
  <2>1. Times \in [Int \X Int -> Int] /\ 1 \in Int
    BY TimesPlus DEF IsAC
  <2> QED
    BY <2>1, FoldExists
<1>3. ASSUME NEW s \in SUBSET S, s # {}
      PROVE  f[first(s)] \in Int /\ s \ {first(s)} \in SUBSET S
  BY <1>3
<1>4. ASSUME NEW s \in SUBSET S
      PROVE  it[s] = IF s = {} THEN 1 ELSE f[first(s)] * it[s \ {first(s)}]
  BY <1>2, <1>3, TimesPlus DEF Folds
<1>5. Solution(iter)
  <2>1. Solution(it)
    BY <1>4
  <2> HIDE DEF Solution
  <2> QED
    BY <2>1
<1> HIDE DEF iter
<1>6. iter[S] = it[S]
  <2>1. iter[{}] = it[{}]
    BY <1>4, <1>5
  <2>2. ASSUME NEW s \in SUBSET S, s # {}, iter[s \ {first(s)}] = it[s \ {first(s)}]
        PROVE  iter[s] = it[s]
    BY <1>4, <1>5, <2>2
  <2> QED
    BY <2>1, <2>2, FoldSteps
<1>7. IsFold(it, S, Int, 1, Times, f)
  BY <1>2, TimesPlus DEF IsFold
<1> QED
  BY <1>1, <1>6, <1>7

LEMMA SumIsFold ==
    ASSUME NEW S, IsFiniteSet(S), NEW f, \A x \in S : f[x] \in Int
    PROVE  \E it : IsFold(it, S, Int, 0, Plus, f) /\ SumFunctionOnSet(f, S) = it[S]
<1> DEFINE first(s) == CHOOSE x \in s : TRUE
           Solution(it) ==
               it = [s \in SUBSET S |->
                       IF s = {} THEN 0 ELSE f[first(s)] + it[s \ {first(s)}]]
           iter == CHOOSE it : Solution(it)
<1>1. SumFunctionOnSet(f, S) = iter[S]
  BY DEF SumFunctionOnSet, FoldFunctionOnSet, MapThenFoldSet
<1>2. PICK it \in [SUBSET S -> Int] : Folds(it, S, 0, Plus, f)
  <2>1. Plus \in [Int \X Int -> Int] /\ 0 \in Int
    BY TimesPlus DEF IsAC
  <2> QED
    BY <2>1, FoldExists
<1>3. ASSUME NEW s \in SUBSET S, s # {}
      PROVE  f[first(s)] \in Int /\ s \ {first(s)} \in SUBSET S
  BY <1>3
<1>4. ASSUME NEW s \in SUBSET S
      PROVE  it[s] = IF s = {} THEN 0 ELSE f[first(s)] + it[s \ {first(s)}]
  BY <1>2, <1>3, TimesPlus DEF Folds
<1>5. Solution(iter)
  <2>1. Solution(it)
    BY <1>4
  <2> HIDE DEF Solution
  <2> QED
    BY <2>1
<1> HIDE DEF iter
<1>6. iter[S] = it[S]
  <2>1. iter[{}] = it[{}]
    BY <1>4, <1>5
  <2>2. ASSUME NEW s \in SUBSET S, s # {}, iter[s \ {first(s)}] = it[s \ {first(s)}]
        PROVE  iter[s] = it[s]
    BY <1>4, <1>5, <2>2
  <2> QED
    BY <2>1, <2>2, FoldSteps
<1>7. IsFold(it, S, Int, 0, Plus, f)
  BY <1>2, TimesPlus DEF IsFold
<1> QED
  BY <1>1, <1>6, <1>7

(* What is used of them: the empty case, the type, one element more.       *)
LEMMA ProductStep ==
    ASSUME NEW S, IsFiniteSet(S), NEW f, \A x \in S : f[x] \in Int
    PROVE  /\ ProductOver(f, {}) = 1
           /\ ProductOver(f, S) \in Int
           /\ \A x \in S : ProductOver(f, S) = f[x] * ProductOver(f, S \ {x})
<1>1. PICK it : IsFold(it, S, Int, 1, Times, f) /\ ProductOver(f, S) = it[S]
  BY ProductIsFold
<1>2. /\ it[{}] = 1
      /\ \A T \in SUBSET S : \A x \in T : it[T] = Times[<<f[x], it[T \ {x}]>>]
  BY <1>1, FoldTakesAny, SMTT(30)
<1>3. it \in [SUBSET S -> Int]
  BY <1>1 DEF IsFold
<1>4. ASSUME NEW T \in SUBSET S PROVE ProductOver(f, T) = it[T]
  <2>1. IsFiniteSet(T) /\ \A x \in T : f[x] \in Int
    BY FS_Subset
  <2>2. PICK jt : IsFold(jt, T, Int, 1, Times, f) /\ ProductOver(f, T) = jt[T]
    BY <2>1, ProductIsFold
  <2> QED
    BY <1>1, <2>2, FoldUnique
<1>5. ASSUME NEW x \in S PROVE ProductOver(f, S) = f[x] * ProductOver(f, S \ {x})
  <2>1. it[S] = Times[<<f[x], it[S \ {x}]>>] /\ it[S \ {x}] \in Int
    BY <1>2, <1>3
  <2>2. ProductOver(f, S \ {x}) = it[S \ {x}]
    BY <1>4
  <2> QED
    BY <1>1, <2>1, <2>2, TimesPlus
<1>6. ProductOver(f, {}) = 1
  BY <1>2, <1>4
<1> QED
  BY <1>1, <1>3, <1>5, <1>6

LEMMA SumStep ==
    ASSUME NEW S, IsFiniteSet(S), NEW f, \A x \in S : f[x] \in Int
    PROVE  /\ SumFunctionOnSet(f, {}) = 0
           /\ SumFunctionOnSet(f, S) \in Int
           /\ \A x \in S : SumFunctionOnSet(f, S) = f[x] + SumFunctionOnSet(f, S \ {x})
<1>1. PICK it : IsFold(it, S, Int, 0, Plus, f) /\ SumFunctionOnSet(f, S) = it[S]
  BY SumIsFold
<1>2. /\ it[{}] = 0
      /\ \A T \in SUBSET S : \A x \in T : it[T] = Plus[<<f[x], it[T \ {x}]>>]
  BY <1>1, FoldTakesAny, SMTT(30)
<1>3. it \in [SUBSET S -> Int]
  BY <1>1 DEF IsFold
<1>4. ASSUME NEW T \in SUBSET S PROVE SumFunctionOnSet(f, T) = it[T]
  <2>1. IsFiniteSet(T) /\ \A x \in T : f[x] \in Int
    BY FS_Subset
  <2>2. PICK jt : IsFold(jt, T, Int, 0, Plus, f) /\ SumFunctionOnSet(f, T) = jt[T]
    BY <2>1, SumIsFold
  <2> QED
    BY <1>1, <2>2, FoldUnique
<1>5. ASSUME NEW x \in S PROVE SumFunctionOnSet(f, S) = f[x] + SumFunctionOnSet(f, S \ {x})
  <2>1. it[S] = Plus[<<f[x], it[S \ {x}]>>] /\ it[S \ {x}] \in Int
    BY <1>2, <1>3
  <2>2. SumFunctionOnSet(f, S \ {x}) = it[S \ {x}]
    BY <1>4
  <2> QED
    BY <1>1, <2>1, <2>2, TimesPlus
<1>6. SumFunctionOnSet(f, {}) = 0
  BY <1>2, <1>4
<1> QED
  BY <1>1, <1>3, <1>5, <1>6

----------------------------------------------------------------------------
(***************************************************************************)
(* Products.                                                               *)
(***************************************************************************)

(* A product over S is the product over any set numbered one to one by S.  *)
LEMMA ProductRenamed ==
    ASSUME NEW S, NEW D, IsFiniteSet(S), IsFiniteSet(D),
           NEW f, \A x \in S : f[x] \in Int,
           NEW b, \A d \in D : b[d] \in S, \A x \in S : \E d \in D : b[d] = x,
           \A d, e \in D : b[d] = b[e] => d = e,
           NEW g, \A d \in D : g[d] = f[b[d]]
    PROVE  ProductOver(g, D) = ProductOver(f, S)
<1> DEFINE Image(E) == {b[d] : d \in E}
           X == {E \in SUBSET D : ProductOver(g, E) = ProductOver(f, Image(E))}
<1>1. \A d \in D : g[d] \in Int
  OBVIOUS
<1>2. \A E \in SUBSET D : Image(E) \in SUBSET S
  OBVIOUS
<1>3. {} \in X
  <2>1. Image({}) = {}
    OBVIOUS
  <2>2. ProductOver(g, {}) = 1 /\ ProductOver(f, {}) = 1
    BY <1>1, ProductStep
  <2> QED
    BY <2>1, <2>2
<1>4. ASSUME NEW E \in SUBSET D, NEW d \in D \ E, E \in X PROVE E \cup {d} \in X
  <2>1. PICK F : F = E \cup {d}
    OBVIOUS
  <2>2. ProductOver(g, F) = g[d] * ProductOver(g, E)
    <3>1. IsFiniteSet(F) /\ F \ {d} = E /\ d \in F /\ \A k \in F : g[k] \in Int
      BY <1>1, <2>1, FS_Subset
    <3>2. \A k \in F : ProductOver(g, F) = g[k] * ProductOver(g, F \ {k})
      BY <3>1, ProductStep, ZenonT(30)
    <3> QED
      BY <3>1, <3>2
  <2>3. PICK H : H = Image(F)
    OBVIOUS
  <2>4. ProductOver(f, H) = f[b[d]] * ProductOver(f, Image(E))
    <3>1. H \subseteq S /\ b[d] \in H /\ H \ {b[d]} = Image(E)
      BY <2>1, <2>3
    <3>2. IsFiniteSet(H) /\ \A x \in H : f[x] \in Int
      BY <3>1, FS_Subset
    <3>3. \A x \in H : ProductOver(f, H) = f[x] * ProductOver(f, H \ {x})
      BY <3>2, ProductStep
    <3> QED
      BY <3>1, <3>3
  <2>5. g[d] = f[b[d]] /\ ProductOver(g, E) = ProductOver(f, Image(E))
    BY <1>4
  <2>6. ProductOver(g, F) = ProductOver(f, Image(F))
    <3> HIDE DEF Image
    <3> QED
      BY <2>2, <2>3, <2>4, <2>5
  <2> HIDE DEF Image
  <2> QED
    BY <2>1, <2>6
<1>5. SUBSET D \subseteq X
  <2> HIDE DEF X
  <2> QED
    BY <1>3, <1>4, SubsetInduction
<1>6. ProductOver(g, D) = ProductOver(f, Image(D))
  BY <1>5
<1>7. Image(D) = S
  OBVIOUS
<1> HIDE DEF Image
<1> QED
  BY <1>6, <1>7

(* Equal values have equal products.                                       *)
LEMMA ProductSame ==
    ASSUME NEW S, IsFiniteSet(S), NEW f, \A x \in S : f[x] \in Int,
           NEW g, \A x \in S : g[x] = f[x]
    PROVE  ProductOver(g, S) = ProductOver(f, S)
<1> DEFINE b == [x \in S |-> x]
<1>1. /\ \A x \in S : b[x] \in S /\ g[x] = f[b[x]]
      /\ \A x \in S : \E d \in S : b[d] = x
      /\ \A d, e \in S : b[d] = b[e] => d = e
  OBVIOUS
<1> HIDE DEF b
<1> QED
  BY <1>1, ProductRenamed

(* Larger factors have a larger product, and positive ones a positive one. *)
LEMMA ProductBounds ==
    ASSUME NEW S, IsFiniteSet(S), NEW f, \A x \in S : f[x] \in Int,
           NEW g, \A x \in S : g[x] \in Int /\ 0 <= f[x] /\ f[x] <= g[x] /\ 0 < g[x]
    PROVE  /\ 0 <= ProductOver(f, S)
           /\ ProductOver(f, S) <= ProductOver(g, S)
           /\ 0 < ProductOver(g, S)
<1> DEFINE Bounded(T) == /\ 0 <= ProductOver(f, T)
                         /\ ProductOver(f, T) <= ProductOver(g, T)
                         /\ 0 < ProductOver(g, T)
           X == {T \in SUBSET S : Bounded(T)}
<1>1. {} \in X
  <2>1. ProductOver(f, {}) = 1 /\ ProductOver(g, {}) = 1
    BY ProductStep
  <2> QED
    BY <2>1
<1>2. ASSUME NEW T \in SUBSET S, NEW x \in S \ T, T \in X PROVE T \cup {x} \in X
  <2>1. /\ IsFiniteSet(T) /\ IsFiniteSet(T \cup {x}) /\ (T \cup {x}) \ {x} = T
        /\ \A k \in T \cup {x} : f[k] \in Int /\ g[k] \in Int
    BY FS_Subset
  <2>2. /\ ProductOver(f, T \cup {x}) = f[x] * ProductOver(f, T)
        /\ ProductOver(g, T \cup {x}) = g[x] * ProductOver(g, T)
    BY <2>1, ProductStep
  <2>3. ProductOver(f, T) \in Int /\ ProductOver(g, T) \in Int
    BY <2>1, ProductStep
  <2>4. ASSUME NEW a \in Int, NEW b \in Int, NEW p \in Int, NEW q \in Int,
               0 <= a, a <= b, 0 < b, 0 <= p, p <= q, 0 < q
        PROVE  0 <= a * p /\ a * p <= b * q /\ 0 < b * q
    <3>1. 0 <= a * p /\ 0 < b * q
      BY <2>4
    <3>2. a * p <= b * p
      BY <2>4
    <3>3. b * p <= b * q
      BY <2>4
    <3> QED
      BY <3>1, <3>2, <3>3
  <2>5. Bounded(T) /\ 0 <= f[x] /\ f[x] <= g[x] /\ 0 < g[x] /\ f[x] \in Int /\ g[x] \in Int
    BY <1>2
  <2>6. Bounded(T \cup {x})
    BY <2>2, <2>3, <2>4, <2>5
  <2> QED
    BY <2>6
<1>3. SUBSET S \subseteq X
  <2> HIDE DEF X
  <2> QED
    BY <1>1, <1>2, SubsetInduction
<1> QED
  BY <1>3

----------------------------------------------------------------------------
(***************************************************************************)
(* Inclusion and exclusion.                                                *)
(***************************************************************************)

(* Equal terms have equal sums.                                            *)
LEMMA SumSame ==
    ASSUME NEW S, IsFiniteSet(S), NEW f, \A x \in S : f[x] \in Int,
           NEW g, \A x \in S : g[x] = f[x]
    PROVE  SumFunctionOnSet(g, S) = SumFunctionOnSet(f, S)
<1> DEFINE X == {T \in SUBSET S : SumFunctionOnSet(g, T) = SumFunctionOnSet(f, T)}
<1>1. {} \in X
  BY SumStep
<1>2. ASSUME NEW T \in SUBSET S, NEW x \in S \ T, T \in X PROVE T \cup {x} \in X
  <2>1. PICK F : F = T \cup {x}
    OBVIOUS
  <2>2. /\ IsFiniteSet(F) /\ x \in F /\ F \ {x} = T /\ F \in SUBSET S
        /\ \A k \in F : f[k] \in Int /\ g[k] \in Int
    BY <2>1, FS_Subset
  <2>3. \A k \in F : SumFunctionOnSet(f, F) = f[k] + SumFunctionOnSet(f, F \ {k})
    BY <2>2, SumStep
  <2>4. \A k \in F : SumFunctionOnSet(g, F) = g[k] + SumFunctionOnSet(g, F \ {k})
    BY <2>2, SumStep
  <2>5. SumFunctionOnSet(g, F) = SumFunctionOnSet(f, F)
    BY <1>2, <2>2, <2>3, <2>4
  <2> QED
    BY <2>1, <2>2, <2>5
<1>3. S \in X
  <2>1. SUBSET S \subseteq X
    <3> HIDE DEF X
    <3> QED
      BY <1>1, <1>2, SubsetInduction
  <2> QED
    BY <2>1
<1> QED
  BY <1>3

(* A sum over U and a copy of U whose terms come in pairs.                 *)
LEMMA SumOfPairs ==
    ASSUME NEW U, IsFiniteSet(U),
           NEW b, \A u \in U : b[u] \notin U, \A u, v \in U : b[u] = b[v] => u = v,
           NEW g, \A u \in U : g[u] \in Int /\ g[b[u]] \in Int,
           NEW h, \A u \in U : h[u] \in Int,
           NEW c \in Int, \A u \in U : g[u] + g[b[u]] = c * h[u]
    PROVE  SumFunctionOnSet(g, U \cup {b[u] : u \in U}) = c * SumFunctionOnSet(h, U)
<1> DEFINE Both(A) == A \cup {b[u] : u \in A}
           X == {A \in SUBSET U : SumFunctionOnSet(g, Both(A)) = c * SumFunctionOnSet(h, A)}
<1>1. \A A \in SUBSET U : /\ IsFiniteSet(A) /\ IsFiniteSet(Both(A))
                          /\ \A d \in Both(A) : g[d] \in Int
  <2> TAKE A \in SUBSET U
  <2>1. IsFiniteSet(A)
    BY FS_Subset
  <2>2. IsFiniteSet({b[u] : u \in A})
    BY <2>1, FiniteImage
  <2>3. IsFiniteSet(Both(A))
    BY <2>1, <2>2, FS_Union
  <2> QED
    BY <2>1, <2>3
<1>2. {} \in X
  <2>1. Both({}) = {}
    OBVIOUS
  <2>2. SumFunctionOnSet(g, {}) = 0 /\ SumFunctionOnSet(h, {}) = 0
    BY SumStep
  <2>3. c * 0 = 0
    OBVIOUS
  <2> HIDE DEF Both
  <2> QED
    BY <2>1, <2>2, <2>3
<1>3. ASSUME NEW A \in SUBSET U, NEW u \in U \ A, A \in X PROVE A \cup {u} \in X
  <2>1. PICK B : B = A \cup {u}
    OBVIOUS
  <2>2. PICK F : F = Both(B)
    OBVIOUS
  <2>3. PICK E : E = F \ {u}
    OBVIOUS
  <2>4. B \in SUBSET U /\ u \in B /\ B \ {u} = A
    BY <2>1
  <2>5. u \in F /\ b[u] \in E /\ E \ {b[u]} = Both(A) /\ E \subseteq F
    BY <2>1, <2>2, <2>3
  <2>6. /\ IsFiniteSet(B) /\ IsFiniteSet(F) /\ IsFiniteSet(E)
        /\ \A d \in F : g[d] \in Int
        /\ \A d \in E : g[d] \in Int
        /\ \A d \in B : h[d] \in Int
    <3> HIDE DEF Both
    <3> QED
      BY <1>1, <2>2, <2>4, <2>5, FS_Subset
  <2> HIDE DEF Both
  <2>7. /\ SumFunctionOnSet(g, F) = g[u] + SumFunctionOnSet(g, E)
        /\ SumFunctionOnSet(g, E) \in Int
    <3>1. \A d \in F : SumFunctionOnSet(g, F) = g[d] + SumFunctionOnSet(g, F \ {d})
      BY <2>6, SumStep
    <3>2. SumFunctionOnSet(g, E) \in Int
      BY <2>6, SumStep
    <3> QED
      BY <2>3, <2>5, <3>1, <3>2
  <2>8. /\ SumFunctionOnSet(g, E) = g[b[u]] + SumFunctionOnSet(g, Both(A))
    <3>1. \A d \in E : SumFunctionOnSet(g, E) = g[d] + SumFunctionOnSet(g, E \ {d})
      BY <2>6, SumStep
    <3> QED
      BY <2>5, <3>1
  <2>9. /\ SumFunctionOnSet(h, B) = h[u] + SumFunctionOnSet(h, A)
        /\ SumFunctionOnSet(h, A) \in Int
    <3>1. \A d \in B : SumFunctionOnSet(h, B) = h[d] + SumFunctionOnSet(h, B \ {d})
      BY <2>6, SumStep
    <3>2. \A d \in A : h[d] \in Int
      BY <1>3
    <3>3. SumFunctionOnSet(h, A) \in Int
      BY <1>1, <3>2, SumStep
    <3> QED
      BY <2>4, <3>1, <3>3
  <2>10. SumFunctionOnSet(g, Both(A)) = c * SumFunctionOnSet(h, A)
    BY <1>3
  <2>11. ASSUME NEW x \in Int, NEW y \in Int, NEW z \in Int, NEW s \in Int, x + y = c * z
         PROVE  x + (y + c * s) = c * (z + s)
    <3>1. c * (z + s) = c * z + c * s
      OBVIOUS
    <3> QED
      BY <2>11, <3>1
  <2>12. SumFunctionOnSet(g, F) = c * SumFunctionOnSet(h, B)
    <3>1. g[u] \in Int /\ g[b[u]] \in Int /\ h[u] \in Int /\ g[u] + g[b[u]] = c * h[u]
      OBVIOUS
    <3>2. PICK s \in Int : s = SumFunctionOnSet(h, A)
      BY <2>9
    <3>3. PICK x \in Int, y \in Int, z \in Int : x = g[u] /\ y = g[b[u]] /\ z = h[u]
      BY <3>1
    <3>4. x + y = c * z
      BY <3>1, <3>3
    <3>5. x + (y + c * s) = c * (z + s)
      BY <2>11, <3>4
    <3> QED
      BY <2>7, <2>8, <2>9, <2>10, <3>2, <3>3, <3>5
  <2> QED
    BY <2>1, <2>2, <2>4, <2>12
<1>4. SUBSET U \subseteq X
  <2> HIDE DEF X
  <2> QED
    BY <1>2, <1>3, SubsetInduction
<1>5. U \in X
  BY <1>4
<1> QED
  BY <1>5

\* Each k of U takes e[k] of W and leaves rest[k]; mix[S] has what those in
\* S take and W for the others, and a[S] its product, negative where S is
\* even.
Mixes(U, W, e, whole, rest, mix, a) ==
    /\ IsFiniteSet(U) /\ W \in Int
    /\ \A k \in U : e[k] \in Int /\ whole[k] = W /\ rest[k] = W - e[k]
    /\ \A S \in SUBSET U : \A k \in U : mix[S][k] = IF k \in S THEN e[k] ELSE W
    /\ \A S \in SUBSET U : a[S] = IF Cardinality(S) % 2 = 1 THEN ProductOver(mix[S], U)
                                ELSE -ProductOver(mix[S], U)

(* What is left of W in each of the elements is W less what each takes:    *)
(* the product of the differences against the signed products over the     *)
(* subsets, without the empty one and with the opposite sign.              *)
LEMMA InclusionExclusion ==
    ASSUME NEW U, NEW W, NEW e, NEW whole, NEW rest, NEW mix, NEW a,
           Mixes(U, W, e, whole, rest, mix, a), NEW N, N = (SUBSET U) \ {{}}
    PROVE  SumFunctionOnSet(a, N) = ProductOver(whole, U) - ProductOver(rest, U)
<1> DEFINE Term(T) == [S \in SUBSET T |-> IF Cardinality(S) % 2 = 1 THEN ProductOver(mix[S], T)
                                          ELSE -ProductOver(mix[S], T)]
           X == {T \in SUBSET U : SumFunctionOnSet(Term(T), SUBSET T) = -ProductOver(rest, T)}
<1> /\ IsFiniteSet(U) /\ W \in Int
    /\ \A k \in U : e[k] \in Int
    /\ \A k \in U : whole[k] = W
    /\ \A k \in U : rest[k] = W - e[k]
    /\ \A S \in SUBSET U : \A k \in U : mix[S][k] = IF k \in S THEN e[k] ELSE W
    /\ \A S \in SUBSET U : a[S] = IF Cardinality(S) % 2 = 1 THEN ProductOver(mix[S], U)
                                ELSE -ProductOver(mix[S], U)
  BY DEF Mixes
<1>1. \A T \in SUBSET U : \A S \in SUBSET T :
         /\ IsFiniteSet(T) /\ IsFiniteSet(S) /\ Cardinality(S) \in Nat
         /\ \A k \in T : mix[S][k] \in Int /\ rest[k] \in Int
  BY FS_Subset, FS_CardinalityType
<1>2. \A T \in SUBSET U : IsFiniteSet(SUBSET T)
  BY <1>1, FS_SUBSET
<1>3. \A T \in SUBSET U : \A S \in SUBSET T : ProductOver(mix[S], T) \in Int
  <2> TAKE T \in SUBSET U
  <2> TAKE S \in SUBSET T
  <2> QED
    BY <1>1, ProductStep
<1>4. {} \in X
  <2>1. \A S \in SUBSET {} : S = {}
    OBVIOUS
  <2>2. ProductOver(mix[{}], {}) = 1 /\ ProductOver(rest, {}) = 1
    <3>1. \A f : ProductOver(f, {}) = 1
      <4> TAKE f
      <4>1. IsFiniteSet({}) /\ \A x \in {} : f[x] \in Int
        BY FS_EmptySet
      <4> QED
        BY <4>1, ProductStep
    <3> QED
      BY <3>1
  <2>3. PICK t : t = Term({})
    OBVIOUS
  <2>4. t[{}] = -1
    BY <2>2, <2>3, FS_EmptySet
  <2>5. PICK F : F = SUBSET {}
    OBVIOUS
  <2>6. IsFiniteSet(F)
    BY <1>2, <2>5
  <2>7. {} \in F /\ F \ {{}} = {} /\ \A S \in F : t[S] \in Int
    <3>1. {} \in F /\ \A S \in F : S = {}
      BY <2>1, <2>5
    <3>2. F \ {{}} = {}
      BY <3>1
    <3>3. \A S \in F : t[S] = -1
      BY <2>4, <3>1
    <3> QED
      BY <3>1, <3>2, <3>3
  <2>8. \A S \in F : SumFunctionOnSet(t, F) = t[S] + SumFunctionOnSet(t, F \ {S})
    BY <2>6, <2>7, SumStep
  <2>9. SumFunctionOnSet(t, {}) = 0
    BY <2>6, <2>7, SumStep
  <2>10. SumFunctionOnSet(t, F) = -1
    <3>1. SumFunctionOnSet(t, F) = t[{}] + SumFunctionOnSet(t, F \ {{}})
      BY <2>7, <2>8
    <3>2. SumFunctionOnSet(t, F \ {{}}) = 0
      BY <2>7, <2>9
    <3> QED
      BY <2>4, <3>1, <3>2
  <2>11. SumFunctionOnSet(Term({}), SUBSET {}) = -ProductOver(rest, {})
    BY <2>2, <2>3, <2>5, <2>10
  <2> HIDE DEF Term
  <2> QED
    BY <2>11
<1>5. ASSUME NEW T \in SUBSET U, NEW x \in U \ T, T \in X PROVE T \cup {x} \in X
  <2>1. PICK F : F = T \cup {x}
    OBVIOUS
  <2>2. F \in SUBSET U /\ x \in F /\ F \ {x} = T /\ T \subseteq F
    BY <2>1
  <2> DEFINE b == [S \in SUBSET T |-> S \cup {x}]
             g == Term(F)
             h == Term(T)
             c == W - e[x]
  <2>3. ASSUME NEW S \in SUBSET T
        PROVE  /\ Cardinality(b[S]) = Cardinality(S) + 1 /\ Cardinality(S) \in Nat
               /\ ProductOver(mix[S], F) = W * ProductOver(mix[S], T)
               /\ ProductOver(mix[b[S]], F) = e[x] * ProductOver(mix[S], T)
    <3>1. S \in SUBSET U /\ S \in SUBSET F /\ b[S] \in SUBSET F /\ b[S] \in SUBSET U
      BY <2>2
    <3>2. Cardinality(b[S]) = Cardinality(S) + 1 /\ Cardinality(S) \in Nat
      <4>1. IsFiniteSet(S) /\ x \notin S
        BY <1>1, <3>1
      <4> QED
        BY <1>1, <3>1, <4>1, FS_AddElement
    <3>3. ProductOver(mix[S], F) = mix[S][x] * ProductOver(mix[S], T)
      <4>1. IsFiniteSet(F) /\ \A k \in F : mix[S][k] \in Int
        BY <1>1, <2>2, <3>1
      <4>2. \A k \in F : ProductOver(mix[S], F) = mix[S][k] * ProductOver(mix[S], F \ {k})
        BY <4>1, ProductStep
      <4> QED
        BY <2>2, <4>2
    <3>4. PICK B : B = b[S]
      OBVIOUS
    <3>5. ProductOver(mix[B], F) = mix[B][x] * ProductOver(mix[B], T)
      <4>1. IsFiniteSet(F) /\ \A k \in F : mix[B][k] \in Int
        BY <1>1, <2>2, <3>1, <3>4
      <4>2. \A k \in F : ProductOver(mix[B], F) = mix[B][k] * ProductOver(mix[B], F \ {k})
        BY <4>1, ProductStep
      <4> QED
        BY <2>2, <4>2
    <3>6. ProductOver(mix[B], T) = ProductOver(mix[S], T)
      <4>1. IsFiniteSet(T) /\ \A k \in T : mix[S][k] \in Int /\ mix[B][k] = mix[S][k]
        BY <1>1, <3>1, <3>4
      <4> QED
        BY <4>1, ProductSame
    <3>7. mix[S][x] = W /\ mix[B][x] = e[x]
      BY <3>1, <3>4
    <3> QED
      BY <3>2, <3>3, <3>4, <3>5, <3>6, <3>7
  <2>4. \A S \in SUBSET T : /\ b[S] \notin SUBSET T
                            /\ \A R \in SUBSET T : b[S] = b[R] => S = R
    <3>1. \A S \in SUBSET T : b[S] = S \cup {x} /\ x \notin S
      OBVIOUS
    <3> HIDE DEF b
    <3>2. ASSUME NEW S \in SUBSET T PROVE b[S] \notin SUBSET T
      BY <3>1
    <3>3. ASSUME NEW S \in SUBSET T, NEW R \in SUBSET T, b[S] = b[R] PROVE S = R
      <4>1. S \cup {x} = R \cup {x} /\ x \notin S /\ x \notin R
        BY <3>1, <3>3
      <4>2. \A y : y \in S <=> y \in R
        BY <4>1
      <4> QED
        BY <4>2
    <3> QED
      BY <3>2, <3>3
  <2>5. c \in Int /\ W \in Int /\ e[x] \in Int
    OBVIOUS
  <2>6. ASSUME NEW S \in SUBSET T
        PROVE  /\ g[S] \in Int /\ g[b[S]] \in Int /\ h[S] \in Int
               /\ g[S] + g[b[S]] = c * h[S]
    <3>1. PICK p \in Int : p = ProductOver(mix[S], T)
      BY <1>3
    <3>2. PICK n \in Nat : n = Cardinality(S) /\ n + 1 = Cardinality(b[S])
      BY <2>3
    <3>3. S \in SUBSET F /\ b[S] \in SUBSET F
      BY <2>2
    <3>4. /\ h[S] = IF n % 2 = 1 THEN p ELSE -p
          /\ g[S] = IF n % 2 = 1 THEN W * p ELSE -(W * p)
          /\ g[b[S]] = IF (n + 1) % 2 = 1 THEN e[x] * p ELSE -(e[x] * p)
      BY <2>3, <3>1, <3>2, <3>3
    <3>5. PICK w \in Int, y \in Int : w = W /\ y = e[x] /\ c = w - y
      BY <2>5
    <3> HIDE DEF g, h, b, c
    <3>6. n % 2 = 1 => (n + 1) % 2 = 0
      OBVIOUS
    <3>7. n % 2 # 1 => (n + 1) % 2 = 1
      OBVIOUS
    <3>8. w * p - y * p = (w - y) * p /\ -(w * p) + y * p = (w - y) * (-p)
      OBVIOUS
    <3>9. CASE n % 2 = 1
      <4>1. h[S] = p /\ g[S] = w * p /\ g[b[S]] = -(y * p)
        BY <3>4, <3>5, <3>6, <3>9
      <4> QED
        BY <3>5, <3>8, <4>1
    <3>10. CASE n % 2 # 1
      <4>1. h[S] = -p /\ g[S] = -(w * p) /\ g[b[S]] = y * p
        BY <3>4, <3>5, <3>7, <3>10
      <4> QED
        BY <3>5, <3>8, <4>1
    <3> QED
      BY <3>9, <3>10
  <2>7. PICK D, C : D = SUBSET T /\ C = {b[S] : S \in D}
    OBVIOUS
  <2>8. SUBSET F = D \cup C
    <3>1. ASSUME NEW S \in SUBSET F, x \in S PROVE S \in C
      <4>1. PICK R \in SUBSET T : S = b[R]
        <5>1. S \ {x} \in SUBSET T /\ b[S \ {x}] = S
          BY <2>1, <3>1
        <5> QED
          BY <5>1
      <4> HIDE DEF b
      <4> QED
        BY <2>7, <4>1
    <3>2. ASSUME NEW S \in SUBSET F, x \notin S PROVE S \in SUBSET T
      BY <2>1, <3>2
    <3>3. ASSUME NEW R \in SUBSET T PROVE R \in SUBSET F /\ b[R] \in SUBSET F
      BY <2>1
    <3> HIDE DEF b
    <3>4. ASSUME NEW S \in C PROVE S \in SUBSET F
      <4>1. PICK R \in SUBSET T : S = b[R]
        BY <2>7
      <4> QED
        BY <3>3, <4>1
    <3>5. ASSUME NEW S \in SUBSET F PROVE S \in D \/ S \in C
      BY <2>7, <3>1, <3>2
    <3>6. ASSUME NEW S \in D PROVE S \in SUBSET F
      BY <2>7, <3>3
    <3>7. \A S : S \in SUBSET F <=> S \in D \/ S \in C
      BY <3>4, <3>5, <3>6
    <3>8. PICK H : H = SUBSET F
      OBVIOUS
    <3>9. H = D \cup C
      BY <3>7, <3>8
    <3> QED
      BY <3>8, <3>9
  <2> HIDE DEF b
  <2>9. SumFunctionOnSet(g, SUBSET F) = c * SumFunctionOnSet(h, SUBSET T)
    <3>1. IsFiniteSet(D)
      BY <1>2, <2>7
    <3> HIDE DEF g, h, c
    <3>2. /\ \A S \in D : b[S] \notin D
          /\ \A S, R \in D : b[S] = b[R] => S = R
          /\ \A S \in D : g[S] \in Int /\ g[b[S]] \in Int
          /\ \A S \in D : h[S] \in Int
          /\ \A S \in D : g[S] + g[b[S]] = c * h[S]
      BY <2>4, <2>6, <2>7
    <3>3. SumFunctionOnSet(g, D \cup {b[S] : S \in D}) = c * SumFunctionOnSet(h, D)
      BY <2>5, <3>1, <3>2, SumOfPairs
    <3> QED
      BY <2>7, <2>8, <3>3
  <2>10. ProductOver(rest, F) = c * ProductOver(rest, T) /\ ProductOver(rest, T) \in Int
    <3>1. IsFiniteSet(F) /\ IsFiniteSet(T) /\ \A k \in F : rest[k] \in Int
      BY <2>2, FS_Subset
    <3>2. \A k \in F : ProductOver(rest, F) = rest[k] * ProductOver(rest, F \ {k})
      BY <3>1, ProductStep
    <3>3. \A k \in T : rest[k] \in Int
      BY <2>2, <3>1
    <3>4. ProductOver(rest, T) \in Int
      BY <3>1, <3>3, ProductStep
    <3> QED
      BY <2>2, <3>2, <3>4
  <2>11. SumFunctionOnSet(h, SUBSET T) = -ProductOver(rest, T)
    BY <1>5
  <2>12. \A p \in Int, z \in Int : z * (-p) = -(z * p)
    OBVIOUS
  <2>13. SumFunctionOnSet(g, SUBSET F) = -ProductOver(rest, F)
    <3> HIDE DEF g, h, c
    <3> QED
      BY <2>5, <2>9, <2>10, <2>11, <2>12
  <2> QED
    BY <2>1, <2>2, <2>13
<1>6. U \in X
  <2>1. SUBSET U \subseteq X
    <3> HIDE DEF X
    <3> QED
      BY <1>4, <1>5, SubsetInduction
  <2> QED
    BY <2>1
<1>7. PICK F : F = SUBSET U
  OBVIOUS
<1>8. IsFiniteSet(F) /\ {} \in F /\ \A S \in F : a[S] \in Int /\ Term(U)[S] = a[S]
  <2>1. IsFiniteSet(F) /\ {} \in F
    BY <1>2, <1>7
  <2>2. ASSUME NEW S \in F PROVE a[S] \in Int /\ Term(U)[S] = a[S]
    <3>1. PICK p \in Int : p = ProductOver(mix[S], U)
      BY <1>3, <1>7
    <3>2. a[S] = IF Cardinality(S) % 2 = 1 THEN p ELSE -p
      BY <1>7, <3>1
    <3>3. Term(U)[S] = a[S]
      BY <1>7
    <3>4. a[S] \in {p, -p}
      BY <3>2
    <3> QED
      BY <3>3, <3>4
  <2> QED
    BY <2>1, <2>2
<1>9. SumFunctionOnSet(a, F) = -ProductOver(rest, U)
  <2> DEFINE t == Term(U)
  <2>1. \A S \in F : t[S] = a[S]
    BY <1>8
  <2>2. SumFunctionOnSet(t, F) = -ProductOver(rest, U)
    BY <1>6, <1>7
  <2> HIDE DEF t
  <2>3. SumFunctionOnSet(a, F) = SumFunctionOnSet(t, F)
    BY <1>8, <2>1, SumSame
  <2> QED
    BY <2>2, <2>3
<1>10. SumFunctionOnSet(a, F) = a[{}] + SumFunctionOnSet(a, F \ {{}})
       /\ SumFunctionOnSet(a, F \ {{}}) \in Int
  <2>0. PICK G : G = F
    OBVIOUS
  <2>1. ASSUME NEW S \in F
        PROVE  SumFunctionOnSet(a, F) = a[S] + SumFunctionOnSet(a, F \ {S})
    <3>1. IsFiniteSet(G) /\ (\A T \in G : a[T] \in Int) /\ S \in G
      BY <1>8, <2>0
    <3>2. SumFunctionOnSet(a, G) = a[S] + SumFunctionOnSet(a, G \ {S})
      BY <3>1, SumStep
    <3> QED
      BY <2>0, <3>2
  <2>2. PICK E : E = F \ {{}}
    OBVIOUS
  <2>3. IsFiniteSet(E) /\ \A S \in E : a[S] \in Int
    BY <1>8, <2>2, FS_Subset
  <2>4. SumFunctionOnSet(a, E) \in Int
    BY <2>3, SumStep
  <2> QED
    BY <1>8, <2>1, <2>2, <2>4
<1>11. a[{}] = -ProductOver(whole, U) /\ ProductOver(whole, U) \in Int
  <2>1. /\ a[{}] = -ProductOver(mix[{}], U)
        /\ \A k \in U : mix[{}][k] = whole[k] /\ whole[k] \in Int
    BY FS_EmptySet
  <2>2. ProductOver(mix[{}], U) = ProductOver(whole, U)
    BY <2>1, ProductSame
  <2>3. ProductOver(whole, U) \in Int
    BY <2>1, ProductStep
  <2> QED
    BY <2>1, <2>2, <2>3
<1>12. ProductOver(rest, U) \in Int
  BY ProductStep
<1>13. PICK s \in Int, p \in Int, q \in Int :
          s = SumFunctionOnSet(a, F \ {{}}) /\ p = ProductOver(whole, U) /\ q = ProductOver(rest, U)
  BY <1>10, <1>11, <1>12
<1>14. -q = -p + s
  BY <1>9, <1>10, <1>11, <1>13
<1>15. s = p - q
  BY <1>14
<1>16. SumFunctionOnSet(a, F \ {{}}) = ProductOver(whole, U) - ProductOver(rest, U)
  BY <1>13, <1>15
<1>17. F \ {{}} = N
  BY <1>7
<1> QED
  BY <1>16, <1>17

----------------------------------------------------------------------------
(***************************************************************************)
(* Finite sets in a strict order B, a set of pairs.                        *)
(***************************************************************************)
StrictOrder(B, S) ==
    /\ \A x \in S : <<x, x>> \notin B
    /\ \A x, y, z \in S : <<x, y>> \in B /\ <<y, z>> \in B => <<x, z>> \in B
    /\ \A x, y \in S : x = y \/ <<x, y>> \in B \/ <<y, x>> \in B

Below(B, S, x) == {y \in S : <<y, x>> \in B}

\* q has the elements by how many are below them.
Sorts(q, B, S) ==
    /\ IsFiniteSet(S) /\ StrictOrder(B, S)
    /\ \A p \in 1 .. Cardinality(S) :
          q[p] = CHOOSE x \in S : Cardinality(Below(B, S, x)) = p - 1

\* f takes the elements of S in their order B to those of T in C.
Carries(f, B, S, C, T) ==
    /\ \A x \in S : f[x] \in T
    /\ \A y \in T : \E x \in S : f[x] = y
    /\ \A x, y \in S : <<x, y>> \in B <=> <<f[x], f[y]>> \in C

(* The elements are numbered by how many are below them.                   *)
LEMMA Ranks ==
    ASSUME NEW S, IsFiniteSet(S), NEW B, StrictOrder(B, S)
    PROVE  /\ \A x \in S : Cardinality(Below(B, S, x)) \in 0 .. Cardinality(S) - 1
           /\ \A x, y \in S : <<x, y>> \in B <=>
                 Cardinality(Below(B, S, x)) < Cardinality(Below(B, S, y))
           /\ \A x, y \in S :
                 Cardinality(Below(B, S, x)) = Cardinality(Below(B, S, y)) => x = y
           /\ \A p \in 1 .. Cardinality(S) :
                 \E x \in S : Cardinality(Below(B, S, x)) = p - 1
<1> DEFINE rank(x) == Cardinality(Below(B, S, x))
<1>1. Cardinality(S) \in Nat
  BY FS_CardinalityType
<1>2. ASSUME NEW x \in S PROVE rank(x) \in 0 .. Cardinality(S) - 1
  <2>1. Below(B, S, x) \subseteq S \ {x}
    BY DEF Below, StrictOrder
  <2>2. IsFiniteSet(S \ {x}) /\ Cardinality(S \ {x}) = Cardinality(S) - 1
    BY FS_RemoveElement
  <2>3. /\ IsFiniteSet(Below(B, S, x))
        /\ Cardinality(Below(B, S, x)) <= Cardinality(S \ {x})
    BY <2>1, <2>2, FS_Subset
  <2>4. Cardinality(Below(B, S, x)) \in Nat
    BY <2>3, FS_CardinalityType
  <2> QED
    BY <1>1, <2>2, <2>3, <2>4
<1>3. ASSUME NEW x \in S, NEW y \in S, <<x, y>> \in B PROVE rank(x) < rank(y)
  <2>1. Below(B, S, x) \subseteq Below(B, S, y) \ {x} /\ x \in Below(B, S, y)
    BY <1>3 DEF Below, StrictOrder
  <2>2. IsFiniteSet(Below(B, S, y))
    <3>1. Below(B, S, y) \subseteq S
      BY DEF Below
    <3> QED
      BY <3>1, FS_Subset
  <2>3. /\ IsFiniteSet(Below(B, S, y) \ {x})
        /\ Cardinality(Below(B, S, y) \ {x}) = Cardinality(Below(B, S, y)) - 1
    BY <2>1, <2>2, FS_RemoveElement
  <2>4. Cardinality(Below(B, S, x)) <= Cardinality(Below(B, S, y) \ {x})
    BY <2>1, <2>3, FS_Subset
  <2>5. rank(x) \in Int /\ rank(y) \in Int
    BY <1>1, <1>2
  <2> QED
    BY <2>3, <2>4, <2>5
<1>4. \A x, y \in S : x = y \/ <<x, y>> \in B \/ <<y, x>> \in B
  BY DEF StrictOrder
<1>5. \A x \in S : rank(x) \in Int
  BY <1>1, <1>2
<1> HIDE DEF rank
<1>6. ASSUME NEW x \in S, NEW y \in S
      PROVE  /\ <<x, y>> \in B <=> rank(x) < rank(y)
             /\ rank(x) = rank(y) => x = y
  <2>1. /\ <<x, y>> \in B => rank(x) < rank(y)
        /\ <<y, x>> \in B => rank(y) < rank(x)
    BY <1>3
  <2>2. x = y \/ <<x, y>> \in B \/ <<y, x>> \in B
    BY <1>4
  <2>3. rank(x) \in Int /\ rank(y) \in Int
    BY <1>5
  <2>4. x = y => rank(x) = rank(y)
    OBVIOUS
  <2> QED
    BY <2>1, <2>2, <2>3, <2>4
<1>7. /\ \A x, y \in S : <<x, y>> \in B <=> rank(x) < rank(y)
      /\ \A x, y \in S : rank(x) = rank(y) => x = y
  BY <1>6
<1>8. \A p \in 1 .. Cardinality(S) : \E x \in S : rank(x) = p - 1
  <2> DEFINE I == 1 .. Cardinality(S)
             f == [x \in S |-> rank(x) + 1]
  <2>1. \A x \in S : f[x] \in I /\ f[x] = rank(x) + 1
    BY <1>1, <1>2
  <2>2. f \in [S -> I]
    BY <2>1
  <2>3. \A x, y \in S : f[x] = f[y] => x = y
    BY <1>5, <1>7, <2>1
  <2>4. f \in Injection(S, I)
    BY <2>2, <2>3 DEF Injection, IsInjective
  <2>5. IsFiniteSet(I) /\ Cardinality(I) = Cardinality(S)
    BY <1>1, FS_Interval
  <2> HIDE DEF f, I
  <2>6. f \in Surjection(S, I)
    BY <2>4, <2>5, FS_Injection
  <2>7. \A p \in I : \E x \in S : f[x] = p
    BY <2>6 DEF Surjection
  <2> USE DEF I
  <2> QED
    BY <1>1, <1>5, <2>1, <2>7
<1> USE DEF rank
<1> QED
  BY <1>2, <1>7, <1>8

(* The sequence of the elements by rank.                                   *)
LEMMA ByRank ==
    ASSUME NEW S, NEW B, NEW q, Sorts(q, B, S)
    PROVE  /\ Cardinality(S) \in Nat
           /\ \A p \in 1 .. Cardinality(S) :
                 q[p] \in S /\ Cardinality(Below(B, S, q[p])) = p - 1
           /\ \A x \in S : \E p \in 1 .. Cardinality(S) : q[p] = x
           /\ \A p, r \in 1 .. Cardinality(S) : q[p] = q[r] => p = r
           /\ \A p, r \in 1 .. Cardinality(S) : <<q[p], q[r]>> \in B <=> p < r
<1> DEFINE I == 1 .. Cardinality(S)
           rank(x) == Cardinality(Below(B, S, x))
<1>0. /\ IsFiniteSet(S) /\ StrictOrder(B, S)
      /\ \A p \in I : q[p] = CHOOSE x \in S : rank(x) = p - 1
  BY DEF Sorts
<1>1. Cardinality(S) \in Nat
  BY <1>0, FS_CardinalityType
<1>2. /\ \A x \in S : rank(x) \in 0 .. Cardinality(S) - 1
      /\ \A x, y \in S : <<x, y>> \in B <=> rank(x) < rank(y)
      /\ \A x, y \in S : rank(x) = rank(y) => x = y
      /\ \A p \in I : \E x \in S : rank(x) = p - 1
  BY <1>0, Ranks
<1>3. ASSUME NEW p \in I PROVE q[p] \in S /\ rank(q[p]) = p - 1
  BY <1>0, <1>2
<1> HIDE DEF rank
<1>4. ASSUME NEW x \in S PROVE \E p \in I : q[p] = x
  <2>1. rank(x) + 1 \in I /\ rank(x) = (rank(x) + 1) - 1
    BY <1>1, <1>2
  <2>2. rank(q[rank(x) + 1]) = rank(x) /\ q[rank(x) + 1] \in S
    BY <1>3, <2>1
  <2> QED
    BY <1>2, <2>1, <2>2
<1>5. \A p, r \in I : q[p] = q[r] => p = r
  BY <1>1, <1>3
<1>6. \A p, r \in I : <<q[p], q[r]>> \in B <=> p < r
  BY <1>1, <1>2, <1>3
<1> USE DEF rank
<1> QED
  BY <1>1, <1>3, <1>4, <1>5, <1>6

(* Sets that correspond in their orders correspond in their sequences.     *)
LEMMA SameRanks ==
    ASSUME NEW S, NEW B, NEW q, Sorts(q, B, S),
           NEW T, NEW C, NEW r, Sorts(r, C, T),
           NEW f, Carries(f, B, S, C, T)
    PROVE  /\ Cardinality(T) = Cardinality(S)
           /\ \A p \in 1 .. Cardinality(S) : r[p] = f[q[p]]
<1>0. /\ IsFiniteSet(S) /\ StrictOrder(B, S) /\ StrictOrder(C, T)
      /\ \A x \in S : f[x] \in T
      /\ \A y \in T : \E x \in S : f[x] = y
      /\ \A x, y \in S : <<x, y>> \in B <=> <<f[x], f[y]>> \in C
  BY DEF Sorts, Carries
<1>1. \A x, y \in S : f[x] = f[y] => x = y
  BY <1>0 DEF StrictOrder
<1>2. ASSUME NEW A \in SUBSET S, NEW D, D = {f[x] : x \in A}
      PROVE  IsFiniteSet(D) /\ Cardinality(D) = Cardinality(A)
  <2> DEFINE g == [x \in A |-> f[x]]
  <2>1. g \in [A -> D] /\ \A x \in A : g[x] = f[x]
    BY <1>2
  <2>2. g \in Bijection(A, D)
    BY <1>0, <1>1, <1>2, <2>1 DEF Bijection, Injection, Surjection, IsInjective
  <2>3. IsFiniteSet(A)
    BY <1>0, FS_Subset
  <2> HIDE DEF g
  <2> QED
    BY <2>2, <2>3, FS_Bijection DEF ExistsBijection
<1>3. IsFiniteSet(T) /\ Cardinality(T) = Cardinality(S)
  <2>1. T = {f[x] : x \in S}
    BY <1>0
  <2> QED
    BY <1>2, <2>1
<1>4. ASSUME NEW x \in S
      PROVE  Cardinality(Below(C, T, f[x])) = Cardinality(Below(B, S, x))
  <2>1. Below(B, S, x) \in SUBSET S
    BY DEF Below
  <2>2. Below(C, T, f[x]) = {f[y] : y \in Below(B, S, x)}
    BY <1>0 DEF Below
  <2> QED
    BY <1>2, <2>1, <2>2
<1>5. ASSUME NEW p \in 1 .. Cardinality(S)
      PROVE  r[p] = f[q[p]]
  <2>1. q[p] \in S /\ Cardinality(Below(B, S, q[p])) = p - 1
    BY ByRank
  <2>2. f[q[p]] \in T /\ Cardinality(Below(C, T, f[q[p]])) = p - 1
    BY <1>0, <1>4, <2>1
  <2>3. r[p] \in T /\ Cardinality(Below(C, T, r[p])) = p - 1
    BY <1>3, ByRank
  <2>4. \A x, y \in T :
           Cardinality(Below(C, T, x)) = Cardinality(Below(C, T, y)) => x = y
    BY <1>0, <1>3, Ranks
  <2> QED
    BY <2>2, <2>3, <2>4
<1> QED
  BY <1>3, <1>5

(* A set that is not empty has a least element.                            *)
LEMMA LeastExists ==
    ASSUME NEW S, IsFiniteSet(S), S # {}, NEW B, StrictOrder(B, S)
    PROVE  \E x \in S : \A y \in S : x = y \/ <<x, y>> \in B
<1>1. 1 \in 1 .. Cardinality(S)
  <2>1. Cardinality(S) \in Nat /\ Cardinality(S) # 0
    BY FS_CardinalityType, FS_EmptySet
  <2> QED
    BY <2>1
<1>2. PICK x \in S : Cardinality(Below(B, S, x)) = 1 - 1
  BY <1>1, Ranks
<1>3. Below(B, S, x) = {}
  <2>1. Below(B, S, x) \subseteq S
    BY DEF Below
  <2>2. IsFiniteSet(Below(B, S, x))
    BY <2>1, FS_Subset
  <2>3. Cardinality(Below(B, S, x)) = 0
    BY <1>2
  <2> QED
    BY <2>2, <2>3, FS_EmptySet
<1>4. \A y \in S : <<y, x>> \notin B
  BY <1>3 DEF Below
<1> QED
  BY <1>4 DEF StrictOrder

----------------------------------------------------------------------------
(***************************************************************************)
(* Division.                                                               *)
(***************************************************************************)
LEMMA DivMod ==
    ASSUME NEW a \in Int, NEW b \in Nat \ {0}
    PROVE  /\ a \div b \in Int /\ a % b \in 0 .. b - 1
           /\ a = b * (a \div b) + (a % b)
           /\ b * (a \div b) <= a /\ a < b * (a \div b) + b
<1>1. a \div b \in Int /\ a % b \in 0 .. b - 1
  OBVIOUS
<1>2. a = b * (a \div b) + (a % b)
  OBVIOUS
<1> QED
  BY <1>1, <1>2

LEMMA DivModUnique ==
    ASSUME NEW b \in Nat \ {0}, NEW q \in Int, NEW r \in 0 .. b - 1
    PROVE  (b * q + r) \div b = q /\ (b * q + r) % b = r
<1>1. PICK a \in Int : a = b * q + r
  OBVIOUS
<1>2. PICK d \in Int, m \in 0 .. b - 1 : d = a \div b /\ m = a % b /\ a = b * d + m
  BY DivMod
<1>3. b * (d - q) = r - m
  BY <1>1, <1>2
<1>4. d - q < 1
  <2>1. SUFFICES ASSUME 1 <= d - q PROVE FALSE
    OBVIOUS
  <2>2. b <= b * (d - q)
    BY <2>1
  <2> QED
    BY <1>3, <2>2
<1>5. -1 < d - q
  <2>1. SUFFICES ASSUME d - q <= -1 PROVE FALSE
    OBVIOUS
  <2>2. b * (d - q) <= -b
    BY <2>1
  <2> QED
    BY <1>3, <2>2
<1>6. d = q
  BY <1>4, <1>5
<1> QED
  BY <1>1, <1>2, <1>3, <1>6

(* A larger fraction has a larger whole part.                              *)
LEMMA DivMonotone ==
    ASSUME NEW a \in Int, NEW b \in Nat \ {0}, NEW c \in Int, NEW d \in Nat \ {0},
           a * d <= c * b
    PROVE  a \div b <= c \div d
<1>1. PICK x \in Int, y \in Int : /\ x = a \div b /\ b * x <= a
                                 /\ y = c \div d /\ c < d * y + d
  BY DivMod
<1>2. SUFFICES ASSUME y + 1 <= x PROVE FALSE
  BY <1>1
<1>3. d * (y + 1) <= d * x /\ d * y + d = d * (y + 1)
  BY <1>2
<1>4. c < d * x
  BY <1>1, <1>3
<1>5. c * b < (d * x) * b
  BY <1>4
<1>6. (b * x) * d <= a * d
  BY <1>1
<1>7. (b * x) * d = (d * x) * b
  OBVIOUS
<1> QED
  BY <1>5, <1>6, <1>7
=============================================================================
