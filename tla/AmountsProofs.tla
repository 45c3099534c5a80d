---------------------------- MODULE AmountsProofs ---------------------------
(***************************************************************************)
(* Lemmas on numbers, finite sets and sums over them, for the proofs of    *)
(* the components.  Induction is by least counterexamples: the well-       *)
(* founded order of the naturals has one, and a set takes the place of the *)
(* predicate.                                                              *)
(***************************************************************************)
EXTENDS Amounts, Sequences, FiniteSets, FiniteSetsExt, Functions, FiniteSetTheorems,
        WellFoundedInduction, TLAPS

(* Every set of natural numbers that is not empty has a least one.          *)
LEMMA LeastNatural ==
  ASSUME NEW T \in SUBSET Nat, T # {}
  PROVE  \E m \in T : \A n \in T : m <= n
<1>1. PICK m \in T : \A n \in T : ~(<<n, m>> \in OpToRel(<, Nat))
  BY WFMin, NatLessThanWellFounded, Zenon
<1>2. ASSUME NEW n \in T PROVE m <= n
  <2>1. ~(<<n, m>> \in {p \in Nat \X Nat : p[1] < p[2]})
    BY <1>1 DEF OpToRel
  <2> QED
    BY <2>1
<1> QED
  BY <1>2

(* Of the numbers with the least weight one is least: what min(key=...)     *)
(* finds.                                                                   *)
LEMMA LexicographicLeast ==
  ASSUME NEW T \in SUBSET Nat, T # {}, NEW w, \A x \in T : w[x] \in Nat
  PROVE  \E b \in T : \A c \in T \ {b} : w[b] < w[c] \/ (w[b] = w[c] /\ b < c)
<1> DEFINE W == {w[x] : x \in T}
<1>1. W \in SUBSET Nat /\ W # {}
  OBVIOUS
<1>2. PICK m \in W : \A n \in W : m <= n
  <2> HIDE DEF W
  <2> QED BY <1>1, LeastNatural
<1> DEFINE U == {x \in T : w[x] = m}
<1>3. U \in SUBSET Nat /\ U # {}
  OBVIOUS
<1>4. PICK b \in U : \A c \in U : b <= c
  <2> HIDE DEF U
  <2> QED BY <1>3, LeastNatural
<1>5. ASSUME NEW c \in T \ {b} PROVE w[b] < w[c] \/ (w[b] = w[c] /\ b < c)
  <2>1. b \in T /\ b \in Nat /\ c \in Nat /\ b # c /\ w[b] = m /\ m <= w[c] /\ w[c] \in Nat
          /\ m \in Nat
    BY <1>2
  <2>2. w[c] = m => b <= c
    BY <1>4
  <2> QED BY <2>1, <2>2
<1> QED BY <1>4, <1>5

(* Min, which is defined by a choice, is that number.                       *)
LEMMA MinOfNaturals ==
  ASSUME NEW T \in SUBSET Nat, T # {}
  PROVE  Min(T) \in T /\ \A n \in T : Min(T) <= n
<1>1. \E m \in T : \A n \in T : m <= n
  BY LeastNatural
<1> QED BY <1>1 DEF Min

-----------------------------------------------------------------------------
(* Induction, for a set of numbers in the place of a predicate.             *)
LEMMA NaturalsByInduction ==
  ASSUME NEW P, 0 \in P, \A n \in Nat : n \in P => n + 1 \in P
  PROVE  Nat \subseteq P
<1>1. SUFFICES ASSUME Nat \ P # {} PROVE FALSE
  OBVIOUS
<1>2. PICK m \in Nat \ P : \A n \in Nat \ P : m <= n
  BY <1>1, LeastNatural
<1>3. m - 1 \in Nat
  BY <1>2
<1>4. m - 1 \in P
  BY <1>2, <1>3
<1> QED
  BY <1>2, <1>3, <1>4

(* Induction over a finite set, one element at a time.                      *)
LEMMA SetsByInduction ==
  ASSUME NEW S, IsFiniteSet(S), NEW P, {} \in P,
         \A T \in SUBSET S : \A x \in S \ T : T \in P => T \union {x} \in P
  PROVE  S \in P
<1> DEFINE Q == {n \in Nat : \A T \in SUBSET S : Cardinality(T) = n => T \in P}
<1>0. \A T \in SUBSET S : IsFiniteSet(T) /\ Cardinality(T) \in Nat
  BY FS_Subset, FS_CardinalityType
<1>1. 0 \in Q
  BY <1>0, FS_EmptySet
<1>2. ASSUME NEW n \in Nat, n \in Q PROVE n + 1 \in Q
  <2>1. ASSUME NEW T \in SUBSET S, Cardinality(T) = n + 1 PROVE T \in P
    <3>0. Cardinality(T) # 0
      BY <2>1
    <3>1. T # {}
      BY <3>0, FS_EmptySet, Zenon
    <3>2. PICK x : x \in T
      BY <3>1
    <3>3. Cardinality(T \ {x}) = Cardinality(T) - 1
      BY <1>0, <3>2, FS_RemoveElement
    <3>4. T \ {x} \in P
      BY <1>2, <2>1, <3>3
    <3> QED
      BY <3>2, <3>4
  <2> QED
    BY <2>1
<1>3. Cardinality(S) \in Q
  <2> HIDE DEF Q
  <2> QED
    BY <1>0, <1>1, <1>2, NaturalsByInduction
<1> QED
  BY <1>3

(* A finite set of numbers has a greatest one, and Max is it.               *)
LEMMA MaxOfFinite ==
  ASSUME NEW T \in SUBSET Nat, IsFiniteSet(T), T # {}
  PROVE  Max(T) \in T /\ \A n \in T : n <= Max(T)
<1> DEFINE P == {U \in SUBSET T : U # {} => \E m \in U : \A n \in U : n <= m}
<1>1. {} \in P
  OBVIOUS
<1>2. ASSUME NEW U \in SUBSET T, NEW x \in T \ U, U \in P PROVE U \union {x} \in P
  <2>1. CASE U = {}
    BY <2>1
  <2>2. CASE U # {}
    <3>1. PICK m \in U : \A n \in U : n <= m
      BY <1>2, <2>2
    <3>2. CASE m <= x
      <4>1. \A n \in U \union {x} : n <= x
        BY <3>1, <3>2
      <4> QED BY <4>1
    <3>3. CASE ~(m <= x)
      <4>1. \A n \in U \union {x} : n <= m
        BY <3>1, <3>3
      <4> QED BY <4>1
    <3> QED BY <3>2, <3>3
  <2> QED BY <2>1, <2>2
<1>3. T \in P
  <2> HIDE DEF P
  <2> QED BY <1>1, <1>2, SetsByInduction
<1>4. \E m \in T : \A n \in T : m >= n
  BY <1>3
<1>5. Max(T) \in T /\ \A n \in T : Max(T) >= n
  BY <1>4 DEF Max
<1> QED BY <1>5

(* Max is whatever element nothing exceeds.                                 *)
LEMMA MaxIs ==
  ASSUME NEW S, S \subseteq Int, NEW x \in S, \A y \in S : y <= x
  PROVE  Max(S) = x
<1>1. \A z \in S : (\A y \in S : z >= y) => z = x
  OBVIOUS
<1>2. \A y \in S : x >= y
  OBVIOUS
<1> QED BY <1>1, <1>2 DEF Max

(* A set of positions is finite.                                            *)
LEMMA PartOfInterval ==
  ASSUME NEW n \in Nat, NEW S \in SUBSET (1 .. n)
  PROVE  IsFiniteSet(S)
<1>1. IsFiniteSet(1 .. n)
  BY FS_Interval
<1> QED BY <1>1, FS_Subset

-----------------------------------------------------------------------------
(* Sequences by what they are as functions.                                 *)
LEMMA SequenceTyped ==
  ASSUME NEW Q, NEW s \in Seq(Q)
  PROVE  DOMAIN s \subseteq Nat \ {0} /\ \A i \in DOMAIN s : s[i] \in Q
  OBVIOUS

LEMMA SequenceOfLength ==
  ASSUME NEW Q, NEW n \in Nat, NEW f \in [1 .. n -> Q]
  PROVE  f \in Seq(Q) /\ Len(f) = n
OBVIOUS

LEMMA OneMore ==
  ASSUME NEW n \in Nat
  PROVE  1 .. (n + 1) = (1 .. n) \union {n + 1} /\ n + 1 \notin 1 .. n
  OBVIOUS

-----------------------------------------------------------------------------
(* Arithmetic that the provers find only when nothing else is in sight.     *)
LEMMA Division ==
  ASSUME NEW n \in Int, NEW k \in Nat \ {0}
  PROVE  /\ n \div k \in Int /\ n % k \in 0 .. k - 1
         /\ n = k * (n \div k) + (n % k)
  BY SMT

LEMMA Product ==
  ASSUME NEW a \in Nat, NEW b \in Nat
  PROVE  a * b \in Nat
  BY SMT

LEMMA ProductPos ==
  ASSUME NEW a \in Nat \ {0}, NEW b \in Nat \ {0}
  PROVE  a * b \in Nat \ {0}
  BY SMT

LEMMA Monotone ==
  ASSUME NEW a \in Nat, NEW b \in Int, NEW c \in Int, b <= c
  PROVE  a * b <= a * c
  BY SMT

LEMMA Assoc ==
  ASSUME NEW a \in Int, NEW b \in Int, NEW c \in Int
  PROVE  a * (b * c) = (a * b) * c /\ (a * b) * c = (a * c) * b /\ a * (b + 1) = a * b + a
  BY SMT

LEMMA SizeBounded ==
  ASSUME NEW m \in Int, NEW n \in Int, NEW t \in Int,
         2 * (m - n) <= t, 2 * (n - m) <= t
  PROVE  2 * Size(m - n) <= t
  BY DEF Size

-----------------------------------------------------------------------------
(* SumFunctionOnSet, from its definition.                                   *)
Pick(T) == CHOOSE x \in T : TRUE
Partial(f, g, T) == IF T = {} THEN 0 ELSE f[Pick(T)] + g[T \ {Pick(T)}]
SumsOn(f, S) == CHOOSE g : g = [T \in SUBSET S |-> Partial(f, g, T)]

LEMMA SumIsFolded ==
  ASSUME NEW f, NEW S
  PROVE  SumFunctionOnSet(f, S) = SumsOn(f, S)[S]
BY DEF SumFunctionOnSet, FoldFunctionOnSet, MapThenFoldSet, SumsOn, Partial, Pick

LEMMA PickIsElement ==
  ASSUME NEW T, T # {}
  PROVE  Pick(T) \in T
BY DEF Pick

(* The fold is defined by the choice of a function; there is one, and so    *)
(* each of its values is the next element added to the rest.                *)
LEMMA SumsPointwise ==
  ASSUME NEW f, NEW S, IsFiniteSet(S)
  PROVE  \A T \in SUBSET S : SumsOn(f, S)[T] = Partial(f, SumsOn(f, S), T)
<1> DEFINE Good(g, n) == \A T \in SUBSET S : Cardinality(T) <= n => g[T] = Partial(f, g, T)
           Fun(g) == g = [T \in SUBSET S |-> g[T]]
           N == {n \in Nat : \E g : Fun(g) /\ Good(g, n)}
<1>0. \A T \in SUBSET S : IsFiniteSet(T) /\ Cardinality(T) \in Nat
  BY FS_Subset, FS_CardinalityType
<1>1. 0 \in N
  <2> DEFINE g == [T \in SUBSET S |-> 0]
  <2>1. Good(g, 0)
    <3> SUFFICES ASSUME NEW T \in SUBSET S, Cardinality(T) <= 0
                 PROVE  g[T] = Partial(f, g, T)
      OBVIOUS
    <3>1. Cardinality(T) = 0
      BY <1>0
    <3>2. T = {}
      BY <1>0, <3>1, FS_EmptySet, Zenon
    <3> QED
      BY <3>2 DEF Partial
  <2>2. Fun(g)
    OBVIOUS
  <2> HIDE DEF g, Fun, Good
  <2> QED
    BY <2>1, <2>2
<1>2. ASSUME NEW n \in Nat, n \in N PROVE n + 1 \in N
  <2>1. PICK g : Fun(g) /\ Good(g, n)
    BY <1>2
  <2> DEFINE h == [T \in SUBSET S |-> IF Cardinality(T) <= n THEN g[T] ELSE Partial(f, g, T)]
  <2>2. \A T \in SUBSET S : h[T] = Partial(f, g, T)
    BY <2>1
  <2>3. ASSUME NEW T \in SUBSET S, Cardinality(T) <= n + 1
        PROVE  Partial(f, h, T) = Partial(f, g, T)
    <3>1. CASE T = {}
      BY <3>1 DEF Partial
    <3>2. CASE T # {}
      <4>1. Pick(T) \in T
        BY <3>2, PickIsElement
      <4>2. Cardinality(T \ {Pick(T)}) = Cardinality(T) - 1
        BY <1>0, <4>1, FS_RemoveElement
      <4>3. h[T \ {Pick(T)}] = g[T \ {Pick(T)}]
        <5>1. T \ {Pick(T)} \in SUBSET S
          OBVIOUS
        <5>2. Cardinality(T \ {Pick(T)}) <= n
          BY <1>0, <2>3, <4>2
        <5> QED
          BY <5>1, <5>2
      <4> HIDE DEF h
      <4> QED
        BY <3>2, <4>3 DEF Partial
    <3> QED
      BY <3>1, <3>2
  <2>4. Good(h, n + 1)
    BY <2>2, <2>3
  <2>5. Fun(h)
    OBVIOUS
  <2> HIDE DEF h, Fun, Good
  <2> QED
    BY <2>4, <2>5
<1>3. Cardinality(S) \in N
  <2> HIDE DEF N
  <2> QED
    BY <1>0, <1>1, <1>2, NaturalsByInduction
<1>4. PICK g : Fun(g) /\ Good(g, Cardinality(S))
  BY <1>3
<1>5. \A T \in SUBSET S : g[T] = Partial(f, g, T)
  BY <1>4, FS_Subset
<1>6. g = [T \in SUBSET S |-> Partial(f, g, T)]
  <2>1. g = [T \in SUBSET S |-> g[T]]
    BY <1>4
  <2> HIDE DEF Fun, Good
  <2> QED
    BY <1>5, <2>1
<1> DEFINE h == SumsOn(f, S)
<1>7. h = [T \in SUBSET S |-> Partial(f, h, T)]
  BY <1>6 DEF SumsOn
<1> HIDE DEF h
<1>8. \A T \in SUBSET S : h[T] = Partial(f, h, T)
  BY <1>7
<1> QED
  BY <1>8 DEF h

(* The partial sums agree, whatever the set that they were folded over.     *)
LEMMA SumsAgree ==
  ASSUME NEW f, NEW S, IsFiniteSet(S), NEW T \in SUBSET S
  PROVE  SumsOn(f, S)[T] = SumFunctionOnSet(f, T)
<1> DEFINE P == {n \in Nat : \A U \in SUBSET T : Cardinality(U) = n =>
                                SumsOn(f, S)[U] = SumsOn(f, T)[U]}
<1>0. \A U \in SUBSET T : IsFiniteSet(U) /\ Cardinality(U) \in Nat
  BY FS_Subset, FS_CardinalityType
<1>1. /\ \A U \in SUBSET S : SumsOn(f, S)[U] = Partial(f, SumsOn(f, S), U)
      /\ \A U \in SUBSET T : SumsOn(f, T)[U] = Partial(f, SumsOn(f, T), U)
  <2> HIDE DEF P
  <2> QED
    BY <1>0, SumsPointwise
<1>2. 0 \in P
  <2> SUFFICES ASSUME NEW U \in SUBSET T, Cardinality(U) = 0
               PROVE  SumsOn(f, S)[U] = SumsOn(f, T)[U]
    OBVIOUS
  <2>1. U = {}
    BY <1>0, FS_EmptySet, Zenon
  <2> QED
    BY <1>1, <2>1 DEF Partial
<1>3. ASSUME NEW n \in Nat, n \in P PROVE n + 1 \in P
  <2> SUFFICES ASSUME NEW U \in SUBSET T, Cardinality(U) = n + 1
               PROVE  SumsOn(f, S)[U] = SumsOn(f, T)[U]
    OBVIOUS
  <2>0. Cardinality(U) # 0
    OBVIOUS
  <2>1. U # {}
    BY <2>0, FS_EmptySet, Zenon
  <2>2. Pick(U) \in U
    BY <2>1, PickIsElement
  <2>3. Cardinality(U \ {Pick(U)}) = n
    <3>1. Cardinality(U \ {Pick(U)}) = Cardinality(U) - 1
      BY <1>0, <2>2, FS_RemoveElement
    <3> QED
      BY <3>1
  <2>4. SumsOn(f, S)[U \ {Pick(U)}] = SumsOn(f, T)[U \ {Pick(U)}]
    BY <1>3, <2>3
  <2> QED
    BY <1>1, <2>1, <2>4 DEF Partial
<1>4. Cardinality(T) \in P
  <2> HIDE DEF P
  <2> QED
    BY <1>0, <1>2, <1>3, NaturalsByInduction
<1> QED
  BY <1>4, SumIsFolded

(* Sums by their recursion.                                                 *)
LEMMA SumOfNone ==
  ASSUME NEW f
  PROVE  SumFunctionOnSet(f, {}) = 0
<1>1. SumsOn(f, {})[{}] = Partial(f, SumsOn(f, {}), {})
  BY SumsPointwise, FS_EmptySet
<1> QED
  BY <1>1, SumIsFolded DEF Partial

LEMMA SumPicks ==
  ASSUME NEW f, NEW S, IsFiniteSet(S), S # {}
  PROVE  SumFunctionOnSet(f, S) = f[Pick(S)] + SumFunctionOnSet(f, S \ {Pick(S)})
<1>1. SumsOn(f, S)[S] = Partial(f, SumsOn(f, S), S)
  BY SumsPointwise
<1>2. SumsOn(f, S)[S \ {Pick(S)}] = SumFunctionOnSet(f, S \ {Pick(S)})
  BY SumsAgree
<1> QED
  BY <1>1, <1>2, SumIsFolded DEF Partial

(* A sum of integers is an integer.                                         *)
LEMMA SumTyped ==
  ASSUME NEW S, IsFiniteSet(S), NEW f, \A x \in S : f[x] \in Int
  PROVE  SumFunctionOnSet(f, S) \in Int
<1> DEFINE P == {n \in Nat : \A T \in SUBSET S : Cardinality(T) = n =>
                                SumFunctionOnSet(f, T) \in Int}
<1>0. \A T \in SUBSET S : IsFiniteSet(T) /\ Cardinality(T) \in Nat
  BY FS_Subset, FS_CardinalityType
<1>1. 0 \in P
  <2> SUFFICES ASSUME NEW T \in SUBSET S, Cardinality(T) = 0
               PROVE  SumFunctionOnSet(f, T) \in Int
    OBVIOUS
  <2>1. T = {}
    BY <1>0, FS_EmptySet, Zenon
  <2> QED
    BY <2>1, SumOfNone
<1>2. ASSUME NEW n \in Nat, n \in P PROVE n + 1 \in P
  <2> SUFFICES ASSUME NEW T \in SUBSET S, Cardinality(T) = n + 1
               PROVE  SumFunctionOnSet(f, T) \in Int
    OBVIOUS
  <2>0. Cardinality(T) # 0
    OBVIOUS
  <2>1. T # {}
    BY <2>0, FS_EmptySet, Zenon
  <2>2. Pick(T) \in T
    BY <2>1, PickIsElement
  <2>3. Cardinality(T \ {Pick(T)}) = Cardinality(T) - 1
    BY <1>0, <2>2, FS_RemoveElement
  <2>4. SumFunctionOnSet(f, T \ {Pick(T)}) \in Int
    BY <1>2, <2>3
  <2>5. SumFunctionOnSet(f, T) = f[Pick(T)] + SumFunctionOnSet(f, T \ {Pick(T)})
    BY <1>0, <2>1, SumPicks
  <2>6. f[Pick(T)] \in Int
    BY <2>2
  <2> HIDE DEF P
  <2> QED
    BY <2>4, <2>5, <2>6
<1>3. Cardinality(S) \in P
  <2> HIDE DEF P
  <2> QED
    BY <1>0, <1>1, <1>2, NaturalsByInduction
<1> QED
  BY <1>3

(* Any element, not the one the fold picks first, may be taken out.         *)
LEMMA SumWithout ==
  ASSUME NEW S, IsFiniteSet(S), NEW f, \A x \in S : f[x] \in Int, NEW a \in S
  PROVE  SumFunctionOnSet(f, S) = f[a] + SumFunctionOnSet(f, S \ {a})
<1> DEFINE Sum(T) == SumFunctionOnSet(f, T)
           P == {n \in Nat : \A T \in SUBSET S : Cardinality(T) = n =>
                                \A x \in T : Sum(T) = f[x] + Sum(T \ {x})}
<1>0. \A T \in SUBSET S : IsFiniteSet(T) /\ Cardinality(T) \in Nat
  BY FS_Subset, FS_CardinalityType
<1>1. \A T \in SUBSET S : Sum(T) \in Int
  BY <1>0, SumTyped
<1>2. \A T \in SUBSET S : T # {} => Pick(T) \in T /\ Sum(T) = f[Pick(T)] + Sum(T \ {Pick(T)})
  BY <1>0, SumPicks, PickIsElement
<1> HIDE DEF Sum
<1>3. 0 \in P
  <2> SUFFICES ASSUME NEW T \in SUBSET S, Cardinality(T) = 0
               PROVE  T = {}
    OBVIOUS
  <2> QED
    BY <1>0, FS_EmptySet, Zenon
<1>4. ASSUME NEW n \in Nat, n \in P PROVE n + 1 \in P
  <2> SUFFICES ASSUME NEW T \in SUBSET S, Cardinality(T) = n + 1, NEW x \in T
               PROVE  Sum(T) = f[x] + Sum(T \ {x})
    OBVIOUS
  <2> DEFINE y == Pick(T)
  <2>1. y \in T /\ Sum(T) = f[y] + Sum(T \ {y})
    BY <1>2
  <2> HIDE DEF y
  <2>2. CASE x = y
    BY <2>1, <2>2
  <2>3. CASE x # y
    <3>1. Cardinality(T \ {x}) = n /\ Cardinality(T \ {y}) = n
      <4>1. Cardinality(T \ {x}) = Cardinality(T) - 1 /\ Cardinality(T \ {y}) = Cardinality(T) - 1
        BY <1>0, <2>1, FS_RemoveElement
      <4> QED
        BY <4>1
    <3>2. Sum(T \ {x}) = f[y] + Sum((T \ {x}) \ {y})
      BY <1>4, <2>1, <2>3, <3>1
    <3>3. Sum(T \ {y}) = f[x] + Sum((T \ {y}) \ {x})
      BY <1>4, <2>3, <3>1
    <3> DEFINE R == (T \ {x}) \ {y}
    <3>4. R = (T \ {y}) \ {x}
      OBVIOUS
    <3>5. f[x] \in Int /\ f[y] \in Int /\ Sum(R) \in Int
      BY <1>1, <2>1
    <3>6. Sum(T \ {x}) = f[y] + Sum(R) /\ Sum(T \ {y}) = f[x] + Sum(R)
      BY <3>2, <3>3, <3>4
    <3> HIDE DEF P, R
    <3> QED
      BY <2>1, <3>5, <3>6
  <2> QED
    BY <2>2, <2>3
<1>5. Cardinality(S) \in P
  <2> HIDE DEF P
  <2> QED
    BY <1>0, <1>3, <1>4, NaturalsByInduction
<1> QED
  BY <1>5 DEF Sum

LEMMA SumWith ==
  ASSUME NEW S, IsFiniteSet(S), NEW a, a \notin S,
         NEW f, \A x \in S \union {a} : f[x] \in Int
  PROVE  /\ SumFunctionOnSet(f, S \union {a}) = f[a] + SumFunctionOnSet(f, S)
         /\ SumFunctionOnSet(f, S) \in Int
<1>1. IsFiniteSet(S \union {a})
  BY FS_AddElement
<1>2. (S \union {a}) \ {a} = S
  OBVIOUS
<1> QED
  BY <1>1, <1>2, SumWithout, SumTyped

(* Two functions that agree on a set have the same sum over it.             *)
LEMMA SumsEqual ==
  ASSUME NEW S, IsFiniteSet(S), NEW f, NEW g,
         \A x \in S : f[x] \in Int /\ f[x] = g[x]
  PROVE  SumFunctionOnSet(f, S) = SumFunctionOnSet(g, S)
<1> DEFINE P == {T \in SUBSET S : SumFunctionOnSet(f, T) = SumFunctionOnSet(g, T)}
<1>1. {} \in P
  BY SumOfNone
<1>2. ASSUME NEW T \in SUBSET S, NEW x \in S \ T, T \in P PROVE T \union {x} \in P
  <2>1. IsFiniteSet(T)
    BY FS_Subset
  <2>2. /\ SumFunctionOnSet(f, T \union {x}) = f[x] + SumFunctionOnSet(f, T)
        /\ SumFunctionOnSet(g, T \union {x}) = g[x] + SumFunctionOnSet(g, T)
    BY <2>1, SumWith
  <2> QED
    BY <1>2, <2>2
<1>3. S \in P
  <2> HIDE DEF P
  <2> QED
    BY <1>1, <1>2, SetsByInduction
<1> QED
  BY <1>3
=============================================================================
