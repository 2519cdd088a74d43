----------------------------- MODULE FoldLemmas -----------------------------
(***************************************************************************)
(* What a fold over a sequence computes.  The models loop over sequences   *)
(* with FoldLeft, a recursive function over the sets of the indices that   *)
(* are left.  The lemmas turn it into the run of the loop: the values h[k] *)
(* of its accumulator after k turns.  They are stated for a body F that is *)
(* a function, on the indices and on a set V of accumulators.              *)
(***************************************************************************)
EXTENDS Integers, FiniteSetsExt, Functions, FiniteSetTheorems, WellFoundedInduction, TLAPS

\* The least-number principle.
LEMMA LeastNumber ==
  ASSUME NEW T \in SUBSET Nat, T # {}
  PROVE  \E m \in T : \A n \in T : m <= n
<1> DEFINE R == OpToRel(<, Nat)
<1>1. IsWellFoundedOn(R, Nat)
  BY NatLessThanWellFounded
<1> HIDE DEF R
<1>2. PICK x \in T : \A y \in T : ~ (<<y, x>> \in R)
  BY <1>1, WFMin
<1>3. \A y \in T : ~(y < x)
  BY <1>2 DEF OpToRel, R
<1>4. QED
  BY <1>3

\* Induction up to a bound; the predicate is a set, so that it can be cited for
\* any.
LEMMA InductionUpTo ==
  ASSUME NEW n \in Nat, NEW S, 0 \in S,
         \A k \in 0..n : k # n /\ k \in S => k + 1 \in S
  PROVE  0..n \subseteq S
<1> DEFINE T == {k \in 0..n : k \notin S}
<1>1. SUFFICES ASSUME T # {} PROVE FALSE
  OBVIOUS
<1>2. T \in SUBSET Nat
  OBVIOUS
<1> HIDE DEF T
<1>3. PICK m \in T : \A k \in T : m <= k
  BY <1>1, <1>2, LeastNumber
<1>4. m \in 0..n /\ m \notin S /\ m # 0
  BY <1>3 DEF T
<1>5. m - 1 \in 0..n /\ m - 1 # n /\ m - 1 + 1 = m
  BY <1>4
<1>6. m - 1 \notin T
  BY <1>3, <1>4, <1>5
<1>7. m - 1 \in S
  BY <1>5, <1>6 DEF T
<1>8. QED
  BY <1>4, <1>5, <1>7

\* The maximum of indices is one of them.
LEMMA MaxOfIndices ==
  ASSUME NEW n \in Nat, NEW s \in SUBSET (1..n), s # {}
  PROVE  Max(s) \in s /\ \A x \in s : x <= Max(s)
<1> DEFINE T == {m \in Nat : \A x \in s : x <= m}
<1>1. T \in SUBSET Nat /\ n \in T
  OBVIOUS
<1>2. PICK m \in T : \A k \in T : m <= k
  <2> HIDE DEF T
  <2>1. QED
    BY <1>1, LeastNumber
<1>3. m \in s
  <2>1. SUFFICES ASSUME m \notin s PROVE FALSE
    OBVIOUS
  <2>2. m \in Nat /\ \A x \in s : x \in 1..n /\ x <= m /\ x # m
    BY <2>1
  <2>3. m # 0
    <3>1. PICK x \in s : TRUE
      OBVIOUS
    <3>2. QED
      BY <2>2, <3>1
  <2>4. m - 1 \in Nat /\ \A x \in s : x <= m - 1
    BY <2>2, <2>3
  <2>5. m <= m - 1
    BY <1>2, <2>4
  <2>6. QED
    BY <2>2, <2>5
<1>4. \E x \in s : \A y \in s : x >= y
  BY <1>3
<1>5. Max(s) \in s /\ \A y \in s : Max(s) >= y
  BY <1>4 DEF Max
<1>6. QED
  BY <1>5

\* A loop of n turns over accumulators in V, whose turn k takes acc to
\* F[<<k, acc>>].
IsLoop(n, V, base, F) ==
  /\ n \in Nat
  /\ base \in V
  /\ F \in [(1..n) \X V -> V]

\* g folds every set of indices.
FoldsAll(n, V, base, F, g) ==
  /\ g \in [SUBSET (1..n) -> V]
  /\ \A s \in SUBSET (1..n) :
       g[s] = IF s = {} THEN base ELSE F[<<Max(s), g[s \ {Max(s)}]>>]

\* it does so wherever it has a value in V.
FoldsSome(n, V, base, F, it) ==
  /\ it[{}] = base
  /\ \A s \in SUBSET (1..n) :
       s # {} /\ it[s \ {Max(s)}] \in V => it[s] = F[<<Max(s), it[s \ {Max(s)}]>>]

\* h is the run of the loop: the accumulator after each turn.
IsRun(n, V, base, F, h) ==
  /\ h \in [0..n -> V]
  /\ h[0] = base
  /\ \A k \in 1..n : h[k] = F[<<k, h[k - 1]>>]

\* There is a function that folds all sets of indices at once.
LEMMA FoldExists ==
  ASSUME NEW n, NEW V, NEW base, NEW F, IsLoop(n, V, base, F)
  PROVE  \E g : FoldsAll(n, V, base, F, g)
<1> DEFINE Folds(k, g) ==
             /\ g \in [SUBSET (1..k) -> V]
             /\ \A s \in SUBSET (1..k) :
                  g[s] = IF s = {} THEN base ELSE F[<<Max(s), g[s \ {Max(s)}]>>]
           S == {k \in 0..n : \E g : Folds(k, g)}
<1>0. n \in Nat /\ base \in V /\ F \in [(1..n) \X V -> V]
  BY DEF IsLoop
<1>1. 0 \in S
  <2> DEFINE g == [s \in SUBSET (1..0) |-> base]
  <2>1. \A s \in SUBSET (1..0) : s = {}
    OBVIOUS
  <2>2. Folds(0, g)
    BY <1>0, <2>1
  <2> HIDE DEF g
  <2>3. \E f : Folds(0, f)
    BY <2>2
  <2> HIDE DEF Folds
  <2>4. QED
    BY <1>0, <2>3
<1>2. ASSUME NEW k \in 0..n, k # n, k \in S PROVE k + 1 \in S
  <2>1. PICK f : Folds(k, f)
    BY <1>2
  <2> DEFINE g == [s \in SUBSET (1..k + 1) |->
                     IF k + 1 \in s THEN F[<<k + 1, f[s \ {k + 1}]>>] ELSE f[s]]
  <2>2. k + 1 \in 1..n /\ k + 1 \in 0..n /\ k \in Nat
    BY <1>0, <1>2
  <2>3. \A s \in SUBSET (1..k + 1) : k + 1 \notin s => s \in SUBSET (1..k)
    BY <2>2
  <2>4. \A s \in SUBSET (1..k + 1) : s \ {k + 1} \in SUBSET (1..k)
    BY <2>2
  <2>5. ASSUME NEW s \in SUBSET (1..k + 1) PROVE g[s] \in V
    <3>1. CASE k + 1 \in s
      <4>1. f[s \ {k + 1}] \in V
        BY <2>1, <2>4
      <4>2. <<k + 1, f[s \ {k + 1}]>> \in (1..n) \X V
        BY <2>2, <4>1
      <4>3. QED
        BY <1>0, <3>1, <4>2
    <3>2. CASE k + 1 \notin s
      BY <2>1, <2>3, <3>2
    <3>3. QED
      BY <3>1, <3>2
  <2>6. ASSUME NEW s \in SUBSET (1..k + 1)
        PROVE  g[s] = IF s = {} THEN base ELSE F[<<Max(s), g[s \ {Max(s)}]>>]
    <3>1. CASE k + 1 \in s
      <4>1. Max(s) = k + 1
        <5>1. PICK m \in Nat : m = k + 1
          BY <2>2
        <5>2. s \in SUBSET (1..m) /\ s # {}
          BY <3>1, <5>1
        <5>3. Max(s) \in s /\ \A x \in s : x <= Max(s)
          BY <5>2, MaxOfIndices
        <5>4. Max(s) \in 1..m /\ m <= Max(s)
          BY <3>1, <5>1, <5>2, <5>3
        <5>5. QED
          BY <5>1, <5>4
      <4>2. k + 1 \notin s \ {k + 1} /\ s \ {k + 1} \in SUBSET (1..k + 1)
        OBVIOUS
      <4>3. g[s \ {k + 1}] = f[s \ {k + 1}]
        BY <4>2
      <4>4. QED
        BY <3>1, <4>1, <4>3
    <3>2. CASE k + 1 \notin s
      <4>1. s \in SUBSET (1..k)
        BY <2>3, <3>2
      <4>2. g[s] = f[s]
        BY <3>2
      <4>3. CASE s # {}
        <5>1. Max(s) \in s
          BY <2>2, <4>1, <4>3, MaxOfIndices
        <5>2. k + 1 \notin s \ {Max(s)} /\ s \ {Max(s)} \in SUBSET (1..k + 1)
          BY <3>2
        <5>3. g[s \ {Max(s)}] = f[s \ {Max(s)}]
          BY <5>2
        <5>4. QED
          BY <2>1, <4>1, <4>2, <4>3, <5>3
      <4>4. QED
        BY <2>1, <4>1, <4>2, <4>3
    <3>3. QED
      BY <3>1, <3>2
  <2>7. g \in [SUBSET (1..k + 1) -> V]
    BY <2>5
  <2> HIDE DEF g
  <2>8. Folds(k + 1, g)
    BY <2>6, <2>7
  <2>9. QED
    BY <2>2, <2>8
<1> HIDE DEF S
<1>3. n \in S
  BY <1>0, <1>1, <1>2, InductionUpTo
<1>4. QED
  BY <1>3 DEF S, FoldsAll

\* Folding a sequence goes through its prefixes.
LEMMA FoldRun ==
  ASSUME NEW n, NEW V, NEW base, NEW F, NEW it,
         IsLoop(n, V, base, F), FoldsSome(n, V, base, F, it)
  PROVE  \E h : IsRun(n, V, base, F, h) /\ it[1..n] = h[n]
<1>0. /\ n \in Nat /\ base \in V /\ F \in [(1..n) \X V -> V]
      /\ it[{}] = base
      /\ \A s \in SUBSET (1..n) :
           s # {} /\ it[s \ {Max(s)}] \in V => it[s] = F[<<Max(s), it[s \ {Max(s)}]>>]
  BY DEF IsLoop, FoldsSome
<1> DEFINE h == [k \in 0..n |-> it[1..k]]
           S == {k \in 0..n : h[k] \in V}
<1>1. 1..0 = {} /\ h[0] = base
  BY <1>0
<1>2. ASSUME NEW k \in 1..n, h[k - 1] \in V PROVE h[k] = F[<<k, h[k - 1]>>] /\ h[k] \in V
  <2>1. k \in 1..k /\ 1..k \in SUBSET (1..n) /\ 1..k # {} /\ k - 1 \in 0..n /\ k \in 0..n
        /\ k \in Nat
    BY <1>0
  <2>2. Max(1..k) = k
    <3>1. Max(1..k) \in 1..k /\ k <= Max(1..k)
      BY <2>1, MaxOfIndices
    <3>2. QED
      BY <2>1, <3>1
  <2>3. (1..k) \ {k} = 1..k - 1
    OBVIOUS
  <2>4. h[k - 1] = it[(1..k) \ {Max(1..k)}] /\ h[k] = it[1..k]
    BY <2>1, <2>2, <2>3
  <2>5. it[(1..k) \ {Max(1..k)}] \in V
    BY <1>2, <2>4
  <2>6. it[1..k] = F[<<Max(1..k), it[(1..k) \ {Max(1..k)}]>>]
    BY <1>0, <2>1, <2>5
  <2> HIDE DEF h
  <2>7. <<k, h[k - 1]>> \in (1..n) \X V
    BY <1>0, <1>2
  <2>8. QED
    BY <1>0, <2>2, <2>4, <2>6, <2>7
<1>3. 0..n \subseteq S
  <2>1. 0 \in S
    BY <1>0, <1>1
  <2>2. ASSUME NEW k \in 0..n, k # n, k \in S PROVE k + 1 \in S
    <3>1. k + 1 \in 1..n /\ (k + 1) - 1 = k /\ k + 1 \in 0..n
      BY <1>0, <2>2
    <3>2. h[k] \in V
      BY <2>2
    <3> HIDE DEF h
    <3>3. h[k + 1] \in V
      BY <1>2, <3>1, <3>2
    <3>4. QED
      BY <3>1, <3>3
  <2> HIDE DEF S
  <2>3. QED
    BY <1>0, <2>1, <2>2, InductionUpTo
<1>4. h \in [0..n -> V] /\ it[1..n] = h[n]
  BY <1>0, <1>3
<1> HIDE DEF h
<1>5. \A k \in 1..n : h[k - 1] \in V
  BY <1>0, <1>4
<1>6. QED
  BY <1>1, <1>2, <1>4, <1>5 DEF IsRun

\* Every loop has a run.
LEMMA LoopRuns ==
  ASSUME NEW n, NEW V, NEW base, NEW F, IsLoop(n, V, base, F)
  PROVE  \E h : IsRun(n, V, base, F, h)
<1>1. PICK g : FoldsAll(n, V, base, F, g)
  BY FoldExists
<1>2. FoldsSome(n, V, base, F, g)
  BY <1>1 DEF FoldsAll, FoldsSome
<1>3. QED
  BY <1>2, FoldRun

\* ... and one only: it is known from its recurrence.
LEMMA RunIsUnique ==
  ASSUME NEW n, NEW V, NEW base, NEW F, IsLoop(n, V, base, F),
         NEW h, IsRun(n, V, base, F, h),
         NEW it, it[0] = base,
         \A k \in 1..n : it[k - 1] \in V => it[k] = F[<<k, it[k - 1]>>]
  PROVE  \A k \in 0..n : it[k] = h[k]
<1>1. n \in Nat /\ h \in [0..n -> V] /\ h[0] = base /\ \A k \in 1..n : h[k] = F[<<k, h[k - 1]>>]
  BY DEF IsLoop, IsRun
<1> DEFINE S == {k \in 0..n : it[k] = h[k]}
<1>2. 0 \in S
  BY <1>1
<1>3. ASSUME NEW k \in 0..n, k # n, k \in S PROVE k + 1 \in S
  <2>1. k + 1 \in 1..n /\ k + 1 \in 0..n /\ (k + 1) - 1 = k
    BY <1>1, <1>3
  <2>2. it[k] = h[k] /\ h[k] \in V
    BY <1>1, <1>3
  <2>3. QED
    BY <1>1, <2>1, <2>2
<1> HIDE DEF S
<1>4. 0..n \subseteq S
  BY <1>1, <1>2, <1>3, InductionUpTo
<1>5. QED
  BY <1>4 DEF S

-----------------------------------------------------------------------------
(* Sums. *)

\* g sums f over every subset of S, whichever element is taken first.
SumsAll(S, f, g) ==
  /\ g \in [SUBSET S -> Nat]
  /\ g[{}] = 0
  /\ \A s \in SUBSET S : \A x \in s : g[s] = f[x] + g[s \ {x}]

\* Induction over the subsets of a finite set; the predicate is a set again.
LEMMA SubsetInduction ==
  ASSUME NEW D, IsFiniteSet(D), NEW C,
         {} \in C,
         \A s \in SUBSET D : s # {} /\ (\A x \in s : s \ {x} \in C) => s \in C
  PROVE  SUBSET D \subseteq C
<1>1. PICK n \in Nat : n = Cardinality(D)
  BY FS_CardinalityType
<1> DEFINE S == {k \in 0..n : \A s \in SUBSET D : Cardinality(s) = k => s \in C}
<1>2. 0 \in S
  <2>1. ASSUME NEW s \in SUBSET D, Cardinality(s) = 0 PROVE s \in C
    <3>1. s = {}
      BY <2>1, FS_Subset, FS_EmptySet
    <3>2. QED
      BY <3>1
  <2>2. 0 \in 0..n
    BY <1>1
  <2>3. QED
    BY <2>1, <2>2
<1>3. ASSUME NEW k \in 0..n, k # n, k \in S PROVE k + 1 \in S
  <2>1. k \in Nat /\ (k + 1) - 1 = k /\ k + 1 # 0 /\ k + 1 \in 0..n
    BY <1>1, <1>3
  <2>2. ASSUME NEW s \in SUBSET D, Cardinality(s) = k + 1 PROVE s \in C
    <3>1. IsFiniteSet(s) /\ s # {}
      BY <2>1, <2>2, FS_Subset, FS_EmptySet
    <3>2. ASSUME NEW x \in s PROVE s \ {x} \in C
      <4>1. Cardinality(s \ {x}) = Cardinality(s) - 1
        BY <3>1, FS_RemoveElement
      <4>2. Cardinality(s \ {x}) = k
        BY <2>1, <2>2, <4>1
      <4>3. QED
        BY <1>3, <4>2
    <3>3. QED
      BY <3>1, <3>2
  <2>3. QED
    BY <2>1, <2>2
<1> HIDE DEF S
<1>4. 0..n \subseteq S
  BY <1>1, <1>2, <1>3, InductionUpTo
<1>5. ASSUME NEW s \in SUBSET D PROVE s \in C
  <2>1. Cardinality(s) \in Nat /\ Cardinality(s) <= n
    BY <1>1, FS_Subset, FS_CardinalityType
  <2>2. Cardinality(s) \in S
    BY <1>1, <1>4, <2>1
  <2>3. QED
    BY <2>2 DEF S
<1>6. QED
  BY <1>5

\* There is such a function for a finite set.
LEMMA SumExists ==
  ASSUME NEW D, IsFiniteSet(D), NEW f \in [D -> Nat]
  PROVE  \E g : SumsAll(D, f, g)
<1> DEFINE C == {E \in SUBSET D : \E g : SumsAll(E, f, g)}
<1>1. {} \in C
  <2> DEFINE g == [s \in SUBSET {} |-> 0]
  <2>1. SumsAll({}, f, g)
    BY DEF SumsAll
  <2> HIDE DEF g
  <2>2. QED
    BY <2>1
<1>2. ASSUME NEW E \in SUBSET D, E # {}, \A z \in E : E \ {z} \in C
      PROVE  E \in C
  <2>1. PICK z : z \in E
    BY <1>2
  <2>2. PICK b : SumsAll(E \ {z}, f, b)
    BY <1>2, <2>1
  <2> DEFINE g == [s \in SUBSET E |-> IF z \in s THEN f[z] + b[s \ {z}] ELSE b[s]]
  <2>3. \A s \in SUBSET E : s \ {z} \in SUBSET (E \ {z}) /\ b[s \ {z}] \in Nat
    BY <2>2 DEF SumsAll
  <2>4. \A s \in SUBSET E : z \notin s => s \ {z} = s
    OBVIOUS
  <2>5. f[z] \in Nat
    BY <1>2, <2>1
  <2>6. ASSUME NEW s \in SUBSET E PROVE g[s] \in Nat
    <3>1. b[s \ {z}] \in Nat
      BY <2>3
    <3>2. CASE z \in s
      BY <2>5, <3>1, <3>2
    <3>3. CASE z \notin s
      BY <2>4, <3>1, <3>3
    <3>4. QED
      BY <3>2, <3>3
  <2>7. ASSUME NEW s \in SUBSET E, NEW x \in s PROVE g[s] = f[x] + g[s \ {x}]
    <3>1. s \ {x} \in SUBSET E /\ f[x] \in Nat /\ b[s \ {z}] \in Nat
      BY <1>2, <2>3
    <3>2. CASE x = z
      BY <2>7, <3>1, <3>2
    <3>3. CASE x # z /\ z \in s
      <4>1. x \in s \ {z} /\ (s \ {z}) \ {x} = (s \ {x}) \ {z} /\ z \in s \ {x}
        BY <3>3
      <4>2. b[s \ {z}] = f[x] + b[(s \ {x}) \ {z}]
        <5>1. s \ {z} \in SUBSET (E \ {z})
          OBVIOUS
        <5>2. b[s \ {z}] = f[x] + b[(s \ {z}) \ {x}]
          BY <2>2, <4>1, <5>1 DEF SumsAll
        <5>3. QED
          BY <4>1, <5>2
      <4>3. g[s \ {x}] = f[z] + b[(s \ {x}) \ {z}] /\ g[s] = f[z] + b[s \ {z}]
        BY <3>1, <3>3, <4>1
      <4>4. b[(s \ {x}) \ {z}] \in Nat
        BY <2>3, <3>1
      <4> HIDE DEF g
      <4>5. QED
        BY <2>5, <3>1, <4>2, <4>3, <4>4
    <3>4. CASE x # z /\ z \notin s
      <4>1. b[s] = f[x] + b[s \ {x}]
        BY <2>2, <2>3, <2>4, <3>4 DEF SumsAll
      <4>2. g[s] = b[s] /\ g[s \ {x}] = b[s \ {x}]
        BY <3>1, <3>4
      <4> HIDE DEF g
      <4>3. QED
        BY <4>1, <4>2
    <3>5. QED
      BY <3>2, <3>3, <3>4
  <2>8. g[{}] = 0
    BY <2>2 DEF SumsAll
  <2>9. g \in [SUBSET E -> Nat]
    BY <2>6
  <2> HIDE DEF g
  <2>10. SumsAll(E, f, g)
    BY <2>7, <2>8, <2>9 DEF SumsAll
  <2>11. QED
    BY <2>10
<1> HIDE DEF C
<1>3. D \in C
  <2>1. SUBSET D \subseteq C
    BY <1>1, <1>2, SubsetInduction
  <2>2. QED
    BY <2>1
<1>4. QED
  BY <1>3 DEF C

Some(s) == CHOOSE x \in s : TRUE

\* ... and the sum of the community modules is its value.
LEMMA SumFunctionIs ==
  ASSUME NEW D, IsFiniteSet(D), NEW f \in [D -> Nat], NEW g, SumsAll(D, f, g)
  PROVE  SumFunction(f) = g[D]
<1>1. PICK it :
        /\ it = (CHOOSE i : i = [s \in SUBSET D |->
                   IF s = {} THEN 0 ELSE f[Some(s)] + i[s \ {Some(s)}]])
        /\ SumFunction(f) = it[D]
  BY DEF SumFunction, SumFunctionOnSet, FoldFunctionOnSet, MapThenFoldSet, Some
<1>2. \A s \in SUBSET D : s # {} => Some(s) \in s
  BY DEF Some
<1>3. g = [s \in SUBSET D |-> IF s = {} THEN 0 ELSE f[Some(s)] + g[s \ {Some(s)}]]
  BY <1>2 DEF SumsAll
<1>4. it = [s \in SUBSET D |-> IF s = {} THEN 0 ELSE f[Some(s)] + it[s \ {Some(s)}]]
  BY <1>1, <1>3
<1> DEFINE C == {s \in SUBSET D : it[s] = g[s]}
<1>5. {} \in C
  BY <1>3, <1>4
<1>6. ASSUME NEW s \in SUBSET D, s # {}, \A x \in s : s \ {x} \in C PROVE s \in C
  <2>1. it[s \ {Some(s)}] = g[s \ {Some(s)}]
    BY <1>2, <1>6
  <2>2. QED
    BY <1>3, <1>4, <1>6, <2>1
<1> HIDE DEF C
<1>7. D \in C
  <2>1. SUBSET D \subseteq C
    BY <1>5, <1>6, SubsetInduction
  <2>2. QED
    BY <2>1
<1>8. QED
  BY <1>1, <1>7 DEF C

\* Sums compare as their terms do.
LEMMA SumsCompare ==
  ASSUME NEW D, IsFiniteSet(D), NEW f \in [D -> Nat], NEW e \in [D -> Nat],
         NEW g, SumsAll(D, f, g), NEW h, SumsAll(D, e, h),
         NEW s \in SUBSET D, \A x \in s : f[x] <= e[x]
  PROVE  /\ g[s] <= h[s]
         /\ g[s] = h[s] <=> \A x \in s : f[x] = e[x]
<1> DEFINE Compare(u) == /\ g[u] <= h[u]
                         /\ g[u] = h[u] <=> \A x \in u : f[x] = e[x]
           C == {u \in SUBSET s : Compare(u)}
<1>1. {} \in C
  BY DEF SumsAll
<1>2. ASSUME NEW u \in SUBSET s, u # {}, \A x \in u : u \ {x} \in C PROVE u \in C
  <2>1. PICK x : x \in u
    BY <1>2
  <2>2. g[u] = f[x] + g[u \ {x}] /\ h[u] = e[x] + h[u \ {x}]
    BY <2>1 DEF SumsAll
  <2>3. Compare(u \ {x})
    BY <1>2, <2>1
  <2>4. /\ f[x] \in Nat /\ e[x] \in Nat /\ f[x] <= e[x]
        /\ g[u \ {x}] \in Nat /\ h[u \ {x}] \in Nat
    BY <2>1 DEF SumsAll
  <2>5. (\A y \in u : f[y] = e[y]) <=> f[x] = e[x] /\ \A y \in u \ {x} : f[y] = e[y]
    BY <2>1
  <2>6. QED
    BY <2>2, <2>3, <2>4, <2>5
<1> HIDE DEF C
<1>3. IsFiniteSet(s)
  BY FS_Subset
<1>4. s \in C
  <2>1. SUBSET s \subseteq C
    BY <1>1, <1>2, <1>3, SubsetInduction
  <2>2. QED
    BY <2>1
<1>5. QED
  BY <1>4 DEF C

\* The sum of naturals over a finite set is a natural, zero over no term.
LEMMA SumType ==
  ASSUME NEW D, IsFiniteSet(D), NEW f \in [D -> Nat]
  PROVE  SumFunction(f) \in Nat /\ (D = {} => SumFunction(f) = 0)
<1>1. PICK g : SumsAll(D, f, g)
  BY SumExists
<1>2. SumFunction(f) = g[D]
  BY <1>1, SumFunctionIs
<1>3. QED
  BY <1>1, <1>2 DEF SumsAll

\* Larger terms have the larger sum.
LEMMA SumLeq ==
  ASSUME NEW D, IsFiniteSet(D), NEW f \in [D -> Nat], NEW e \in [D -> Nat],
         \A x \in D : f[x] <= e[x]
  PROVE  /\ SumFunction(f) <= SumFunction(e)
         /\ SumFunction(f) = SumFunction(e) => f = e
<1>1. PICK g : SumsAll(D, f, g)
  BY SumExists
<1>2. PICK h : SumsAll(D, e, h)
  BY SumExists
<1>3. SumFunction(f) = g[D] /\ SumFunction(e) = h[D]
  BY <1>1, <1>2, SumFunctionIs
<1>4. g[D] <= h[D] /\ (g[D] = h[D] <=> \A x \in D : f[x] = e[x])
  BY <1>1, <1>2, SumsCompare
<1>5. QED
  BY <1>3, <1>4

\* One term changes.
LEMMA SumPoint ==
  ASSUME NEW D, IsFiniteSet(D), NEW f \in [D -> Nat], NEW e \in [D -> Nat],
         NEW v \in D, \A x \in D \ {v} : f[x] = e[x]
  PROVE  SumFunction(e) + f[v] = SumFunction(f) + e[v]
<1>1. PICK g : SumsAll(D, f, g)
  BY SumExists
<1>2. PICK h : SumsAll(D, e, h)
  BY SumExists
<1>3. SumFunction(f) = g[D] /\ SumFunction(e) = h[D]
  BY <1>1, <1>2, SumFunctionIs
<1>4. g[D \ {v}] = h[D \ {v}]
  <2>1. \A x \in D \ {v} : f[x] <= e[x]
    OBVIOUS
  <2>2. D \ {v} \in SUBSET D
    OBVIOUS
  <2>3. QED
    BY <1>1, <1>2, <2>1, <2>2, SumsCompare
<1>5. g[D] = f[v] + g[D \ {v}] /\ h[D] = e[v] + h[D \ {v}] /\ g[D \ {v}] \in Nat
  BY <1>1, <1>2 DEF SumsAll
<1>6. f[v] \in Nat /\ e[v] \in Nat
  OBVIOUS
<1>7. QED
  BY <1>3, <1>4, <1>5, <1>6

\* Counting is a sum.
LEMMA SumOfOnes ==
  ASSUME NEW D, IsFiniteSet(D), NEW L \in SUBSET D
  PROVE  SumFunction([x \in D |-> IF x \in L THEN 1 ELSE 0]) = Cardinality(L)
<1> DEFINE f == [x \in D |-> IF x \in L THEN 1 ELSE 0]
<1>1. f \in [D -> Nat] /\ \A x \in D : f[x] = IF x \in L THEN 1 ELSE 0
  OBVIOUS
<1> HIDE DEF f
<1>2. PICK g : SumsAll(D, f, g)
  BY <1>1, SumExists
<1> DEFINE C == {s \in SUBSET D : g[s] = Cardinality(s \cap L)}
<1>3. {} \in C
  BY <1>2, FS_EmptySet DEF SumsAll
<1>4. ASSUME NEW s \in SUBSET D, s # {}, \A x \in s : s \ {x} \in C PROVE s \in C
  <2>1. PICK x : x \in s
    BY <1>4
  <2>2. g[s] = f[x] + g[s \ {x}]
    BY <1>2, <2>1 DEF SumsAll
  <2>3. g[s \ {x}] = Cardinality((s \ {x}) \cap L)
    BY <1>4, <2>1
  <2>4. s \cap L \in SUBSET D /\ (s \ {x}) \cap L \in SUBSET D
    OBVIOUS
  <2>5. IsFiniteSet(s \cap L) /\ IsFiniteSet((s \ {x}) \cap L)
    BY <2>4, FS_Subset
  <2>6. CASE x \in L
    <3>1. s \cap L = ((s \ {x}) \cap L) \cup {x} /\ x \notin (s \ {x}) \cap L
      BY <2>1, <2>6
    <3>2. Cardinality(s \cap L) = Cardinality((s \ {x}) \cap L) + 1
      BY <2>5, <3>1, FS_AddElement
    <3>3. f[x] = 1
      BY <1>1, <2>1, <2>6
    <3>4. Cardinality((s \ {x}) \cap L) \in Nat
      BY <2>5, FS_CardinalityType
    <3>5. QED
      BY <2>2, <2>3, <3>2, <3>3, <3>4
  <2>7. CASE x \notin L
    <3>1. s \cap L = (s \ {x}) \cap L
      BY <2>7
    <3>2. f[x] = 0
      BY <1>1, <2>1, <2>7
    <3>3. g[s \ {x}] \in Nat
      BY <1>2 DEF SumsAll
    <3>4. g[s] = g[s \ {x}]
      BY <2>2, <3>2, <3>3
    <3>5. QED
      BY <2>3, <3>1, <3>4
  <2>8. QED
    BY <2>6, <2>7
<1> HIDE DEF C
<1>5. D \in C
  <2>1. SUBSET D \subseteq C
    BY <1>3, <1>4, SubsetInduction
  <2>2. QED
    BY <2>1
<1>6. D \cap L = L
  OBVIOUS
<1>7. SumFunction(f) = g[D]
  BY <1>1, <1>2, SumFunctionIs
<1>8. QED
  BY <1>5, <1>6, <1>7 DEF C, f

\* e is f without terms that are zero.
IsSupport(D, f, P, e) ==
  /\ f \in [D -> Nat]
  /\ P \in SUBSET D /\ e \in [P -> Nat]
  /\ \A x \in P : e[x] = f[x]
  /\ \A x \in D \ P : f[x] = 0

\* Terms that are zero can be left out.
LEMMA SumOnSupport ==
  ASSUME NEW D, IsFiniteSet(D), NEW f, NEW P, NEW e, IsSupport(D, f, P, e)
  PROVE  SumFunction(f) = SumFunction(e)
<1>0. /\ f \in [D -> Nat] /\ P \in SUBSET D /\ e \in [P -> Nat]
      /\ \A x \in P : e[x] = f[x]
      /\ \A x \in D \ P : f[x] = 0
  BY DEF IsSupport
<1>1. PICK g : SumsAll(D, f, g)
  BY <1>0, SumExists
<1>2. IsFiniteSet(P)
  BY <1>0, FS_Subset
<1> DEFINE h == [s \in SUBSET P |-> g[s]]
<1>3. SumsAll(P, e, h)
  <2>1. h \in [SUBSET P -> Nat] /\ h[{}] = 0
    BY <1>0, <1>1 DEF SumsAll
  <2>2. ASSUME NEW s \in SUBSET P, NEW x \in s PROVE h[s] = e[x] + h[s \ {x}]
    <3>1. s \in SUBSET D /\ s \ {x} \in SUBSET P /\ e[x] = f[x]
      BY <1>0
    <3>2. g[s] = f[x] + g[s \ {x}]
      BY <1>1, <3>1 DEF SumsAll
    <3>3. QED
      BY <3>1, <3>2
  <2> HIDE DEF h
  <2>3. QED
    BY <2>1, <2>2 DEF SumsAll
<1>4. SumFunction(f) = g[D] /\ SumFunction(e) = h[P]
  <2> HIDE DEF h
  <2>1. QED
    BY <1>0, <1>1, <1>2, <1>3, SumFunctionIs
<1> DEFINE C == {s \in SUBSET D : g[s] = g[s \cap P]}
<1>5. {} \in C
  BY <1>1 DEF SumsAll
<1>6. ASSUME NEW s \in SUBSET D, s # {}, \A x \in s : s \ {x} \in C PROVE s \in C
  <2>1. PICK x : x \in s
    BY <1>6
  <2>2. g[s] = f[x] + g[s \ {x}] /\ g[s \ {x}] = g[(s \ {x}) \cap P] /\ g[s \ {x}] \in Nat
    BY <1>1, <1>6, <2>1 DEF SumsAll
  <2>3. CASE x \in P
    <3>1. x \in s \cap P /\ (s \cap P) \ {x} = (s \ {x}) \cap P /\ s \cap P \in SUBSET D
      BY <1>0, <2>1, <2>3
    <3>2. g[s \cap P] = f[x] + g[(s \cap P) \ {x}]
      BY <1>1, <3>1 DEF SumsAll
    <3>3. QED
      BY <2>2, <3>1, <3>2
  <2>4. CASE x \notin P
    <3>1. s \cap P = (s \ {x}) \cap P /\ f[x] = 0
      BY <1>0, <2>1, <2>4
    <3>2. g[s] = g[s \ {x}]
      BY <2>2, <3>1
    <3>3. QED
      BY <2>2, <3>1, <3>2
  <2>5. QED
    BY <2>3, <2>4
<1> HIDE DEF C
<1>7. D \in C
  <2>1. SUBSET D \subseteq C
    BY <1>5, <1>6, SubsetInduction
  <2>2. QED
    BY <2>1
<1>8. D \cap P = P
  BY <1>0
<1>9. QED
  BY <1>4, <1>7, <1>8 DEF C

-----------------------------------------------------------------------------
(* Ranks. *)

\* R orders S strictly, from the first to the last.
OrdersStrictly(R, S) ==
  /\ \A x \in S : <<x, x>> \notin R
  /\ \A x, y, z \in S : <<x, y>> \in R /\ <<y, z>> \in R => <<x, z>> \in R
  /\ \A x, y \in S : x # y => <<x, y>> \in R \/ <<y, x>> \in R

\* How many come before each.
Ranks(R, S) == [x \in S |-> Cardinality({y \in S : <<y, x>> \in R})]

\* No two have the same rank, and each rank is taken.
LEMMA RanksAreABijection ==
  ASSUME NEW S, IsFiniteSet(S), NEW R, OrdersStrictly(R, S)
  PROVE  /\ Ranks(R, S) \in Bijection(S, 0..Cardinality(S) - 1)
         /\ \A x, y \in S : <<x, y>> \in R => Ranks(R, S)[x] < Ranks(R, S)[y]
<1> DEFINE Before(x) == {y \in S : <<y, x>> \in R}
           rank == Ranks(R, S)
<1>1. PICK n \in Nat : n = Cardinality(S)
  BY FS_CardinalityType
<1>2. \A x \in S : rank[x] = Cardinality(Before(x))
  BY DEF Ranks
<1>3. ASSUME NEW x \in S
      PROVE  /\ Before(x) \in SUBSET S /\ IsFiniteSet(Before(x)) /\ x \notin Before(x)
             /\ Cardinality(Before(x)) \in Nat
             /\ Cardinality(Before(x)) < n
  <2>1. Before(x) \in SUBSET S /\ x \notin Before(x)
    BY DEF OrdersStrictly
  <2> HIDE DEF Before
  <2>2. IsFiniteSet(Before(x)) /\ Cardinality(Before(x)) <= n
        /\ (Cardinality(Before(x)) = n => Before(x) = S)
    BY <1>1, <2>1, FS_Subset
  <2>3. Cardinality(Before(x)) \in Nat
    BY <2>2, FS_CardinalityType
  <2>4. Cardinality(Before(x)) # n
    BY <2>1, <2>2
  <2>5. QED
    BY <1>1, <2>1, <2>2, <2>3, <2>4
<1>4. ASSUME NEW x \in S, NEW y \in S, <<x, y>> \in R
      PROVE  Cardinality(Before(x)) < Cardinality(Before(y))
  <2>1. x \in Before(y)
    BY <1>4
  <2>2. Before(x) \in SUBSET Before(y)
    BY <1>4 DEF OrdersStrictly
  <2> HIDE DEF Before
  <2>3. /\ Cardinality(Before(x)) <= Cardinality(Before(y))
        /\ Cardinality(Before(x)) = Cardinality(Before(y)) => Before(x) = Before(y)
    BY <1>3, <2>2, FS_Subset
  <2>4. Cardinality(Before(x)) # Cardinality(Before(y))
    BY <1>3, <2>1, <2>3
  <2>5. Cardinality(Before(x)) \in Nat /\ Cardinality(Before(y)) \in Nat
    BY <1>3
  <2>6. QED
    BY <2>3, <2>4, <2>5
<1> HIDE DEF Before
<1>5. \A x, y \in S : <<x, y>> \in R => rank[x] < rank[y]
  BY <1>2, <1>4
<1>6. rank \in [S -> 0..n - 1]
  <2>1. \A x \in S : rank[x] \in 0..n - 1
    BY <1>1, <1>2, <1>3
  <2>2. QED
    BY <2>1 DEF Ranks
<1> HIDE DEF rank
<1>7. rank \in Injection(S, 0..n - 1)
  <2>1. ASSUME NEW x \in S, NEW y \in S, rank[x] = rank[y], x # y PROVE FALSE
    <3>1. rank[x] < rank[y] \/ rank[y] < rank[x]
      BY <1>5, <2>1 DEF OrdersStrictly
    <3>2. rank[x] \in 0..n - 1 /\ rank[y] \in 0..n - 1
      BY <1>6
    <3>3. QED
      BY <1>1, <2>1, <3>1, <3>2
  <2>2. QED
    BY <1>6, <2>1 DEF Injection, IsInjective
<1>8. IsFiniteSet(0..n - 1) /\ Cardinality(0..n - 1) = n
  <2>1. 0 \in Int /\ n - 1 \in Int
    BY <1>1
  <2>2. IsFiniteSet(0..n - 1) /\ Cardinality(0..n - 1) = IF 0 > n - 1 THEN 0 ELSE n - 1 - 0 + 1
    BY <2>1, FS_Interval
  <2>3. QED
    BY <1>1, <2>2
<1>9. rank \in Surjection(S, 0..n - 1)
  BY <1>1, <1>7, <1>8, FS_Injection
<1>10. QED
  BY <1>1, <1>5, <1>7, <1>9 DEF Bijection, rank

\* The first of each number.
LEMMA RanksCount ==
  ASSUME NEW S, IsFiniteSet(S), NEW R, OrdersStrictly(R, S), NEW n \in 0..Cardinality(S)
  PROVE  Cardinality({x \in S : Ranks(R, S)[x] < n}) = n
<1> DEFINE rank == Ranks(R, S)
           L == {x \in S : rank[x] < n}
           f == [x \in L |-> rank[x] + 1]
<1>1. PICK m \in Nat : m = Cardinality(S)
  BY FS_CardinalityType
<1>2. n \in 0..m
  BY <1>1
<1>3. rank \in [S -> 0..m - 1] /\ IsInjective(rank) /\ \A i \in 0..m - 1 : \E x \in S : rank[x] = i
  BY <1>1, RanksAreABijection DEF Bijection, Injection, Surjection
<1> HIDE DEF rank
<1>4. f \in [L -> 1..n]
  <2>1. \A x \in L : rank[x] \in 0..m - 1 /\ rank[x] < n
    BY <1>3
  <2>2. \A x \in L : rank[x] + 1 \in 1..n
    BY <1>1, <1>2, <2>1
  <2>3. QED
    BY <2>2
<1>5. \A x, y \in L : f[x] = f[y] => x = y
  <2>1. \A x \in L : x \in S /\ rank[x] \in 0..m - 1 /\ f[x] = rank[x] + 1
    BY <1>3
  <2>2. \A a, b \in 0..m - 1 : a + 1 = b + 1 => a = b
    BY <1>1
  <2>3. DOMAIN rank = S
    BY <1>3
  <2> HIDE DEF f, L
  <2>4. QED
    BY <1>3, <2>1, <2>2, <2>3 DEF IsInjective
<1>6. ASSUME NEW i \in 1..n PROVE \E x \in L : f[x] = i
  <2>1. i - 1 \in 0..m - 1 /\ i - 1 < n /\ (i - 1) + 1 = i
    BY <1>1, <1>2
  <2>2. PICK x \in S : rank[x] = i - 1
    BY <1>3, <2>1
  <2>3. x \in L
    BY <2>1, <2>2
  <2>4. f[x] = i
    BY <2>1, <2>2, <2>3
  <2>5. QED
    BY <2>3, <2>4
<1> HIDE DEF f
<1>7. f \in Injection(L, 1..n)
  BY <1>4, <1>5 DEF Injection, IsInjective
<1>8. f \in Surjection(L, 1..n)
  BY <1>4, <1>6 DEF Surjection
<1>9. IsFiniteSet(1..n) /\ Cardinality(1..n) = n
  <2>1. 1 \in Int /\ n \in Int
    BY <1>2
  <2>2. IsFiniteSet(1..n) /\ Cardinality(1..n) = IF 1 > n THEN 0 ELSE n - 1 + 1
    BY <2>1, FS_Interval
  <2>3. QED
    BY <1>1, <1>2, <2>2
<1>10. IsFiniteSet(L) /\ (Cardinality(L) = Cardinality(1..n) <=> f \in Surjection(L, 1..n))
  BY <1>7, <1>9, FS_Injection
<1>11. QED
  BY <1>8, <1>9, <1>10 DEF L, rank

\* A finite set has a last element.
LEMMA LastExists ==
  ASSUME NEW S, IsFiniteSet(S), S # {}, NEW R, OrdersStrictly(R, S)
  PROVE  \E m \in S : \A j \in S \ {m} : <<j, m>> \in R
<1> DEFINE rank == Ranks(R, S)
<1>1. PICK n \in Nat : n = Cardinality(S)
  BY FS_CardinalityType
<1>2. n # 0
  BY <1>1, FS_EmptySet
<1>3. /\ rank \in [S -> 0..n - 1]
      /\ \A i \in 0..n - 1 : \E x \in S : rank[x] = i
      /\ \A x, y \in S : <<x, y>> \in R => rank[x] < rank[y]
  BY <1>1, RanksAreABijection DEF Bijection, Injection, Surjection
<1> HIDE DEF rank
<1>4. PICK m \in S : rank[m] = n - 1
  BY <1>1, <1>2, <1>3
<1>5. ASSUME NEW j \in S \ {m} PROVE <<j, m>> \in R
  <2>1. rank[j] \in 0..n - 1
    BY <1>3
  <2>2. ~(rank[m] < rank[j])
    BY <1>1, <1>4, <2>1
  <2>3. QED
    BY <1>3, <2>2 DEF OrdersStrictly
<1>6. QED
  BY <1>5

=============================================================================
