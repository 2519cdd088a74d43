--------------------------- MODULE SamplingProofs ---------------------------
(***************************************************************************)
(* What the loops of Sampling compute, for files and samples of any size.  *)
(* Each loop is turned into its run, the values of its accumulator after   *)
(* each turn (FoldLemmas), and what it returns follows by induction.       *)
(***************************************************************************)
EXTENDS Sampling, FoldLemmas, FiniteSetTheorems

-----------------------------------------------------------------------------
(* Import. *)

Taken(acc, line) == IF Admissible(line) /\ ~Contains(acc, line) THEN Append(acc, line) ELSE acc

\* The records after each line.
LEMMA ImportRun ==
  ASSUME NEW T, NEW text \in Seq(T)
  PROVE  \E h \in [0..Len(text) -> Seq(Valid)] :
           /\ h[0] = <<>>
           /\ \A k \in 1..Len(text) : h[k] = Taken(h[k - 1], text[k])
           /\ Import(text) = h[Len(text)]
<1> DEFINE V == Seq(Valid)
<1>1. PICK n \in Nat : n = Len(text) /\ DOMAIN text = 1..n
  OBVIOUS
<1> DEFINE F == [p \in (1..n) \X V |-> Taken(p[2], text[p[1]])]
<1> DEFINE base == <<>>
<1>2. IsLoop(n, V, base, F)
  <2>1. ASSUME NEW acc \in V, NEW line PROVE Taken(acc, line) \in V
    BY DEF Taken, Admissible
  <2>2. \A p \in (1..n) \X V : Taken(p[2], text[p[1]]) \in V
    BY <2>1
  <2>3. QED
    BY <2>2 DEF IsLoop
<1>3. \A i \in 1..n, acc \in V : F[<<i, acc>>] = Taken(acc, text[i])
  OBVIOUS
<1> HIDE DEF F, V, base
<1>4. PICK g : FoldsAll(n, V, base, F, g)
  BY <1>2, FoldExists
<1>5. ASSUME NEW s \in SUBSET (1..n), s # {} PROVE Max(s) \in 1..n
  BY <1>5, MaxOfIndices
<1>6. g = [s \in SUBSET (1..n) |->
             IF s = {} THEN base ELSE Taken(g[s \ {Max(s)}], text[Max(s)])]
  <2>1. ASSUME NEW s \in SUBSET (1..n), s # {}
        PROVE  g[s] = Taken(g[s \ {Max(s)}], text[Max(s)])
    BY <1>3, <1>4, <1>5, <2>1 DEF FoldsAll
  <2>2. QED
    BY <1>4, <2>1 DEF FoldsAll
<1>7. PICK it :
        /\ it = (CHOOSE i : i = [s \in SUBSET (1..n) |->
                   IF s = {} THEN base ELSE Taken(i[s \ {Max(s)}], text[Max(s)])])
        /\ Import(text) = it[1..n]
  BY <1>1 DEF Import, FoldLeft, MapThenFoldSet, Taken, base
<1>8. it = [s \in SUBSET (1..n) |->
              IF s = {} THEN base ELSE Taken(it[s \ {Max(s)}], text[Max(s)])]
  BY <1>6, <1>7
<1>9. FoldsSome(n, V, base, F, it)
  <2>1. it[{}] = base
    BY <1>8
  <2>2. ASSUME NEW s \in SUBSET (1..n), s # {}, it[s \ {Max(s)}] \in V
        PROVE  it[s] = F[<<Max(s), it[s \ {Max(s)}]>>]
    BY <1>3, <1>5, <1>8, <2>2
  <2>3. QED
    BY <2>1, <2>2 DEF FoldsSome
<1>10. PICK h : IsRun(n, V, base, F, h) /\ it[1..n] = h[n]
  BY <1>2, <1>9, FoldRun
<1>11. /\ h \in [0..n -> V] /\ h[0] = base
       /\ \A k \in 1..n : h[k] = Taken(h[k - 1], text[k])
  <2>1. \A k \in 1..n : h[k - 1] \in V /\ h[k] = F[<<k, h[k - 1]>>]
    BY <1>10 DEF IsRun
  <2>2. QED
    BY <1>3, <1>10, <2>1 DEF IsRun
<1>12. QED
  BY <1>1, <1>7, <1>10, <1>11 DEF V, base

\* Appending to a sequence what it does not hold yet.
LEMMA AppendNew ==
  ASSUME NEW S, NEW q \in Seq(S), NEW e \in S
  PROVE  /\ Append(q, e) \in Seq(S) /\ Len(q) \in Nat
         /\ ToSet(Append(q, e)) = ToSet(q) \cup {e}
         /\ Contains(q, e) <=> e \in ToSet(q)
         /\ e \notin ToSet(q) /\ IsInjective(q) => IsInjective(Append(q, e))
<1>1. /\ Append(q, e) \in Seq(S) /\ Len(q) \in Nat
      /\ DOMAIN q = 1..Len(q) /\ DOMAIN Append(q, e) = 1..Len(q) + 1
      /\ \A i \in 1..Len(q) : Append(q, e)[i] = q[i]
      /\ Append(q, e)[Len(q) + 1] = e
  OBVIOUS
<1>2. PICK n \in Nat : n = Len(q)
  BY <1>1
<1>3. 1..n + 1 = (1..n) \cup {n + 1}
  BY <1>2
<1>4. ToSet(Append(q, e)) = ToSet(q) \cup {e}
  BY <1>1, <1>2, <1>3 DEF ToSet
<1>5. Contains(q, e) <=> e \in ToSet(q)
  BY <1>1 DEF Contains, ToSet
<1>6. ASSUME e \notin ToSet(q), IsInjective(q) PROVE IsInjective(Append(q, e))
  BY <1>1, <1>2, <1>3, <1>6 DEF ToSet, IsInjective
<1>7. QED
  BY <1>1, <1>4, <1>5, <1>6

\* What `acsi import jsonl` keeps of a file: the admissible traces that some
\* line names, each of them once (importers/jsonl.py).
THEOREM ImportKeepsEachOnce ==
  ASSUME NEW T, NEW text \in Seq(T)
  PROVE  /\ Import(text) \in Seq(Valid)
         /\ IsInjective(Import(text))
         /\ ToSet(Import(text)) = {t \in Valid : \E i \in DOMAIN text : text[i] = t}
<1> DEFINE Named(k) == {t \in Valid : \E i \in 1..k : text[i] = t}
<1>1. PICK n \in Nat : n = Len(text) /\ DOMAIN text = 1..n
  OBVIOUS
<1>2. PICK h \in [0..n -> Seq(Valid)] :
        /\ h[0] = <<>>
        /\ \A k \in 1..n : h[k] = Taken(h[k - 1], text[k])
        /\ Import(text) = h[n]
  BY <1>1, ImportRun
<1> DEFINE S == {k \in 0..n : IsInjective(h[k]) /\ ToSet(h[k]) = Named(k)}
<1>3. 0 \in S
  BY <1>2 DEF IsInjective, ToSet
<1>4. ASSUME NEW k \in 0..n, k # n, k \in S PROVE k + 1 \in S
  <2>1. k + 1 \in 1..n /\ k + 1 \in 0..n /\ (k + 1) - 1 = k /\ 1..k + 1 = (1..k) \cup {k + 1}
    BY <1>1, <1>4
  <2>2. h[k] \in Seq(Valid) /\ IsInjective(h[k]) /\ ToSet(h[k]) = Named(k)
    BY <1>4
  <2>3. h[k + 1] = Taken(h[k], text[k + 1])
    BY <1>2, <2>1
  <2>4. Named(k + 1) = Named(k) \cup ({text[k + 1]} \cap Valid)
    BY <2>1
  <2> HIDE DEF Named
  <2>5. IsInjective(h[k + 1]) /\ ToSet(h[k + 1]) = Named(k + 1)
    <3>1. CASE text[k + 1] \in Valid
      <4>1. Contains(h[k], text[k + 1]) <=> text[k + 1] \in ToSet(h[k])
        BY <2>2, <3>1, AppendNew
      <4>2. CASE text[k + 1] \in ToSet(h[k])
        BY <2>2, <2>3, <2>4, <3>1, <4>1, <4>2 DEF Taken
      <4>3. CASE text[k + 1] \notin ToSet(h[k])
        <5>1. h[k + 1] = Append(h[k], text[k + 1])
          BY <2>3, <3>1, <4>1, <4>3 DEF Taken, Admissible
        <5>2. IsInjective(h[k + 1]) /\ ToSet(h[k + 1]) = ToSet(h[k]) \cup {text[k + 1]}
          BY <2>2, <3>1, <4>3, <5>1, AppendNew
        <5>3. Named(k + 1) = Named(k) \cup {text[k + 1]}
          BY <2>4, <3>1
        <5>4. QED
          BY <2>2, <5>2, <5>3
      <4>4. QED
        BY <4>2, <4>3
    <3>2. CASE text[k + 1] \notin Valid
      BY <2>2, <2>3, <2>4, <3>2 DEF Taken, Admissible
    <3>3. QED
      BY <3>1, <3>2
  <2>6. QED
    BY <2>1, <2>5
<1> HIDE DEF S
<1>5. n \in S
  <2>1. 0..n \subseteq S
    BY <1>1, <1>3, <1>4, InductionUpTo
  <2>2. QED
    BY <2>1, <1>1
<1>6. Import(text) \in Seq(Valid) /\ IsInjective(Import(text)) /\ ToSet(Import(text)) = Named(n)
  <2> HIDE DEF Named
  <2>1. n \in 0..n /\ h[n] \in Seq(Valid)
    BY <1>1
  <2>2. IsInjective(h[n]) /\ ToSet(h[n]) = Named(n)
    BY <1>5 DEF S
  <2>3. QED
    BY <1>2, <2>1, <2>2
<1>7. QED
  BY <1>1, <1>6

-----------------------------------------------------------------------------
(* Near-duplicates. *)

Kept(reps, r) == IF \E i \in DOMAIN reps : Near(reps[i], r) THEN reps ELSE Append(reps, r)

\* The representatives after each record.
LEMMA RepresentativesRun ==
  ASSUME NEW T, NEW records \in Seq(T)
  PROVE  \E h \in [0..Len(records) -> Seq(T)] :
           /\ h[0] = <<>>
           /\ \A k \in 1..Len(records) : h[k] = Kept(h[k - 1], records[k])
           /\ Representatives(records) = h[Len(records)]
<1> DEFINE V == Seq(T)
<1>1. PICK n \in Nat : n = Len(records) /\ DOMAIN records = 1..n
  OBVIOUS
<1> DEFINE F == [p \in (1..n) \X V |-> Kept(p[2], records[p[1]])]
<1> DEFINE base == <<>>
<1>2. IsLoop(n, V, base, F)
  <2>1. \A i \in 1..n : records[i] \in T
    BY <1>1
  <2>2. ASSUME NEW acc \in V, NEW r \in T PROVE Kept(acc, r) \in V
    BY DEF Kept
  <2>3. \A p \in (1..n) \X V : Kept(p[2], records[p[1]]) \in V
    BY <2>1, <2>2
  <2>4. QED
    BY <2>3 DEF IsLoop
<1>3. \A i \in 1..n, acc \in V : F[<<i, acc>>] = Kept(acc, records[i])
  OBVIOUS
<1> HIDE DEF F, V, base
<1>4. PICK g : FoldsAll(n, V, base, F, g)
  BY <1>2, FoldExists
<1>5. ASSUME NEW s \in SUBSET (1..n), s # {} PROVE Max(s) \in 1..n
  BY <1>5, MaxOfIndices
<1>6. g = [s \in SUBSET (1..n) |->
             IF s = {} THEN base ELSE Kept(g[s \ {Max(s)}], records[Max(s)])]
  <2>1. ASSUME NEW s \in SUBSET (1..n), s # {}
        PROVE  g[s] = Kept(g[s \ {Max(s)}], records[Max(s)])
    BY <1>3, <1>4, <1>5, <2>1 DEF FoldsAll
  <2>2. QED
    BY <1>4, <2>1 DEF FoldsAll
<1>7. PICK it :
        /\ it = (CHOOSE i : i = [s \in SUBSET (1..n) |->
                   IF s = {} THEN base ELSE Kept(i[s \ {Max(s)}], records[Max(s)])])
        /\ Representatives(records) = it[1..n]
  BY <1>1 DEF Representatives, FoldLeft, MapThenFoldSet, Kept, base
<1>8. it = [s \in SUBSET (1..n) |->
              IF s = {} THEN base ELSE Kept(it[s \ {Max(s)}], records[Max(s)])]
  BY <1>6, <1>7
<1>9. FoldsSome(n, V, base, F, it)
  <2>1. it[{}] = base
    BY <1>8
  <2>2. ASSUME NEW s \in SUBSET (1..n), s # {}, it[s \ {Max(s)}] \in V
        PROVE  it[s] = F[<<Max(s), it[s \ {Max(s)}]>>]
    BY <1>3, <1>5, <1>8, <2>2
  <2>3. QED
    BY <2>1, <2>2 DEF FoldsSome
<1>10. PICK h : IsRun(n, V, base, F, h) /\ it[1..n] = h[n]
  BY <1>2, <1>9, FoldRun
<1>11. /\ h \in [0..n -> V] /\ h[0] = base
       /\ \A k \in 1..n : h[k] = Kept(h[k - 1], records[k])
  <2>1. \A k \in 1..n : h[k - 1] \in V /\ h[k] = F[<<k, h[k - 1]>>]
    BY <1>10 DEF IsRun
  <2>2. QED
    BY <1>3, <1>10, <2>1 DEF IsRun
<1>12. QED
  BY <1>1, <1>7, <1>10, <1>11 DEF V, base

\* Nearness is reflexive and symmetric.
LEMMA NearIsMutual ==
  /\ \A r : Near(r, r)
  /\ \A r, s : Near(r, s) => Near(s, r)
<1>1. \A r, s : {r, s} = {s, r}
  OBVIOUS
<1>2. QED
  BY <1>1 DEF Near

\* deduplicate_traces: some records are kept, no two of them near each other,
\* and each record is near one of them (sampling.py:41-75).
THEOREM RepresentativesCover ==
  ASSUME NEW T, NEW records \in Seq(T)
  PROVE  LET reps == Representatives(records)
         IN /\ reps \in Seq(T) /\ IsInjective(reps)
            /\ ToSet(reps) \subseteq ToSet(records)
            /\ \A r \in ToSet(records) : \E s \in ToSet(reps) : Near(s, r)
            /\ \A r, s \in ToSet(reps) : r # s => ~Near(r, s)
<1>1. PICK n \in Nat : n = Len(records) /\ DOMAIN records = 1..n
  OBVIOUS
<1>2. PICK h \in [0..n -> Seq(T)] :
        /\ h[0] = <<>>
        /\ \A k \in 1..n : h[k] = Kept(h[k - 1], records[k])
        /\ Representatives(records) = h[n]
  BY <1>1, RepresentativesRun
<1> DEFINE Seen(k) == {records[i] : i \in 1..k}
           Covers(k) == /\ IsInjective(h[k])
                        /\ ToSet(h[k]) \subseteq Seen(k)
                        /\ \A r \in Seen(k) : \E s \in ToSet(h[k]) : Near(s, r)
                        /\ \A r, s \in ToSet(h[k]) : r # s => ~Near(r, s)
           S == {k \in 0..n : Covers(k)}
<1>3. 0 \in S
  BY <1>2 DEF IsInjective, ToSet
<1>4. ASSUME NEW k \in 0..n, k # n, k \in S PROVE k + 1 \in S
  <2>1. k + 1 \in 1..n /\ k + 1 \in 0..n /\ (k + 1) - 1 = k /\ 1..k + 1 = (1..k) \cup {k + 1}
    BY <1>1, <1>4
  <2>2. h[k] \in Seq(T) /\ Covers(k)
    BY <1>4
  <2>3. h[k + 1] = Kept(h[k], records[k + 1]) /\ records[k + 1] \in T
    BY <1>1, <1>2, <2>1
  <2>4. Seen(k + 1) = Seen(k) \cup {records[k + 1]}
    BY <2>1
  <2>5. (\E i \in DOMAIN h[k] : Near(h[k][i], records[k + 1]))
          <=> \E s \in ToSet(h[k]) : Near(s, records[k + 1])
    BY DEF ToSet
  <2> HIDE DEF Seen
  <2>6. Covers(k + 1)
    <3>1. CASE \E s \in ToSet(h[k]) : Near(s, records[k + 1])
      BY <2>2, <2>3, <2>4, <2>5, <3>1 DEF Kept
    <3>2. CASE ~ \E s \in ToSet(h[k]) : Near(s, records[k + 1])
      <4>1. h[k + 1] = Append(h[k], records[k + 1])
        BY <2>3, <2>5, <3>2 DEF Kept
      <4>2. records[k + 1] \notin ToSet(h[k])
        BY <3>2, NearIsMutual
      <4>3. IsInjective(h[k + 1]) /\ ToSet(h[k + 1]) = ToSet(h[k]) \cup {records[k + 1]}
        BY <2>2, <2>3, <4>1, <4>2, AppendNew
      <4>4. ToSet(h[k + 1]) \subseteq Seen(k + 1)
        BY <2>2, <2>4, <4>3
      <4>5. \A r \in Seen(k + 1) : \E s \in ToSet(h[k + 1]) : Near(s, r)
        BY <2>2, <2>4, <4>3, NearIsMutual
      <4>6. \A r, s \in ToSet(h[k + 1]) : r # s => ~Near(r, s)
        BY <2>2, <3>2, <4>3, NearIsMutual
      <4>7. QED
        BY <4>3, <4>4, <4>5, <4>6
    <3>3. QED
      BY <3>1, <3>2
  <2>7. QED
    BY <2>1, <2>6
<1> HIDE DEF S
<1>5. n \in S
  <2>1. 0..n \subseteq S
    BY <1>1, <1>3, <1>4, InductionUpTo
  <2>2. QED
    BY <2>1, <1>1
<1>6. Seen(n) = ToSet(records)
  BY <1>1 DEF ToSet
<1> HIDE DEF Seen
<1>7. n \in 0..n /\ h[n] \in Seq(T) /\ Covers(n)
  BY <1>1, <1>5 DEF S
<1>8. QED
  BY <1>2, <1>6, <1>7

-----------------------------------------------------------------------------
(* The quotas of the strata. *)

\* The larger of two is one of them, and so is the smaller.
LEMMA OfTwo ==
  ASSUME NEW a \in Int, NEW b \in Int
  PROVE  /\ Max({a, b}) = IF a >= b THEN a ELSE b
         /\ Min({a, b}) = IF a <= b THEN a ELSE b
<1>1. Max({a, b}) = IF a >= b THEN a ELSE b
  <2>1. \E x \in {a, b} : \A y \in {a, b} : x >= y
    OBVIOUS
  <2>2. Max({a, b}) \in {a, b} /\ \A y \in {a, b} : Max({a, b}) >= y
    BY <2>1 DEF Max
  <2>3. QED
    BY <2>2
<1>2. Min({a, b}) = IF a <= b THEN a ELSE b
  <2>1. \E x \in {a, b} : \A y \in {a, b} : x <= y
    OBVIOUS
  <2>2. Min({a, b}) \in {a, b} /\ \A y \in {a, b} : Min({a, b}) <= y
    BY <2>1 DEF Min
  <2>3. QED
    BY <2>2
<1>3. QED
  BY <1>1, <1>2

\* A turn of the shrinking loop takes one from a quota above one, unless the
\* sample is small enough or all quotas are down to one.
LEMMA ShrinkStep ==
  ASSUME NEW P \in SUBSET Nat, IsFiniteSet(P), NEW q \in [P -> Nat], NEW n \in Nat
  PROVE  LET r == Shrink(q, n)
         IN /\ r \in [P -> Nat]
            /\ \A k \in P : r[k] <= q[k] /\ (q[k] >= 1 => r[k] >= 1)
            /\ SumFunction(q) <= n => r = q
            /\ \/ SumFunction(q) <= n
               \/ \A k \in P : q[k] <= 1
               \/ SumFunction(r) = SumFunction(q) - 1
<1> DEFINE open == {k \in P : q[k] > 1}
           R == {p \in open \X open : q[p[1]] < q[p[2]] \/ (q[p[1]] = q[p[2]] /\ p[1] < p[2])}
           victim == CHOOSE k \in open :
                       \A j \in open \ {k} : q[j] < q[k] \/ (q[j] = q[k] /\ j < k)
<1>1. SumFunction(q) \in Nat
  BY SumType
<1>2. Shrink(q, n) = IF SumFunction(q) <= n \/ open = {} THEN q ELSE [q EXCEPT ![victim] = @ - 1]
  BY DEF Shrink
<1>3. CASE SumFunction(q) <= n \/ open = {}
  BY <1>2, <1>3
<1>4. CASE ~(SumFunction(q) <= n \/ open = {})
  <2>1. IsFiniteSet(open)
    BY FS_Subset
  <2>2. \A j, k \in open : <<j, k>> \in R <=> q[j] < q[k] \/ (q[j] = q[k] /\ j < k)
    OBVIOUS
  <2>3. \A k \in open : k \in Nat /\ q[k] \in Nat /\ q[k] > 1 /\ k \in P
    OBVIOUS
  <2> HIDE DEF R, open
  <2>4. OrdersStrictly(R, open)
    BY <2>2, <2>3 DEF OrdersStrictly
  <2>5. \E k \in open : \A j \in open \ {k} : <<j, k>> \in R
    BY <1>4, <2>1, <2>4, LastExists
  <2>6. \E k \in open : \A j \in open \ {k} : q[j] < q[k] \/ (q[j] = q[k] /\ j < k)
    BY <2>2, <2>5
  <2>7. victim \in open
    BY <2>6
  <2> HIDE DEF victim
  <2>8. PICK v \in P : v = victim /\ q[v] \in Nat /\ q[v] > 1
    BY <2>3, <2>7
  <2>9. PICK r : r = Shrink(q, n)
    OBVIOUS
  <2>10. r = [q EXCEPT ![v] = q[v] - 1]
    BY <1>2, <1>4, <2>8, <2>9
  <2>11. r \in [P -> Nat] /\ r[v] = q[v] - 1 /\ \A k \in P \ {v} : r[k] = q[k]
    BY <2>8, <2>10
  <2>12. SumFunction(r) \in Nat /\ SumFunction(r) + q[v] = SumFunction(q) + r[v]
    BY <2>11, SumType, SumPoint
  <2>13. SumFunction(r) = SumFunction(q) - 1
    BY <1>1, <2>8, <2>11, <2>12
  <2>14. \A k \in P : r[k] <= q[k] /\ (q[k] >= 1 => r[k] >= 1)
    BY <2>8, <2>11
  <2>15. QED
    BY <1>4, <2>9, <2>11, <2>13, <2>14
<1>5. QED
  BY <1>3, <1>4

\* A turn of the growing loop gives one to a quota below its stratum, unless
\* the sample is large enough or all strata are taken whole.
LEMMA GrowStep ==
  ASSUME NEW P \in SUBSET Nat, IsFiniteSet(P), NEW sizes \in [P -> Nat], NEW q \in [P -> Nat],
         NEW n \in Nat, \A k \in P : q[k] <= sizes[k]
  PROVE  LET r == Grow(q, sizes, n)
         IN /\ r \in [P -> Nat]
            /\ \A k \in P : q[k] <= r[k] /\ r[k] <= sizes[k]
            /\ SumFunction(q) >= n => r = q
            /\ \/ SumFunction(q) >= n
               \/ r = q /\ q = sizes
               \/ SumFunction(r) = SumFunction(q) + 1
<1> DEFINE remainder(k) == (n * sizes[k]) % SumFunction(sizes)
           open == {k \in P : q[k] < sizes[k]}
           R == {p \in open \X open : \/ remainder(p[1]) < remainder(p[2])
                                      \/ remainder(p[1]) = remainder(p[2]) /\ p[1] > p[2]}
           next == CHOOSE k \in open :
                     \A j \in open \ {k} :
                       remainder(j) < remainder(k) \/ (remainder(j) = remainder(k) /\ j > k)
<1>1. SumFunction(q) \in Nat /\ SumFunction(sizes) \in Nat
  BY SumType
<1>2. Grow(q, sizes, n) = IF SumFunction(q) >= n \/ open = {} THEN q ELSE [q EXCEPT ![next] = @ + 1]
  BY DEF Grow
<1>3. CASE SumFunction(q) >= n
  BY <1>2, <1>3
<1>4. CASE open = {}
  <2>1. \A k \in P : q[k] = sizes[k]
    BY <1>4
  <2>2. q = sizes
    <3>1. q = [k \in P |-> q[k]] /\ sizes = [k \in P |-> sizes[k]]
      OBVIOUS
    <3>2. [k \in P |-> q[k]] = [k \in P |-> sizes[k]]
      BY <2>1
    <3>3. QED
      BY <3>1, <3>2
  <2>3. QED
    BY <1>2, <1>4, <2>2
<1>5. CASE ~(SumFunction(q) >= n) /\ open # {}
  <2>1. IsFiniteSet(open)
    BY FS_Subset
  <2>2. \A j, k \in open : <<j, k>> \in R
                             <=> \/ remainder(j) < remainder(k)
                                 \/ remainder(j) = remainder(k) /\ j > k
    OBVIOUS
  <2>3. \A k \in open : /\ k \in Nat /\ k \in P /\ q[k] \in Nat /\ sizes[k] \in Nat
                        /\ q[k] < sizes[k]
    OBVIOUS
  <2>4. \A k \in open : remainder(k) \in Int
    <3>1. SumFunction(sizes) # 0
      <4>1. PICK k \in open : TRUE
        BY <1>5
      <4>2. PICK zeros : zeros \in [P -> Nat] /\ \A x \in P : zeros[x] = 0
        <5>1. [x \in P |-> 0] \in [P -> Nat] /\ \A x \in P : [y \in P |-> 0][x] = 0
          OBVIOUS
        <5>2. QED
          BY <5>1
      <4>3. \A x \in P : zeros[x] <= sizes[x]
        BY <4>2
      <4>4. /\ SumFunction(zeros) <= SumFunction(sizes)
            /\ SumFunction(zeros) = SumFunction(sizes) => zeros = sizes
        <5>1. IsFiniteSet(P) /\ sizes \in [P -> Nat] /\ zeros \in [P -> Nat]
          BY <4>2
        <5>2. QED
          BY ONLY <4>3, <5>1, SumLeq
      <4>5. zeros # sizes
        BY <2>3, <4>1, <4>2
      <4>6. SumFunction(zeros) \in Nat
        BY <4>2, SumType
      <4>7. QED
        BY <1>1, <4>4, <4>5, <4>6
    <3>2. SumFunction(sizes) \in Nat \ {0}
      BY <1>1, <3>1
    <3>3. \A k \in open : n * sizes[k] \in Int
      BY <2>3
    <3>4. \A a \in Int, b \in Nat \ {0} : a % b \in Int
      OBVIOUS
    <3>5. QED
      BY <3>2, <3>3, <3>4
  <2> HIDE DEF remainder, R, open
  <2>5. OrdersStrictly(R, open)
    BY <2>2, <2>3, <2>4 DEF OrdersStrictly
  <2>6. \E k \in open : \A j \in open \ {k} : <<j, k>> \in R
    BY <1>5, <2>1, <2>5, LastExists
  <2>7. \E k \in open : \A j \in open \ {k} :
          remainder(j) < remainder(k) \/ (remainder(j) = remainder(k) /\ j > k)
    BY <2>2, <2>6
  <2>8. next \in open
    BY <2>7
  <2> HIDE DEF next
  <2>9. PICK v \in P : v = next /\ q[v] \in Nat /\ sizes[v] \in Nat /\ q[v] < sizes[v]
    BY <2>3, <2>8
  <2>10. PICK r : r = Grow(q, sizes, n)
    OBVIOUS
  <2>11. r = [q EXCEPT ![v] = q[v] + 1]
    BY <1>2, <1>5, <2>9, <2>10
  <2>12. r \in [P -> Nat] /\ r[v] = q[v] + 1 /\ \A k \in P \ {v} : r[k] = q[k]
    BY <2>9, <2>11
  <2>13. SumFunction(r) \in Nat /\ SumFunction(r) + q[v] = SumFunction(q) + r[v]
    <3>1. SumFunction(r) \in Nat
      BY <2>12, SumType
    <3>2. v \in P /\ \A k \in P \ {v} : q[k] = r[k]
      BY <2>12
    <3>3. SumFunction(r) + q[v] = SumFunction(q) + r[v]
      <4>1. IsFiniteSet(P) /\ q \in [P -> Nat] /\ r \in [P -> Nat]
        BY <2>12
      <4>2. QED
        BY ONLY <3>2, <4>1, SumPoint
    <3>4. QED
      BY <3>1, <3>3
  <2>14. SumFunction(r) = SumFunction(q) + 1
    BY <1>1, <2>9, <2>12, <2>13
  <2>15. \A k \in P : q[k] <= r[k] /\ r[k] <= sizes[k]
    BY <2>9, <2>12
  <2>16. QED
    BY <1>5, <2>10, <2>12, <2>14, <2>15
<1>6. QED
  BY <1>3, <1>4, <1>5

Shrunk(start, n, times) == Iterate(LAMBDA q : Shrink(q, n), start, times)
Grown(start, sizes, n) == Iterate(LAMBDA q : Grow(q, sizes, n), start, n)

\* Enough turns of the shrinking loop leave no more than the sample, or one for
\* each stratum; no quota is raised, and none is taken whole.
LEMMA ShrinkLoop ==
  ASSUME NEW P \in SUBSET Nat, IsFiniteSet(P), NEW start \in [P -> Nat], NEW n \in Nat,
         NEW t \in Nat, SumFunction(start) <= t
  PROVE  LET r == Shrunk(start, n, t)
         IN /\ r \in [P -> Nat]
            /\ \A k \in P : r[k] <= start[k] /\ (start[k] >= 1 => r[k] >= 1)
            /\ SumFunction(r) <= n \/ \A k \in P : r[k] <= 1
<1> DEFINE V == [P -> Nat]
           F == [p \in (1..t) \X V |-> Shrink(p[2], n)]
<1>1. IsLoop(t, V, start, F)
  <2>1. \A q \in V : Shrink(q, n) \in V
    BY ShrinkStep
  <2> HIDE DEF V
  <2>2. \A p \in (1..t) \X V : Shrink(p[2], n) \in V
    BY <2>1
  <2>3. start \in V
    BY DEF V
  <2>4. QED
    BY <2>2, <2>3 DEF IsLoop
<1>2. \A i \in 1..t, q \in V : F[<<i, q>>] = Shrink(q, n)
  OBVIOUS
<1> HIDE DEF F, V
<1>3. PICK h : IsRun(t, V, start, F, h)
  BY <1>1, LoopRuns
<1>4. \A i \in 1..t : h[i - 1] \in V /\ h[i] = Shrink(h[i - 1], n)
  <2>1. \A i \in 1..t : h[i - 1] \in V /\ h[i] = F[<<i, h[i - 1]>>]
    BY <1>3 DEF IsRun
  <2>2. QED
    BY <1>2, <2>1
<1>5. h = [i \in 0..t |-> IF i = 0 THEN start ELSE Shrink(h[i - 1], n)]
  BY <1>3, <1>4 DEF IsRun
<1>6. PICK after :
        /\ after = (CHOOSE a : a = [i \in 0..t |-> IF i = 0 THEN start ELSE Shrink(a[i - 1], n)])
        /\ Shrunk(start, n, t) = after[t]
  BY DEF Shrunk, Iterate
<1>7. after = [i \in 0..t |-> IF i = 0 THEN start ELSE Shrink(after[i - 1], n)]
  BY <1>5, <1>6
<1> DEFINE Shrinking(i, q) ==
             /\ q \in V
             /\ \A k \in P : q[k] <= start[k] /\ (start[k] >= 1 => q[k] >= 1)
             /\ \/ SumFunction(q) <= n
                \/ \A k \in P : q[k] <= 1
                \/ SumFunction(q) <= t - i
           S == {i \in 0..t : Shrinking(i, after[i])}
<1>8. 0 \in S
  <2>1. after[0] = start
    BY <1>7
  <2>2. \A k \in P : start[k] \in Nat
    OBVIOUS
  <2>3. SumFunction(start) <= t - 0
    <3>1. SumFunction(start) \in Nat
      BY SumType
    <3>2. QED
      BY <3>1
  <2>4. Shrinking(0, start)
    BY <2>2, <2>3 DEF V
  <2> HIDE DEF Shrinking
  <2>5. QED
    BY <2>1, <2>4
<1>9. ASSUME NEW i \in 0..t, i # t, i \in S PROVE i + 1 \in S
  <2>1. i + 1 \in 0..t /\ i + 1 # 0 /\ (i + 1) - 1 = i /\ t - (i + 1) = (t - i) - 1
    BY <1>9
  <2>2. PICK q : q = after[i] /\ Shrinking(i, q)
    BY <1>9
  <2>3. PICK r : r = after[i + 1] /\ r = Shrink(q, n)
    BY <1>7, <2>1, <2>2
  <2>4. q \in [P -> Nat]
    BY <2>2 DEF V
  <2>5. /\ r \in [P -> Nat]
        /\ \A k \in P : r[k] <= q[k] /\ (q[k] >= 1 => r[k] >= 1)
        /\ SumFunction(q) <= n => r = q
        /\ \/ SumFunction(q) <= n
           \/ \A k \in P : q[k] <= 1
           \/ SumFunction(r) = SumFunction(q) - 1
    BY <2>3, <2>4, ShrinkStep
  <2>6. \A k \in P : r[k] \in Nat /\ q[k] \in Nat /\ start[k] \in Nat
    BY <2>4, <2>5
  <2>7. \A k \in P : r[k] <= start[k] /\ (start[k] >= 1 => r[k] >= 1)
    BY <2>2, <2>5, <2>6
  <2>8. (\A k \in P : q[k] <= 1) => \A k \in P : r[k] <= 1
    BY <2>5, <2>6
  <2>9. SumFunction(q) \in Nat /\ SumFunction(r) \in Nat
    BY <2>4, <2>5, SumType
  <2>10. \/ SumFunction(r) <= n
         \/ \A k \in P : r[k] <= 1
         \/ SumFunction(r) <= t - (i + 1)
    <3>1. CASE SumFunction(q) <= n
      BY <2>5, <3>1
    <3>2. CASE \A k \in P : q[k] <= 1
      BY <2>8, <3>2
    <3>3. CASE SumFunction(r) = SumFunction(q) - 1 /\ SumFunction(q) <= t - i
      BY <2>1, <2>9, <3>3
    <3>4. QED
      BY <2>2, <2>5, <3>1, <3>2, <3>3
  <2>11. Shrinking(i + 1, r)
    BY <2>5, <2>7, <2>10 DEF V
  <2>12. QED
    BY <2>1, <2>3, <2>11
<1> HIDE DEF S
<1>10. t \in S
  <2>1. 0..t \subseteq S
    BY <1>8, <1>9, InductionUpTo
  <2>2. QED
    BY <2>1
<1>11. Shrinking(t, after[t])
  BY <1>10 DEF S
<1>12. PICK r : r = after[t]
  OBVIOUS
<1>13. r \in [P -> Nat] /\ SumFunction(r) \in Nat
  BY <1>11, <1>12, SumType DEF V
<1>14. SumFunction(r) <= n \/ \A k \in P : r[k] <= 1
  BY <1>11, <1>12, <1>13
<1>15. QED
  BY <1>6, <1>11, <1>12, <1>13, <1>14

\* As many turns of the growing loop as the sample has traces fill it up, or
\* take all strata whole.
LEMMA GrowLoop ==
  ASSUME NEW P \in SUBSET Nat, IsFiniteSet(P), NEW sizes \in [P -> Nat], NEW start \in [P -> Nat],
         NEW n \in Nat, \A k \in P : start[k] <= sizes[k], SumFunction(start) <= n
  PROVE  LET r == Grown(start, sizes, n)
         IN /\ r \in [P -> Nat]
            /\ \A k \in P : start[k] <= r[k] /\ r[k] <= sizes[k]
            /\ SumFunction(r) <= n
            /\ SumFunction(r) = n \/ r = sizes
<1> DEFINE V == {q \in [P -> Nat] : \A k \in P : q[k] <= sizes[k]}
           F == [p \in (1..n) \X V |-> Grow(p[2], sizes, n)]
<1>1. IsLoop(n, V, start, F)
  <2>1. ASSUME NEW q \in V PROVE Grow(q, sizes, n) \in V
    <3>1. q \in [P -> Nat] /\ \A k \in P : q[k] <= sizes[k]
      OBVIOUS
    <3>2. PICK r : r = Grow(q, sizes, n)
      OBVIOUS
    <3>3. r \in [P -> Nat] /\ \A k \in P : r[k] <= sizes[k]
      BY <3>1, <3>2, GrowStep
    <3>4. QED
      BY <3>2, <3>3
  <2>2. start \in V
    OBVIOUS
  <2> HIDE DEF V
  <2>3. \A p \in (1..n) \X V : Grow(p[2], sizes, n) \in V
    BY <2>1
  <2>4. QED
    BY <2>2, <2>3 DEF IsLoop
<1>2. \A i \in 1..n, q \in V : F[<<i, q>>] = Grow(q, sizes, n)
  OBVIOUS
<1> HIDE DEF F, V
<1>3. PICK h : IsRun(n, V, start, F, h)
  BY <1>1, LoopRuns
<1>4. \A i \in 1..n : h[i - 1] \in V /\ h[i] = Grow(h[i - 1], sizes, n)
  <2>1. \A i \in 1..n : h[i - 1] \in V /\ h[i] = F[<<i, h[i - 1]>>]
    BY <1>3 DEF IsRun
  <2>2. QED
    BY <1>2, <2>1
<1>5. h = [i \in 0..n |-> IF i = 0 THEN start ELSE Grow(h[i - 1], sizes, n)]
  BY <1>3, <1>4 DEF IsRun
<1>6. PICK after :
        /\ after = (CHOOSE a : a = [i \in 0..n |->
                      IF i = 0 THEN start ELSE Grow(a[i - 1], sizes, n)])
        /\ Grown(start, sizes, n) = after[n]
  BY DEF Grown, Iterate
<1>7. after = [i \in 0..n |-> IF i = 0 THEN start ELSE Grow(after[i - 1], sizes, n)]
  BY <1>5, <1>6
<1> DEFINE Growing(i, q) ==
             /\ q \in [P -> Nat]
             /\ \A k \in P : start[k] <= q[k] /\ q[k] <= sizes[k]
             /\ SumFunction(q) <= n
             /\ SumFunction(q) = n \/ q = sizes \/ SumFunction(q) >= i
           S == {i \in 0..n : Growing(i, after[i])}
<1>8. 0 \in S
  <2>1. after[0] = start
    BY <1>7
  <2>2. \A k \in P : start[k] \in Nat
    OBVIOUS
  <2>3. SumFunction(start) \in Nat
    BY SumType
  <2>4. QED
    BY <2>1, <2>2, <2>3
<1>9. ASSUME NEW i \in 0..n, i # n, i \in S PROVE i + 1 \in S
  <2>1. i + 1 \in 0..n /\ i + 1 # 0 /\ (i + 1) - 1 = i
    BY <1>9
  <2>2. PICK q : q = after[i] /\ Growing(i, q)
    BY <1>9
  <2>3. PICK r : r = after[i + 1] /\ r = Grow(q, sizes, n)
    BY <1>7, <2>1, <2>2
  <2>4. q \in [P -> Nat] /\ \A k \in P : q[k] <= sizes[k]
    BY <2>2
  <2>5. /\ r \in [P -> Nat]
        /\ \A k \in P : q[k] <= r[k] /\ r[k] <= sizes[k]
        /\ SumFunction(q) >= n => r = q
        /\ \/ SumFunction(q) >= n
           \/ r = q /\ q = sizes
           \/ SumFunction(r) = SumFunction(q) + 1
    BY <2>3, <2>4, GrowStep
  <2>6. \A k \in P : r[k] \in Nat /\ q[k] \in Nat /\ start[k] \in Nat
    BY <2>4, <2>5
  <2>7. \A k \in P : start[k] <= r[k] /\ r[k] <= sizes[k]
    BY <2>2, <2>5, <2>6
  <2>8. SumFunction(q) \in Nat /\ SumFunction(r) \in Nat
    BY <2>4, <2>5, SumType
  <2>9. SumFunction(q) <= n /\ (SumFunction(q) = n \/ q = sizes \/ SumFunction(q) >= i)
    BY <2>2
  <2>10. SumFunction(r) <= n /\ (SumFunction(r) = n \/ r = sizes \/ SumFunction(r) >= i + 1)
    <3>1. CASE SumFunction(q) >= n
      BY <2>5, <2>8, <2>9, <3>1
    <3>2. CASE r = q /\ q = sizes
      BY <2>9, <3>2
    <3>3. CASE SumFunction(r) = SumFunction(q) + 1 /\ ~(SumFunction(q) >= n)
      <4>1. CASE q = sizes
        <5>1. \A k \in P : r[k] = sizes[k]
          BY <2>5, <2>6, <4>1
        <5>2. r = [k \in P |-> r[k]] /\ sizes = [k \in P |-> sizes[k]]
          BY <2>5
        <5>3. [k \in P |-> r[k]] = [k \in P |-> sizes[k]]
          BY <5>1
        <5>4. r = sizes
          BY <5>2, <5>3
        <5>5. QED
          BY <2>8, <3>3, <5>4
      <4>2. CASE SumFunction(q) >= i
        BY <2>8, <3>3, <4>2
      <4>3. QED
        BY <2>9, <3>3, <4>1, <4>2
    <3>4. QED
      BY <2>5, <3>1, <3>2, <3>3
  <2>11. Growing(i + 1, r)
    BY <2>5, <2>7, <2>10
  <2>12. QED
    BY <2>1, <2>3, <2>11
<1> HIDE DEF S
<1>10. n \in S
  <2>1. 0..n \subseteq S
    BY <1>8, <1>9, InductionUpTo
  <2>2. QED
    BY <2>1
<1>11. Growing(n, after[n])
  BY <1>10 DEF S
<1>12. PICK r : r = after[n]
  OBVIOUS
<1>13. r \in [P -> Nat] /\ SumFunction(r) \in Nat
  BY <1>11, <1>12, SumType
<1>14. SumFunction(r) = n \/ r = sizes
  BY <1>11, <1>12, <1>13
<1>15. QED
  BY <1>6, <1>11, <1>12, <1>13, <1>14

\* The proportional share of a stratum, at least one, at most the stratum.
LEMMA BaseQuotaFits ==
  ASSUME NEW P \in SUBSET Nat, IsFiniteSet(P), NEW sizes \in [P -> Nat],
         \A k \in P : sizes[k] >= 1, NEW n \in Nat
  PROVE  LET b == BaseQuota(sizes, n)
         IN b \in [P -> Nat] /\ \A k \in P : 1 <= b[k] /\ b[k] <= sizes[k]
<1>1. PICK t : t = SumFunction(sizes) /\ t \in Nat
  BY SumType
<1>2. P # {} => t # 0
  <2> SUFFICES ASSUME P # {} PROVE t # 0
    OBVIOUS
  <2>1. PICK k \in P : TRUE
    OBVIOUS
  <2>2. PICK zeros : zeros \in [P -> Nat] /\ \A x \in P : zeros[x] = 0
    <3>1. [x \in P |-> 0] \in [P -> Nat] /\ \A x \in P : [y \in P |-> 0][x] = 0
      OBVIOUS
    <3>2. QED
      BY <3>1
  <2>3. SumFunction(zeros) <= t /\ (SumFunction(zeros) = t => zeros = sizes)
    <3>1. IsFiniteSet(P) /\ sizes \in [P -> Nat] /\ zeros \in [P -> Nat]
      BY <2>2
    <3>2. \A x \in P : zeros[x] <= sizes[x]
      BY <2>2
    <3>3. QED
      BY ONLY <1>1, <3>1, <3>2, SumLeq
  <2>4. zeros # sizes
    BY <2>1, <2>2
  <2>5. SumFunction(zeros) \in Nat
    BY <2>2, SumType
  <2>6. QED
    BY <1>1, <2>3, <2>4, <2>5
<1>3. ASSUME NEW k \in P
      PROVE  LET q == Min({sizes[k], Max({1, (n * sizes[k]) \div t})})
             IN q \in Nat /\ 1 <= q /\ q <= sizes[k]
  <2>1. t \in Nat \ {0}
    BY <1>1, <1>2
  <2>2. PICK s \in Nat : s = sizes[k] /\ s >= 1
    OBVIOUS
  <2>3. PICK d \in Int : d = (n * s) \div t
    <3>1. n * s \in Int
      OBVIOUS
    <3>2. \A a \in Int, b \in Nat \ {0} : a \div b \in Int
      OBVIOUS
    <3>3. QED
      BY <2>1, <3>1, <3>2
  <2>4. PICK m \in Int : m = Max({1, d}) /\ m >= 1
    <3>1. Max({1, d}) = IF 1 >= d THEN 1 ELSE d
      BY OfTwo
    <3>2. QED
      BY <3>1
  <2>5. PICK q \in Int : q = Min({s, m}) /\ q >= 1 /\ q <= s
    <3>1. s \in Int
      BY <2>2
    <3>2. Min({s, m}) = IF s <= m THEN s ELSE m
      BY <3>1, OfTwo
    <3>3. QED
      BY <2>2, <2>4, <3>2
  <2>6. QED
    BY <2>2, <2>3, <2>4, <2>5
<1>4. BaseQuota(sizes, n) = [k \in P |-> Min({sizes[k], Max({1, (n * sizes[k]) \div t})})]
  BY <1>1 DEF BaseQuota
<1>5. QED
  BY <1>3, <1>4

\* When there are more strata than traces to sample, as many of the largest
\* lead as there are traces to sample.
LEMMA LeadersAreLargest ==
  ASSUME NEW P \in SUBSET Nat, IsFiniteSet(P), NEW sizes \in [P -> Nat],
         NEW n \in Nat, n < Cardinality(P)
  PROVE  /\ Leaders(sizes, n) \in SUBSET P
         /\ Cardinality(Leaders(sizes, n)) = n
         /\ \A j, k \in P : sizes[j] > sizes[k] /\ k \in Leaders(sizes, n)
                              => j \in Leaders(sizes, n)
<1> DEFINE R == {p \in P \X P : \/ sizes[p[1]] > sizes[p[2]]
                                \/ sizes[p[1]] = sizes[p[2]] /\ p[1] < p[2]}
<1>1. \A j, k \in P : <<j, k>> \in R <=> sizes[j] > sizes[k] \/ (sizes[j] = sizes[k] /\ j < k)
  OBVIOUS
<1>2. \A k \in P : k \in Nat /\ sizes[k] \in Nat
  OBVIOUS
<1>3. Leaders(sizes, n) =
        {k \in P : Cardinality({j \in P : \/ sizes[j] > sizes[k]
                                          \/ sizes[j] = sizes[k] /\ j < k}) < n}
  BY DEF Leaders
<1> HIDE DEF R
<1>4. OrdersStrictly(R, P)
  BY <1>1, <1>2 DEF OrdersStrictly
<1>5. \A k \in P : Ranks(R, P)[k]
                     = Cardinality({j \in P : \/ sizes[j] > sizes[k]
                                              \/ sizes[j] = sizes[k] /\ j < k})
  <2>1. ASSUME NEW k \in P
        PROVE  {j \in P : <<j, k>> \in R}
                 = {j \in P : sizes[j] > sizes[k] \/ (sizes[j] = sizes[k] /\ j < k)}
    BY <1>1
  <2>2. QED
    BY <2>1 DEF Ranks
<1>6. Leaders(sizes, n) = {k \in P : Ranks(R, P)[k] < n}
  BY <1>3, <1>5
<1>7. PICK m \in Nat : m = Cardinality(P)
  BY FS_CardinalityType
<1>8. n \in 0..Cardinality(P)
  BY <1>7
<1>9. Cardinality(Leaders(sizes, n)) = n
  BY <1>4, <1>6, <1>8, RanksCount
<1>10. ASSUME NEW j \in P, NEW k \in P, sizes[j] > sizes[k], Ranks(R, P)[k] < n
       PROVE  Ranks(R, P)[j] < n
  <2>1. <<j, k>> \in R
    BY <1>1, <1>10
  <2>2. Ranks(R, P)[j] < Ranks(R, P)[k]
    BY <1>4, <2>1, RanksAreABijection
  <2>3. Ranks(R, P)[j] \in Int /\ Ranks(R, P)[k] \in Int
    <3>1. Ranks(R, P) \in [P -> 0..Cardinality(P) - 1]
      BY <1>4, RanksAreABijection DEF Bijection, Injection
    <3>2. QED
      BY <1>7, <3>1
  <2>4. QED
    BY <1>10, <2>2, <2>3
<1>11. QED
  BY <1>6, <1>9, <1>10

\* _allocate_quotas meets its reference whatever the strata and the sample:
\* the loops never run out of turns or of strata before the quotas add up
\* (sampling.py:152-216).
THEOREM QuotasAreMet ==
  ASSUME NEW D \in SUBSET Nat, IsFiniteSet(D), NEW stratumSizes \in [D -> Nat], NEW n \in Nat
  PROVE  QuotasMeet(stratumSizes, n)
<1> DEFINE P == {k \in D : stratumSizes[k] > 0}
           total == SumFunction(stratumSizes)
           quotas == AllocateQuotas(stratumSizes, n)
<1>1. PICK sizes : sizes = [k \in P |-> stratumSizes[k]]
  OBVIOUS
<1>2. /\ P \in SUBSET Nat /\ P \in SUBSET D /\ IsFiniteSet(P) /\ sizes \in [P -> Nat]
      /\ \A k \in P : sizes[k] = stratumSizes[k] /\ sizes[k] >= 1
      /\ \A k \in D \ P : stratumSizes[k] = 0
  <2>1. P \in SUBSET Nat /\ P \in SUBSET D /\ IsFiniteSet(P)
    BY FS_Subset
  <2>2. \A k \in D : stratumSizes[k] \in Nat
    OBVIOUS
  <2>3. \A k \in P : stratumSizes[k] >= 1
    BY <2>2
  <2>4. \A k \in D \ P : stratumSizes[k] = 0
    BY <2>2
  <2> HIDE DEF P
  <2>5. sizes \in [P -> Nat] /\ \A k \in P : sizes[k] = stratumSizes[k]
    BY <1>1, <2>1, <2>2
  <2>6. QED
    BY <2>1, <2>3, <2>4, <2>5
<1>3. P = {k \in DOMAIN stratumSizes : stratumSizes[k] > 0} /\ DOMAIN sizes = P
  BY <1>1
<1> HIDE DEF P
<1>4. total = SumFunction(sizes) /\ total \in Nat
  <2>1. IsSupport(D, stratumSizes, P, sizes)
    BY <1>2 DEF IsSupport
  <2>2. SumFunction(stratumSizes) = SumFunction(sizes)
    BY <2>1, SumOnSupport
  <2>3. SumFunction(stratumSizes) \in Nat
    BY SumType
  <2>4. QED
    BY <2>2, <2>3
<1> HIDE DEF total
<1>5. PICK c \in Nat : c = Cardinality(P)
  BY <1>2, FS_CardinalityType
<1>6. c <= total
  <2>1. PICK ones : ones = [k \in P |-> IF k \in P THEN 1 ELSE 0]
    OBVIOUS
  <2>2. SumFunction(ones) = c
    BY <1>2, <1>5, <2>1, SumOfOnes
  <2>3. ones \in [P -> Nat] /\ \A k \in P : ones[k] <= sizes[k]
    BY <1>2, <2>1
  <2>4. SumFunction(ones) <= SumFunction(sizes)
    <3>1. IsFiniteSet(P) /\ sizes \in [P -> Nat]
      BY <1>2
    <3>2. QED
      BY ONLY <2>3, <3>1, SumLeq
  <2>5. QED
    BY <1>4, <2>2, <2>4
<1>7. PICK q :
        /\ quotas = [k \in D |-> IF k \in P THEN q[k] ELSE 0]
        /\ q = IF n < Cardinality(P)
               THEN [k \in P |-> IF k \in Leaders(sizes, n) THEN 1 ELSE 0]
               ELSE Grown(Shrunk(BaseQuota(sizes, n), n, SumFunction(sizes)), sizes, n)
  <2> DEFINE sz == [k \in {j \in DOMAIN stratumSizes : stratumSizes[j] > 0} |-> stratumSizes[k]]
             part == IF n < Cardinality(DOMAIN sz)
                     THEN [k \in DOMAIN sz |-> IF k \in Leaders(sz, n) THEN 1 ELSE 0]
                     ELSE Grown(Shrunk(BaseQuota(sz, n), n, SumFunction(sz)), sz, n)
  <2>1. quotas = [k \in DOMAIN stratumSizes |-> IF k \in DOMAIN sz THEN part[k] ELSE 0]
    BY DEF AllocateQuotas, Shrunk, Grown
  <2>2. sz = sizes /\ DOMAIN stratumSizes = D
    BY <1>1, <1>3
  <2> HIDE DEF sz, quotas
  <2>3. part = IF n < Cardinality(P)
               THEN [k \in P |-> IF k \in Leaders(sizes, n) THEN 1 ELSE 0]
               ELSE Grown(Shrunk(BaseQuota(sizes, n), n, SumFunction(sizes)), sizes, n)
    BY <1>3, <2>2
  <2> HIDE DEF part
  <2>4. quotas = [k \in D |-> IF k \in P THEN part[k] ELSE 0]
    BY <1>3, <2>1, <2>2
  <2>5. QED
    BY <2>3, <2>4
<1> HIDE DEF quotas
<1>8. ASSUME q \in [P -> Nat], SumFunction(q) = Min({n, total}),
             \A k \in P : q[k] <= sizes[k],
             IF n >= c THEN \A k \in P : q[k] >= 1
             ELSE \A j, k \in P : sizes[j] > sizes[k] => q[j] >= q[k]
      PROVE  QuotasMeet(stratumSizes, n)
  <2>1. quotas \in [D -> Nat] /\ \A k \in D \ P : quotas[k] = 0
    BY <1>2, <1>7, <1>8
  <2>2. q = [k \in P |-> quotas[k]]
    BY <1>2, <1>7, <1>8
  <2>3. SumFunction(quotas) = SumFunction(q)
    <3>1. IsSupport(D, quotas, P, q)
      BY <1>2, <1>8, <2>1, <2>2 DEF IsSupport
    <3>2. QED
      BY <3>1, SumOnSupport
  <2>4. \A k \in D : quotas[k] <= stratumSizes[k]
    <3>1. ASSUME NEW k \in D PROVE quotas[k] <= stratumSizes[k]
      <4>1. CASE k \in P
        BY <1>2, <1>7, <1>8, <4>1
      <4>2. CASE k \notin P
        BY <1>2, <2>1, <4>2
      <4>3. QED
        BY <4>1, <4>2
    <3>2. QED
      BY <3>1
  <2>5. \A k \in P : quotas[k] = q[k] /\ sizes[k] = stratumSizes[k]
    BY <1>2, <2>2
  <2>6. DOMAIN stratumSizes = D
    OBVIOUS
  <2>7. IF n >= Cardinality(P) THEN \A k \in P : quotas[k] >= 1
        ELSE \A j, k \in P : stratumSizes[j] > stratumSizes[k] => quotas[j] >= quotas[k]
    BY <1>5, <1>8, <2>5
  <2>8. SumFunction(quotas) = Min({n, SumFunction(stratumSizes)})
    BY <1>8, <2>3 DEF total
  <2>9. QED
    BY <1>3, <2>4, <2>6, <2>7, <2>8 DEF QuotasMeet, quotas
<1>9. CASE n < c
  <2>1. /\ Leaders(sizes, n) \in SUBSET P /\ Cardinality(Leaders(sizes, n)) = n
        /\ \A j, k \in P : sizes[j] > sizes[k] /\ k \in Leaders(sizes, n)
                             => j \in Leaders(sizes, n)
    BY <1>2, <1>5, <1>9, LeadersAreLargest
  <2>2. q = [k \in P |-> IF k \in Leaders(sizes, n) THEN 1 ELSE 0]
    BY <1>5, <1>7, <1>9
  <2>3. SumFunction(q) = n
    BY <1>2, <2>1, <2>2, SumOfOnes
  <2>4. Min({n, total}) = n
    <3>1. n \in Int /\ total \in Int /\ n <= total
      BY <1>4, <1>5, <1>6, <1>9
    <3>2. QED
      BY <3>1, OfTwo
  <2>5. /\ q \in [P -> Nat]
        /\ \A k \in P : q[k] = IF k \in Leaders(sizes, n) THEN 1 ELSE 0
    BY <2>2
  <2>6. \A k \in P : sizes[k] \in Nat /\ sizes[k] >= 1
    BY <1>2
  <2>7. \A k \in P : q[k] <= sizes[k]
    BY <2>5, <2>6
  <2>8. \A j, k \in P : sizes[j] > sizes[k] => q[j] >= q[k]
    BY <2>1, <2>5
  <2>9. ~(n >= c)
    BY <1>9
  <2>10. QED
    BY <1>8, <2>3, <2>4, <2>5, <2>7, <2>8, <2>9
<1>10. CASE ~(n < c)
  <2>1. PICK b : /\ b = BaseQuota(sizes, n) /\ b \in [P -> Nat]
                 /\ \A k \in P : 1 <= b[k] /\ b[k] <= sizes[k]
    BY <1>2, BaseQuotaFits
  <2>2. SumFunction(b) <= total
    <3>1. IsFiniteSet(P) /\ sizes \in [P -> Nat] /\ b \in [P -> Nat]
          /\ \A k \in P : b[k] <= sizes[k]
      BY <1>2, <2>1
    <3>2. SumFunction(b) <= SumFunction(sizes)
      BY ONLY <3>1, SumLeq
    <3>3. QED
      BY <1>4, <3>2
  <2>3. PICK s : /\ s = Shrunk(b, n, total)
                 /\ s \in [P -> Nat]
                 /\ \A k \in P : s[k] <= b[k] /\ (b[k] >= 1 => s[k] >= 1)
                 /\ SumFunction(s) <= n \/ \A k \in P : s[k] <= 1
    <3>1. P \in SUBSET Nat /\ IsFiniteSet(P) /\ b \in [P -> Nat] /\ n \in Nat /\ total \in Nat
      BY <1>2, <1>4, <2>1
    <3>2. QED
      BY ONLY <2>2, <3>1, ShrinkLoop
  <2>4. ASSUME NEW k \in P PROVE 1 <= s[k] /\ s[k] <= sizes[k] /\ s[k] \in Nat
    <3>1. b[k] \in Nat /\ s[k] \in Nat /\ sizes[k] \in Nat
      BY <1>2, <2>1, <2>3
    <3>2. 1 <= b[k] /\ b[k] <= sizes[k] /\ s[k] <= b[k] /\ (b[k] >= 1 => s[k] >= 1)
      BY <2>1, <2>3
    <3>3. QED
      BY <3>1, <3>2
  <2>5. SumFunction(s) <= n
    <3>1. CASE \A k \in P : s[k] <= 1
      <4>1. s = [k \in P |-> IF k \in P THEN 1 ELSE 0]
        <5>1. \A k \in P : s[k] = 1
          BY <2>4, <3>1
        <5>2. s = [k \in P |-> s[k]]
          BY <2>3
        <5>3. [k \in P |-> s[k]] = [k \in P |-> IF k \in P THEN 1 ELSE 0]
          BY <5>1
        <5>4. QED
          BY <5>2, <5>3
      <4>2. SumFunction(s) = c
        BY <1>2, <1>5, <4>1, SumOfOnes
      <4>3. QED
        BY <1>5, <1>10, <4>2
    <3>2. QED
      BY <2>3, <3>1
  <2>6. PICK r : /\ r = Grown(s, sizes, n)
                 /\ r \in [P -> Nat]
                 /\ \A k \in P : s[k] <= r[k] /\ r[k] <= sizes[k]
                 /\ SumFunction(r) <= n
                 /\ SumFunction(r) = n \/ r = sizes
    <3>1. P \in SUBSET Nat /\ IsFiniteSet(P) /\ sizes \in [P -> Nat] /\ s \in [P -> Nat]
          /\ n \in Nat /\ \A k \in P : s[k] <= sizes[k]
      BY <1>2, <2>3, <2>4
    <3>2. QED
      BY ONLY <2>5, <3>1, GrowLoop
  <2>7. q = r
    BY <1>4, <1>5, <1>7, <1>10, <2>1, <2>3, <2>6
  <2>8. SumFunction(r) \in Nat /\ SumFunction(r) <= total
    <3>1. IsFiniteSet(P) /\ sizes \in [P -> Nat] /\ r \in [P -> Nat]
          /\ \A k \in P : r[k] <= sizes[k]
      BY <1>2, <2>6
    <3>2. SumFunction(r) <= SumFunction(sizes) /\ SumFunction(r) \in Nat
      BY ONLY <3>1, SumLeq, SumType
    <3>3. QED
      BY <1>4, <3>2
  <2>9. SumFunction(r) = Min({n, total})
    <3>1. Min({n, total}) = IF n <= total THEN n ELSE total
      BY <1>4, OfTwo
    <3>2. SumFunction(r) = n \/ SumFunction(r) = total
      BY <1>4, <2>6
    <3>3. QED
      BY <1>4, <2>6, <2>8, <3>1, <3>2
  <2>10. ASSUME NEW k \in P PROVE r[k] >= 1
    <3>1. r[k] \in Nat /\ s[k] <= r[k]
      BY <2>6
    <3>2. QED
      BY <2>4, <3>1
  <2>11. n >= c
    BY <1>5, <1>10
  <2>12. QED
    BY <1>8, <2>6, <2>7, <2>9, <2>10, <2>11
<1>11. QED
  BY <1>5, <1>9, <1>10

-----------------------------------------------------------------------------
(* The sample. *)

\* The elements of a sequence are finitely many.
LEMMA FinitelyMany ==
  ASSUME NEW S, NEW q \in Seq(S)
  PROVE  IsFiniteSet(ToSet(q)) /\ ToSet(q) \in SUBSET S
<1>1. PICK n \in Nat : n = Len(q) /\ DOMAIN q = 1..n
  OBVIOUS
<1>2. IsFiniteSet(1..n)
  BY FS_Interval
<1>3. q \in Surjection(1..n, ToSet(q))
  BY <1>1 DEF ToSet, Surjection
<1>4. QED
  BY <1>1, <1>2, <1>3, FS_Surjection DEF ToSet

\* How many of s belong to each stratum of K.
SizesIn(K, s) == [k \in K |-> Cardinality(Stratum(s, k))]

\* The strata partition a set of traces.
LEMMA StrataAddUp ==
  ASSUME NEW A \in SUBSET Traces, IsFiniteSet(A), NEW K, IsFiniteSet(K),
         \A t \in A : StratumOf[t] \in K
  PROVE  SizesIn(K, A) \in [K -> Nat] /\ SumFunction(SizesIn(K, A)) = Cardinality(A)
<1> DEFINE C == {s \in SUBSET A : SumFunction(SizesIn(K, s)) = Cardinality(s)}
<1>1. ASSUME NEW s \in SUBSET A
      PROVE  /\ IsFiniteSet(s)
             /\ SizesIn(K, s) \in [K -> Nat]
             /\ \A k \in K : /\ SizesIn(K, s)[k] = Cardinality(Stratum(s, k))
                             /\ IsFiniteSet(Stratum(s, k))
  <2>1. IsFiniteSet(s)
    BY FS_Subset
  <2>2. ASSUME NEW k \in K PROVE IsFiniteSet(Stratum(s, k)) /\ Cardinality(Stratum(s, k)) \in Nat
    <3>1. Stratum(s, k) \in SUBSET s
      BY DEF Stratum
    <3>2. QED
      BY <2>1, <3>1, FS_Subset, FS_CardinalityType
  <2>3. QED
    BY <2>1, <2>2 DEF SizesIn
<1>2. {} \in C
  <2>1. SizesIn(K, {}) = [k \in K |-> IF k \in {} THEN 1 ELSE 0]
    <3>1. \A k : Stratum({}, k) = {}
      BY DEF Stratum
    <3>2. QED
      BY <3>1, FS_EmptySet DEF SizesIn
  <2>2. SumFunction(SizesIn(K, {})) = Cardinality({})
    BY <2>1, SumOfOnes
  <2>3. QED
    BY <2>2
<1>3. ASSUME NEW s \in SUBSET A, s # {}, \A x \in s : s \ {x} \in C PROVE s \in C
  <2>1. PICK x : x \in s
    BY <1>3
  <2>2. PICK v \in K : v = StratumOf[x]
    BY <1>3, <2>1
  <2>3. PICK f \in [K -> Nat] : f = SizesIn(K, s \ {x})
    BY <1>1
  <2>4. PICK e \in [K -> Nat] : e = SizesIn(K, s)
    BY <1>1
  <2>5. \A k \in K \ {v} : f[k] = e[k]
    <3>1. \A k \in K \ {v} : Stratum(s \ {x}, k) = Stratum(s, k)
      BY <2>2 DEF Stratum
    <3>2. QED
      BY <2>3, <2>4, <3>1 DEF SizesIn
  <2>6. e[v] = f[v] + 1
    <3>1. /\ Stratum(s \ {x}, v) = Stratum(s, v) \ {x} /\ x \in Stratum(s, v)
          /\ IsFiniteSet(Stratum(s, v))
      BY <1>1, <2>1, <2>2 DEF Stratum
    <3>2. Cardinality(Stratum(s \ {x}, v)) = Cardinality(Stratum(s, v)) - 1
      <4>1. PICK T : T = Stratum(s, v)
        OBVIOUS
      <4>2. IsFiniteSet(T) /\ x \in T /\ Stratum(s \ {x}, v) = T \ {x}
        BY <3>1, <4>1
      <4>3. Cardinality(T \ {x}) = Cardinality(T) - 1
        BY <4>2, FS_RemoveElement
      <4>4. QED
        BY <4>1, <4>2, <4>3
    <3>3. f[v] = Cardinality(Stratum(s \ {x}, v)) /\ e[v] = Cardinality(Stratum(s, v))
      BY <2>3, <2>4 DEF SizesIn
    <3>4. f[v] \in Nat /\ e[v] \in Nat /\ f[v] = e[v] - 1
      BY <3>2, <3>3
    <3>5. QED
      BY <3>4
  <2>7. SumFunction(e) + f[v] = SumFunction(f) + e[v]
    BY <2>5, SumPoint
  <2>8. SumFunction(e) \in Nat /\ SumFunction(f) \in Nat /\ f[v] \in Nat
    BY SumType
  <2>9. SumFunction(e) = SumFunction(f) + 1
    BY <2>6, <2>7, <2>8
  <2>10. SumFunction(f) = Cardinality(s \ {x})
    BY <1>3, <2>1, <2>3
  <2>11. Cardinality(s \ {x}) = Cardinality(s) - 1 /\ Cardinality(s) \in Nat
    BY <1>1, <2>1, FS_RemoveElement, FS_CardinalityType
  <2>12. PICK m \in Nat : m = SumFunction(f)
    BY <2>8
  <2>13. PICK c \in Nat : c = Cardinality(s)
    BY <2>11
  <2>14. m = c - 1
    BY <2>10, <2>11, <2>12, <2>13
  <2>15. SumFunction(e) = c
    BY <2>9, <2>12, <2>14
  <2>16. QED
    BY <2>4, <2>13, <2>15
<1>4. A \in C
  <2> HIDE DEF C
  <2>1. QED
    BY <1>2, <1>3, SubsetInduction
<1>5. QED
  BY <1>1, <1>4

\* sample_traces: whatever the generator draws, the sample is part of the
\* representatives, as large as asked for or all of them, and has a trace of
\* each stratum unless there are more strata than traces to sample
\* (sampling.py:78-119).
THEOREM SamplesStandFor ==
  ASSUME NEW records \in Seq(Traces), NEW S \in Samples(records)
  PROVE  LET reps == ToSet(Representatives(records))
         IN /\ S \subseteq reps
            /\ Cardinality(S) = Min({SampleSize, Cardinality(reps)})
            /\ SampleSize >= Cardinality({StratumOf[r] : r \in reps}) =>
                 {StratumOf[t] : t \in S} = {StratumOf[r] : r \in reps}
<1>1. PICK A \in SUBSET Traces : A = ToSet(Representatives(records)) /\ IsFiniteSet(A)
  <2>1. Representatives(records) \in Seq(Traces)
    BY RepresentativesCover
  <2>2. QED
    BY <2>1, FinitelyMany
<1> DEFINE K == {StratumOf[r] : r \in A}
<1>2. PICK c \in Nat : c = Cardinality(A)
  BY <1>1, FS_CardinalityType
<1>3. SampleSize \in Nat
  BY SamplingAssumption
<1>4. Min({SampleSize, c}) = IF SampleSize <= c THEN SampleSize ELSE c
  <2>1. SampleSize \in Int /\ c \in Int
    BY <1>3
  <2> HIDE DEF K
  <2>2. QED
    BY <2>1, OfTwo
<1>5. SUFFICES /\ S \in SUBSET A
               /\ Cardinality(S) = Min({SampleSize, c})
               /\ SampleSize >= Cardinality(K) => {StratumOf[t] : t \in S} = K
  BY <1>1, <1>2
<1>6. CASE SampleSize >= c
  <2>1. S = A
    BY <1>1, <1>2, <1>6 DEF Samples
  <2>2. Min({SampleSize, c}) = c
    BY <1>3, <1>4, <1>6
  <2>3. QED
    BY <1>2, <2>1, <2>2
<1>7. CASE ~(SampleSize >= c)
  <2> DEFINE sizes == StratumSizes(A)
             quotas == AllocateQuotas(sizes, SampleSize)
  <2>1. S \in SUBSET A /\ \A k \in DOMAIN quotas : Cardinality(Stratum(S, k)) = quotas[k]
    BY <1>1, <1>2, <1>7 DEF Samples, StratifiedSamples
  <2>2. IsFiniteSet(K)
    <3>1. [r \in A |-> StratumOf[r]] \in Surjection(A, K)
      BY DEF Surjection
    <3>2. QED
      BY <1>1, <3>1, FS_Surjection
  <2>3. \A t \in A : StratumOf[t] \in K
    OBVIOUS
  <2> HIDE DEF K
  <2>4. sizes \in [K -> Nat] /\ SumFunction(sizes) = c /\ sizes = SizesIn(K, A)
    <3>1. sizes = SizesIn(K, A)
      BY DEF StratumSizes, SizesIn, K
    <3>2. QED
      BY <1>1, <1>2, <2>2, <2>3, <3>1, StrataAddUp
  <2> HIDE DEF sizes
  <2>5. DOMAIN quotas = K /\ quotas = [k \in K |-> quotas[k]]
    <3>1. DOMAIN sizes = K
      BY <2>4
    <3>2. QED
      BY <3>1 DEF AllocateQuotas
  <2>6. QuotasMeet(sizes, SampleSize)
    <3>1. K \in SUBSET Nat
      BY <1>1, SamplingAssumption DEF K
    <3>2. QED
      BY ONLY <1>3, <2>2, <2>4, <3>1, QuotasAreMet
  <2>7. /\ SumFunction(quotas) = Min({SampleSize, c})
        /\ IF SampleSize >= Cardinality({k \in K : sizes[k] > 0})
           THEN \A k \in {j \in K : sizes[j] > 0} : quotas[k] >= 1
           ELSE TRUE
    <3>1. DOMAIN sizes = K
      BY <2>4
    <3>2. QED
      BY <2>4, <2>6, <3>1 DEF QuotasMeet
  <2> HIDE DEF quotas
  <2>8. quotas = SizesIn(K, S)
    BY <2>1, <2>5 DEF SizesIn
  <2>9. IsFiniteSet(S) /\ SumFunction(SizesIn(K, S)) = Cardinality(S)
    <3>1. IsFiniteSet(S) /\ S \in SUBSET Traces /\ \A t \in S : StratumOf[t] \in K
      BY <1>1, <2>1, <2>3, FS_Subset
    <3>2. QED
      BY <2>2, <3>1, StrataAddUp
  <2>10. ASSUME SampleSize >= Cardinality(K), NEW k \in K
         PROVE  \E t \in S : StratumOf[t] = k
    <3>1. ASSUME NEW j \in K PROVE sizes[j] > 0
      <4>1. PICK r \in A : StratumOf[r] = j
        BY DEF K
      <4>2. r \in Stratum(A, j) /\ Stratum(A, j) \in SUBSET A
        BY <4>1 DEF Stratum
      <4>3. IsFiniteSet(Stratum(A, j)) /\ Cardinality(Stratum(A, j)) # 0
        BY <1>1, <4>2, FS_Subset, FS_EmptySet
      <4>4. sizes[j] = Cardinality(Stratum(A, j)) /\ sizes[j] \in Nat
        BY <2>4 DEF SizesIn
      <4>5. QED
        BY <4>3, <4>4
    <3>2. {j \in K : sizes[j] > 0} = K
      BY <3>1
    <3>3. quotas[k] >= 1
      BY <2>7, <2>10, <3>2
    <3>4. Cardinality(Stratum(S, k)) # 0
      BY <2>8, <3>3 DEF SizesIn
    <3>5. Stratum(S, k) # {}
      BY <3>4, FS_EmptySet
    <3>6. QED
      BY <3>5 DEF Stratum
  <2>11. SampleSize >= Cardinality(K) => {StratumOf[t] : t \in S} = K
    BY <2>1, <2>3, <2>10
  <2>12. QED
    BY <2>1, <2>7, <2>8, <2>9, <2>11
<1>8. QED
  BY <1>6, <1>7

=============================================================================
