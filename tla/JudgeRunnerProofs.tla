------------------------- MODULE JudgeRunnerProofs -------------------------
(***************************************************************************)
(* What JudgeRunner's Spec guarantees for every number of pairs, judges,   *)
(* attempts and faults.  The invariant relates four things: the place of   *)
(* the process in the flattened loops, the call table, the votes in memory *)
(* and the judgments that were written.  Its centre is Banked(n), what the *)
(* table says of item n: it never changes once it says an outcome          *)
(* (BankedStable), so that a vote computed from it in one invocation is    *)
(* the vote that any later invocation computes.                            *)
(***************************************************************************)
EXTENDS JudgeRunner, FiniteSetTheorems, TLAPS

(* The items: arithmetic of the flattened loops. *)

\* Division with remainder, as PairOf and JudgeOf use it.
LEMMA DivMod ==
  ASSUME NEW a \in Nat, NEW b \in Nat \ {0}
  PROVE  /\ a \div b \in Nat
         /\ a % b \in 0..(b - 1)
         /\ a = b * (a \div b) + (a % b)
OBVIOUS

\* Quotient and remainder are the only such pair.
LEMMA DivModUnique ==
  ASSUME NEW b \in Nat \ {0}, NEW q \in Nat, NEW r \in 0..(b - 1), NEW s \in Nat, NEW t \in 0..(b - 1),
         b * q + r = b * s + t
  PROVE  q = s /\ r = t
<1>1. ASSUME NEW x \in Nat, NEW y \in Nat, x < y PROVE b * x + b <= b * y
  <2> DEFINE d == y - x - 1
  <2>1. d \in Nat /\ y = x + d + 1
    BY <1>1
  <2>2. b * d \in Nat
    BY <2>1
  <2> HIDE DEF d
  <2>3. b * y = b * x + b * d + b
    BY <2>1
  <2>4. b * x \in Nat
    OBVIOUS
  <2>5. QED
    BY <2>2, <2>3, <2>4
<1>2. b * q \in Nat /\ b * s \in Nat
  OBVIOUS
<1>3. ~(q < s)
  BY <1>1, <1>2
<1>4. ~(s < q)
  BY <1>1, <1>2
<1>5. QED
  BY <1>3, <1>4

\* Multiplication by a natural number keeps the order.
LEMMA ProductMonotone ==
  ASSUME NEW b \in Nat, NEW m \in Nat, NEW n \in Nat, m <= n
  PROVE  b * m <= b * n
<1> DEFINE d == n - m
<1>1. d \in Nat /\ n = m + d
  OBVIOUS
<1>2. b * d \in Nat
  BY <1>1
<1> HIDE DEF d
<1>3. b * n = b * m + b * d
  BY <1>1
<1>4. QED
  BY <1>2, <1>3

\* Two consecutive items, one per ordering, share a half.
LEMMA HalfOfItem ==
  ASSUME NEW n \in Nat \ {0}
  PROVE /\ (n - 1) \div 2 \in Nat
        /\ CandidateA(n) => n = 2 * ((n - 1) \div 2) + 1
        /\ ~CandidateA(n) => n = 2 * ((n - 1) \div 2) + 2
BY DEF CandidateA

\* Half of an item's number counts the (pair, judge) combinations before it.
LEMMA ItemShape ==
  ASSUME NEW n \in Items
  PROVE  /\ PairOf(n) \in 1..Pairs
         /\ JudgeOf(n) \in 1..Judges
         /\ (n - 1) \div 2 = Judges * (PairOf(n) - 1) + (JudgeOf(n) - 1)
<1> DEFINE h == (n - 1) \div 2
           g == h \div Judges
           k == h % Judges
           e == n - 1 - 2 * h
           b == 2 * Judges
<1>0. /\ Judges \in Nat \ {0} /\ Pairs \in Nat \ {0}
      /\ n \in Nat \ {0} /\ n <= 2 * Judges * Pairs
  BY JudgeAssumption DEF Items
<1>1. h \in Nat /\ e \in {0, 1} /\ n - 1 = 2 * h + e
  BY <1>0, HalfOfItem DEF CandidateA
<1> HIDE DEF h
<1>2. g \in Nat /\ k \in 0..(Judges - 1) /\ h = Judges * g + k
  BY <1>0, <1>1, DivMod
<1> HIDE DEF g, k, e
<1>3. b \in Nat \ {0} /\ 2 * k + e \in 0..(b - 1)
  BY <1>0, <1>1, <1>2
<1>4. b * g = 2 * (Judges * g)
  BY <1>0, <1>2
<1>5. n - 1 = b * g + (2 * k + e)
  <2>1. Judges * g \in Nat
    BY <1>0, <1>2
  <2>2. QED
    BY <1>1, <1>2, <1>3, <1>4, <2>1
<1> DEFINE q == (n - 1) \div b
           r == (n - 1) % b
           t == 2 * k + e
<1> HIDE DEF b
<1>6. q \in Nat /\ r \in 0..(b - 1) /\ n - 1 = b * q + r
  <2>1. n - 1 \in Nat
    BY <1>0
  <2>2. QED
    BY <1>3, <2>1, DivMod
<1> HIDE DEF q, r, t
<1>7. q = g
  <2>1. b \in Nat \ {0} /\ t \in 0..(b - 1) /\ g \in Nat /\ n - 1 = b * g + t
    BY <1>2, <1>3, <1>5 DEF t
  <2>2. b * q + r = b * g + t
    BY <1>6, <2>1
  <2>3. QED
    BY <1>6, <2>1, <2>2, DivModUnique
<1>8. PairOf(n) = g + 1 /\ JudgeOf(n) = k + 1
  BY <1>7 DEF PairOf, JudgeOf, g, k, h, b, q
<1>9. g < Pairs
  <2>1. ASSUME g >= Pairs PROVE FALSE
    <3>1. b * Pairs <= b * g
      BY <1>0, <1>2, <1>3, <2>1, ProductMonotone
    <3>2. b * g \in Nat /\ b * Pairs \in Nat
      BY <1>0, <1>2, <1>3
    <3>3. n - 1 < b * Pairs
      BY <1>0 DEF b
    <3>4. QED
      BY <1>0, <1>3, <1>5, <3>1, <3>2, <3>3
  <2>2. QED
    BY <1>0, <1>2, <2>1
<1>10. QED
  BY <1>0, <1>2, <1>8, <1>9 DEF h

\* An item is known by its pair, its judge and its ordering.
LEMMA ItemUnique ==
  ASSUME NEW m \in Items, NEW n \in Items,
         PairOf(m) = PairOf(n), JudgeOf(m) = JudgeOf(n), CandidateA(m) = CandidateA(n)
  PROVE  m = n
<1>1. m \in Nat \ {0} /\ n \in Nat \ {0}
  BY DEF Items
<1>2. (m - 1) \div 2 = (n - 1) \div 2
  BY ItemShape
<1>3. QED
  BY <1>1, <1>2, HalfOfItem

\* The two orderings of a judge follow each other.
LEMMA Orderings ==
  ASSUME NEW n \in Items
  PROVE  /\ CandidateA(n) => /\ n + 1 \in Items /\ ~CandidateA(n + 1)
                             /\ PairOf(n + 1) = PairOf(n) /\ JudgeOf(n + 1) = JudgeOf(n)
         /\ ~CandidateA(n) => /\ n - 1 \in Items /\ CandidateA(n - 1)
                              /\ PairOf(n - 1) = PairOf(n) /\ JudgeOf(n - 1) = JudgeOf(n)
<1>0. /\ Judges \in Nat \ {0} /\ Pairs \in Nat \ {0}
      /\ n \in Nat \ {0} /\ n <= 2 * (Judges * Pairs) /\ Judges * Pairs \in Nat
  BY JudgeAssumption DEF Items
<1>1. ASSUME NEW i \in Items, NEW j \in Items, (i - 1) \div 2 = (j - 1) \div 2
      PROVE  PairOf(i) = PairOf(j) /\ JudgeOf(i) = JudgeOf(j)
  <2> DEFINE q(m) == PairOf(m) - 1
             r(m) == JudgeOf(m) - 1
  <2>1. /\ q(i) \in Nat /\ r(i) \in 0..(Judges - 1)
        /\ q(j) \in Nat /\ r(j) \in 0..(Judges - 1)
        /\ Judges * q(i) + r(i) = Judges * q(j) + r(j)
    BY <1>0, <1>1, ItemShape
  <2> HIDE DEF q, r
  <2>2. q(i) = q(j) /\ r(i) = r(j)
    BY <1>0, <2>1, DivModUnique
  <2>3. PairOf(i) \in Int /\ PairOf(j) \in Int /\ JudgeOf(i) \in Int /\ JudgeOf(j) \in Int
    BY ItemShape
  <2>4. QED
    BY <2>2, <2>3 DEF q, r
<1>2. CASE CandidateA(n)
  <2>1. n = 2 * ((n - 1) \div 2) + 1 /\ (n - 1) \div 2 \in Nat
    BY <1>0, <1>2, HalfOfItem
  <2>0. 2 * Judges * Pairs = 2 * (Judges * Pairs)
    BY <1>0
  <2>2. n + 1 \in Items /\ ~CandidateA(n + 1) /\ n \div 2 = (n - 1) \div 2
    BY <1>0, <2>0, <2>1 DEF Items, CandidateA
  <2>3. PairOf(n + 1) = PairOf(n) /\ JudgeOf(n + 1) = JudgeOf(n)
    BY <1>1, <1>0, <2>2
  <2>4. QED
    BY <1>2, <2>2, <2>3
<1>3. CASE ~CandidateA(n)
  <2>1. n = 2 * ((n - 1) \div 2) + 2 /\ (n - 1) \div 2 \in Nat
    BY <1>0, <1>3, HalfOfItem
  <2>2. n - 1 \in Items /\ CandidateA(n - 1) /\ (n - 2) \div 2 = (n - 1) \div 2
    BY <1>0, <2>1 DEF Items, CandidateA
  <2>3. PairOf(n - 1) = PairOf(n) /\ JudgeOf(n - 1) = JudgeOf(n)
    <3>1. (n - 1) - 1 = n - 2
      BY <1>0
    <3>2. QED
      BY <1>1, <2>2, <3>1
  <2>4. QED
    BY <1>3, <2>2, <2>3
<1>4. QED
  BY <1>2, <1>3

\* So the two items of a (pair, judge) are found by Item.
LEMMA ItemOf ==
  ASSUME NEW n \in Items
  PROVE  Item(PairOf(n), JudgeOf(n), CandidateA(n)) = n
<1>1. /\ n \in Items /\ PairOf(n) = PairOf(n) /\ JudgeOf(n) = JudgeOf(n)
      /\ CandidateA(n) = CandidateA(n)
  OBVIOUS
<1>2. \A m \in Items : PairOf(m) = PairOf(n) /\ JudgeOf(m) = JudgeOf(n)
                         /\ CandidateA(m) = CandidateA(n) => m = n
  BY ItemUnique
<1>3. QED
  BY <1>1, <1>2 DEF Item

\* Every (pair, judge) has an item of the second ordering.
LEMMA ItemExists ==
  ASSUME NEW p \in 1..Pairs, NEW j \in 1..Judges
  PROVE  \E n \in Items : PairOf(n) = p /\ JudgeOf(n) = j /\ ~CandidateA(n)
<1> DEFINE h == Judges * (p - 1) + (j - 1)
           n == 2 * h + 2
<1>0. Judges \in Nat \ {0} /\ Pairs \in Nat \ {0} /\ p - 1 \in Nat /\ j - 1 \in 0..(Judges - 1)
  BY JudgeAssumption
<1>1. Judges * (p - 1) \in Nat /\ h \in Nat
  BY <1>0
<1>2. h < Judges * Pairs
  <2>1. Judges * p <= Judges * Pairs
    BY <1>0, ProductMonotone
  <2>2. Judges * p = Judges * (p - 1) + Judges
    BY <1>0
  <2>3. Judges * Pairs \in Nat
    BY <1>0
  <2>4. QED
    BY <1>0, <1>1, <2>1, <2>2, <2>3
<1> HIDE DEF h
<1>3. n \in Items /\ ~CandidateA(n) /\ (n - 1) \div 2 = h
  <2>1. 2 * Judges * Pairs = 2 * (Judges * Pairs) /\ Judges * Pairs \in Nat
    BY <1>0
  <2>2. QED
    BY <1>1, <1>2, <2>1 DEF Items, CandidateA
<1> HIDE DEF n
<1>4. /\ PairOf(n) - 1 \in Nat /\ JudgeOf(n) - 1 \in 0..(Judges - 1)
      /\ h = Judges * (PairOf(n) - 1) + (JudgeOf(n) - 1)
  BY <1>0, <1>3, ItemShape
<1> DEFINE q(i) == PairOf(i) - 1
           r(i) == JudgeOf(i) - 1
           s == p - 1
           t == j - 1
<1>5. /\ q(n) \in Nat /\ r(n) \in 0..(Judges - 1) /\ s \in Nat /\ t \in 0..(Judges - 1)
      /\ Judges * q(n) + r(n) = Judges * s + t
  BY <1>0, <1>4 DEF h
<1> HIDE DEF q, r, s, t
<1>6. q(n) = s /\ r(n) = t
  BY <1>0, <1>5, DivModUnique
<1>7. PairOf(n) \in Int /\ JudgeOf(n) \in Int
  BY <1>3, ItemShape
<1>8. PairOf(n) = p /\ JudgeOf(n) = j
  BY <1>6, <1>7 DEF q, r, s, t
<1>9. QED
  BY <1>3, <1>8

-----------------------------------------------------------------------------
(* The rules of the ensemble. *)

\* An answer that parses, seen from any position, is an outcome.
LEMMA ParsedOutcome ==
  ASSUME NEW n, NEW answer
  PROVE  Parsed(n, answer) \in Outcome
BY DEF Parsed, MapPositionVerdict, Outcome, NotWorse, Worse

\* An answer that does not parse is no judgment, and no text is neither.
LEMMA NotAnswers ==
  /\ Garbage \notin Judgment
  /\ NoText \notin Judgment \cup {Garbage}
BY DEF Garbage, Judgment, NoText

\* What two orderings agree on is an outcome only if both are.
LEMMA ReconcileOutcome ==
  ASSUME NEW l, NEW r
  PROVE  /\ Reconcile(l, r) \in Vote
         /\ Reconcile(l, r) \in Outcome => l \in Outcome /\ r \in Outcome
<1>1. CASE {l, r} = {"candidate_better"}
  BY <1>1 DEF Reconcile, Agreed, Outcome, NotWorse, Worse, Abstain, Vote
<1>2. CASE {l, r} = {"worse_critical"}
  BY <1>2 DEF Reconcile, Agreed, Outcome, NotWorse, Worse, Abstain, Vote
<1>3. CASE {l, r} \subseteq NotWorse /\ {l, r} # {"candidate_better"}
  BY <1>3 DEF Reconcile, Agreed, Outcome, NotWorse, Worse, Abstain, Vote
<1>4. CASE {l, r} \subseteq Worse /\ "worse_minor" \in {l, r}
  BY <1>4 DEF Reconcile, Agreed, Outcome, NotWorse, Worse, Abstain, Vote
<1>5. CASE /\ {l, r} # {"candidate_better"} /\ {l, r} # {"worse_critical"}
           /\ ~({l, r} \subseteq NotWorse /\ {l, r} # {"candidate_better"})
           /\ ~({l, r} \subseteq Worse /\ "worse_minor" \in {l, r})
  <2>1. Reconcile(l, r) = Abstain
    BY <1>5 DEF Reconcile, Agreed
  <2>2. QED
    BY <2>1 DEF Abstain, Vote, Outcome, NotWorse, Worse
<1>6. QED
  BY <1>1, <1>2, <1>3, <1>4, <1>5

\* A judge with a failed ordering abstains; otherwise its vote is what the two
\* orderings agree on.
LEMMA CombineVote ==
  ASSUME NEW l, NEW r
  PROVE  /\ Combine(l, r) \in Vote
         /\ Combine(l, r) \in Outcome =>
              l \in Outcome /\ r \in Outcome /\ Combine(l, r) = Reconcile(l, r)
BY ReconcileOutcome DEF Combine, Vote, Abstain, Outcome, NotWorse, Worse

-----------------------------------------------------------------------------
(* The inductive invariant. *)

\* The call table: a done row has a text, second attempts are justified, the
\* call in flight is not done, and the process is at a second attempt only
\* after a first one that does not parse.
TableInv ==
  /\ \A c \in Calls : Table!IsDone(c) <=> text[c] # NoText
  /\ SecondAttemptJustified
  /\ main = "calling" => ~Table!IsDone(Call)
  /\ main \in Live /\ attempt = 1 =>
       Table!IsDone(<<item, 0>>) /\ text[<<item, 0>>] = Garbage

\* The result kept of the first ordering is what the table says of it.
LeftInv == left \in Outcome => ~CandidateA(item) /\ Banked(item - 1) = left

FollowsTable(v) ==
  \A n \in Items : ~CandidateA(n) /\ v[PairOf(n)][JudgeOf(n)] \in Outcome =>
    /\ Banked(n - 1) \in Outcome
    /\ Banked(n) \in Outcome
    /\ v[PairOf(n)][JudgeOf(n)] = Reconcile(Banked(n - 1), Banked(n))

NoPending(v) == \A p \in 1..Pairs, j \in 1..Judges : v[p][j] \in Vote

\* The items before the current one have voted; judgments are written when all have.
ProgressInv ==
  /\ main \in Live => \A n \in Items :
       ~CandidateA(n) /\ n < item => votes[PairOf(n)][JudgeOf(n)] \in Vote
  /\ main = "writing" => NoPending(votes)
  /\ judgments = NoVotes \/ NoPending(judgments)

IInv ==
  /\ TypeOK
  /\ TableInv
  /\ LeftInv
  /\ FollowsTable(votes) /\ FollowsTable(judgments)
  /\ ProgressInv

\* The empty table satisfies the invariant.
LEMMA InitIInv == Init => IInv
<1> SUFFICES ASSUME Init PROVE IInv
  OBVIOUS
<1>0. Judges \in Nat \ {0} /\ Pairs \in Nat \ {0} /\ MaxAttempts \in Nat /\ MaxFaults \in Nat
  BY JudgeAssumption
<1>1. 1 \in Items /\ CandidateA(1)
  <2>1. Judges * Pairs \in Nat \ {0} /\ 2 * Judges * Pairs = 2 * (Judges * Pairs)
    BY <1>0
  <2>2. QED
    BY <2>1 DEF Items, CandidateA
<1>2. NoVotes \in [1..Pairs -> [1..Judges -> Vote \cup {"pending"}]]
  BY DEF NoVotes
<1>3. Table!StoreTypeOK
  BY DEF Init, Table!StoreInit, Table!StoreTypeOK, Table!Row
<1>4. TypeOK
  BY <1>0, <1>1, <1>2, <1>3 DEF Init, TypeOK, Live, Outcome
<1>5. TableInv
  BY DEF Init, TableInv, Table!StoreInit, Table!IsDone, SecondAttemptJustified, Calls, Live
<1>6. "pending" \notin Outcome
  BY DEF Outcome, NotWorse, Worse
<1>7. FollowsTable(NoVotes)
  BY <1>6, ItemShape DEF FollowsTable, NoVotes
<1>8. QED
  BY <1>4, <1>5, <1>6, <1>7 DEF Init, IInv, LeftInv, ProgressInv, Live

-----------------------------------------------------------------------------
(* The steps. *)

\* What the table says of an item, once it says an outcome, is final.
BankedStable == \A n \in Items : Banked(n) \in Outcome => Banked(n)' = Banked(n)

\* What a step owes the invariant beside the call table.
Bookkeeping ==
  /\ item' \in Items /\ tries' = 0
  /\ main' \in {"lookup", "writing"}
  /\ left' \in Outcome \cup Failure \cup {"pending"}
  /\ votes' \in [1..Pairs -> [1..Judges -> Vote \cup {"pending"}]]
  /\ LeftInv' /\ FollowsTable(votes)' /\ FollowsTable(judgments)'
  /\ ProgressInv'

\* An item concludes: whatever the state of the table, the votes keep following
\* it, if the result is what it says of the item.
LEMMA Concludes ==
  ASSUME IInv, main \in Live, NEW n \in Items, n = item,
         NEW result \in Outcome \cup Failure, Conclude(result), UNCHANGED judgments,
         BankedStable, result \in Outcome => Banked(n)' = result
  PROVE  Bookkeeping /\ attempt' = 0
<1> DEFINE V == [1..Pairs -> [1..Judges -> Vote \cup {"pending"}]]
           p == PairOf(n)
           j == JudgeOf(n)
<1>0. Judges \in Nat \ {0} /\ Pairs \in Nat \ {0} /\ n \in Nat
  BY JudgeAssumption DEF Items
<1>1. /\ attempt' = 0 /\ tries' = 0
      /\ \/ n + 1 \in Items /\ item' = n + 1 /\ main' = "lookup"
         \/ n + 1 \notin Items /\ item' = n /\ main' = "writing"
  BY DEF Conclude
<1>2. \/ CandidateA(n) /\ left' = result /\ votes' = votes
      \/ /\ ~CandidateA(n) /\ left' = "pending"
         /\ votes' = [votes EXCEPT ![p][j] = Combine(left, result)]
  BY DEF Conclude
<1>3. "pending" \notin Outcome /\ "pending" \notin Failure /\ "pending" \notin Vote
  BY DEF Outcome, NotWorse, Worse, Failure, Vote, Abstain
<1>4. votes \in V /\ p \in 1..Pairs /\ j \in 1..Judges
  BY ItemShape DEF IInv, TypeOK
<1>5. Combine(left, result) \in Vote
  BY CombineVote
<1>6. /\ votes' \in V
      /\ ~CandidateA(n) => votes'[p][j] = Combine(left, result)
      /\ \A a \in 1..Pairs, b \in 1..Judges :
           CandidateA(n) \/ a # p \/ b # j => votes'[a][b] = votes[a][b]
  <2>1. CASE CandidateA(n) /\ votes' = votes
    BY <1>4, <2>1
  <2>2. CASE ~CandidateA(n) /\ votes' = [votes EXCEPT ![p][j] = Combine(left, result)]
    <3> DEFINE row == [votes[p] EXCEPT ![j] = Combine(left, result)]
    <3>1. votes' = [votes EXCEPT ![p] = row]
      BY <2>2
    <3>2. row \in [1..Judges -> Vote \cup {"pending"}]
      BY <1>4, <1>5
    <3>3. row[j] = Combine(left, result) /\ \A b \in 1..Judges : b # j => row[b] = votes[p][b]
      BY <1>4
    <3> HIDE DEF row
    <3>4. votes' \in V /\ votes'[p] = row /\ \A a \in 1..Pairs : a # p => votes'[a] = votes[a]
      BY <1>4, <3>1, <3>2
    <3>5. QED
      BY <2>2, <3>3, <3>4
  <2>3. QED
    BY <1>2, <2>1, <2>2
<1>7. LeftInv'
  <2>1. CASE CandidateA(n) /\ left' = result
    <3>1. item' = n + 1 /\ ~CandidateA(n + 1) /\ (n + 1) - 1 = n
      BY <1>0, <1>1, <2>1, Orderings
    <3>2. left' \in Outcome => Banked(n)' = left'
      BY <2>1
    <3>3. QED
      BY <3>1, <3>2 DEF LeftInv, Banked, Table!IsDone, CandidateA
  <2>2. CASE left' = "pending"
    BY <1>3, <2>2 DEF LeftInv
  <2>3. QED
    BY <1>2, <2>1, <2>2
<1>8. FollowsTable(votes)'
  <2> SUFFICES ASSUME NEW m \in Items, ~CandidateA(m), votes'[PairOf(m)][JudgeOf(m)] \in Outcome
               PROVE  /\ Banked(m - 1)' \in Outcome
                      /\ Banked(m)' \in Outcome
                      /\ votes'[PairOf(m)][JudgeOf(m)] = Reconcile(Banked(m - 1)', Banked(m)')
    BY DEF FollowsTable
  <2>1. m - 1 \in Items /\ PairOf(m) \in 1..Pairs /\ JudgeOf(m) \in 1..Judges
    BY Orderings, ItemShape
  <2>2. CASE ~CandidateA(n) /\ m = n
    <3>1. votes'[p][j] = Combine(left, result)
      BY <1>6, <2>2
    <3>2. /\ left \in Outcome /\ result \in Outcome
          /\ votes'[p][j] = Reconcile(left, result)
      BY <2>2, <3>1, CombineVote
    <3>3. Banked(n - 1) = left
      BY <3>2 DEF IInv, LeftInv
    <3>4. Banked(n - 1)' = left /\ Banked(n)' = result
      BY <2>1, <2>2, <3>2, <3>3 DEF BankedStable
    <3>5. QED
      BY <2>2, <3>2, <3>4
  <2>3. CASE ~(~CandidateA(n) /\ m = n)
    <3>1. votes'[PairOf(m)][JudgeOf(m)] = votes[PairOf(m)][JudgeOf(m)]
      <4>1. ~CandidateA(n) => PairOf(m) # p \/ JudgeOf(m) # j
        BY <2>3, ItemUnique DEF CandidateA
      <4>2. QED
        BY <1>6, <2>1, <4>1
    <3>2. /\ Banked(m - 1) \in Outcome /\ Banked(m) \in Outcome
          /\ votes[PairOf(m)][JudgeOf(m)] = Reconcile(Banked(m - 1), Banked(m))
      BY <3>1 DEF IInv, FollowsTable
    <3>3. Banked(m - 1)' = Banked(m - 1) /\ Banked(m)' = Banked(m)
      BY <2>1, <3>2 DEF BankedStable
    <3>4. QED
      BY <3>1, <3>2, <3>3
  <2>4. QED
    BY <2>2, <2>3
<1>9. ASSUME NEW m \in Items, ~CandidateA(m), m <= n
       PROVE  votes'[PairOf(m)][JudgeOf(m)] \in Vote
  <2>1. PairOf(m) \in 1..Pairs /\ JudgeOf(m) \in 1..Judges /\ m \in Nat
    BY ItemShape DEF Items
  <2>2. CASE m = n
    BY <1>5, <1>6, <1>9, <2>2
  <2>3. CASE m < n
    <3>1. votes[PairOf(m)][JudgeOf(m)] \in Vote
      BY <1>9, <2>3 DEF IInv, ProgressInv
    <3>2. QED
      BY <1>4, <1>5, <1>6, <2>1, <3>1
  <2>4. QED
    BY <1>0, <1>9, <2>1, <2>2, <2>3
<1>10. ASSUME n + 1 \notin Items PROVE NoPending(votes')
  <2>1. \A m \in Items : m <= n
    BY <1>0, <1>10 DEF Items
  <2>2. QED
    BY <1>9, <2>1, ItemExists DEF NoPending
<1>11. FollowsTable(judgments)'
  <2> SUFFICES ASSUME NEW m \in Items, ~CandidateA(m),
                      judgments[PairOf(m)][JudgeOf(m)] \in Outcome
               PROVE  /\ Banked(m - 1)' \in Outcome
                      /\ Banked(m)' \in Outcome
                      /\ judgments[PairOf(m)][JudgeOf(m)] = Reconcile(Banked(m - 1)', Banked(m)')
    BY DEF FollowsTable
  <2>1. /\ Banked(m - 1) \in Outcome /\ Banked(m) \in Outcome
        /\ judgments[PairOf(m)][JudgeOf(m)] = Reconcile(Banked(m - 1), Banked(m))
    BY DEF IInv, FollowsTable
  <2>2. Banked(m - 1)' = Banked(m - 1) /\ Banked(m)' = Banked(m)
    BY <2>1, Orderings DEF BankedStable
  <2>3. QED
    BY <2>1, <2>2
<1>12. ProgressInv'
  <2>1. CASE n + 1 \in Items
    <3>1. item' = n + 1 /\ main' = "lookup"
      BY <1>1, <2>1
    <3>2. \A m \in Items : m < n + 1 => m <= n
      BY <1>0 DEF Items
    <3>3. QED
      BY <1>9, <3>1, <3>2 DEF ProgressInv, IInv, NoPending
  <2>2. CASE n + 1 \notin Items
    <3>1. item' = n /\ main' = "writing"
      BY <1>1, <2>2
    <3>2. \A m \in Items : m < n => m <= n
      BY <1>0 DEF Items
    <3>3. QED
      BY <1>9, <1>10, <2>2, <3>1, <3>2 DEF ProgressInv, IInv, NoPending
  <2>3. QED
    BY <2>1, <2>2
<1>13. /\ item' \in Items /\ main' \in {"lookup", "writing"}
       /\ left' \in Outcome \cup Failure \cup {"pending"}
  BY <1>1, <1>2
<1>14. QED
  BY <1>1, <1>6, <1>7, <1>8, <1>11, <1>12, <1>13 DEF Bookkeeping

\* An outcome rests on rows that are done, and only a call that is not done is
\* written.
LEMMA OutcomesAreFinal ==
  ASSUME IInv,
         \/ UNCHANGED <<rows, text>>
         \/ /\ main = "calling"
            /\ Table!WriteDone(Call, 1)
            /\ \E answer \in Answers : text' = [text EXCEPT ![Call] = answer]
  PROVE  BankedStable
<1> SUFFICES ASSUME NEW n \in Items, Banked(n) \in Outcome
             PROVE  Banked(n)' = Banked(n)
  BY DEF BankedStable
<1>1. CASE UNCHANGED <<rows, text>>
  BY <1>1 DEF Banked, Table!IsDone
<1>2. CASE /\ main = "calling"
           /\ Table!WriteDone(Call, 1)
           /\ \E answer \in Answers : text' = [text EXCEPT ![Call] = answer]
  <2>1. ~Table!IsDone(Call)
    BY <1>2 DEF IInv, TableInv
  <2>2. <<n, 0>> \in Calls /\ <<n, 1>> \in Calls
    BY DEF Calls
  <2>3. ASSUME NEW c \in Calls, Table!IsDone(c)
        PROVE  Table!IsDone(c)' /\ text'[c] = text[c]
    <3>1. c # Call
      BY <2>1, <2>3
    <3>2. rows'[c] = rows[c] /\ text'[c] = text[c]
      BY <1>2, <3>1 DEF Table!WriteDone, Table!PutRow, IInv, TypeOK, Table!StoreTypeOK
    <3>3. QED
      BY <2>3, <3>2 DEF Table!IsDone
  <2>4. "missing" \notin Outcome
    BY DEF Outcome, NotWorse, Worse
  <2>5. CASE Table!IsDone(<<n, 0>>) /\ text[<<n, 0>>] # Garbage
    <3>1. Banked(n) = Parsed(n, text[<<n, 0>>])
      BY <2>5 DEF Banked
    <3>2. Table!IsDone(<<n, 0>>)' /\ text'[<<n, 0>>] = text[<<n, 0>>]
      BY <2>2, <2>3, <2>5
    <3>3. Banked(n)' = Parsed(n, text'[<<n, 0>>])
      BY <2>5, <3>2 DEF Banked, Parsed, CandidateA
    <3>4. QED
      BY <3>1, <3>2, <3>3
  <2>6. CASE Table!IsDone(<<n, 0>>) /\ text[<<n, 0>>] = Garbage
    <3>1. Banked(n) = IF Table!IsDone(<<n, 1>>) /\ text[<<n, 1>>] # Garbage
                        THEN Parsed(n, text[<<n, 1>>]) ELSE "missing"
      BY <2>6 DEF Banked
    <3>2. /\ Table!IsDone(<<n, 1>>) /\ text[<<n, 1>>] # Garbage
          /\ Banked(n) = Parsed(n, text[<<n, 1>>])
      BY <2>4, <3>1
    <3>3. /\ Table!IsDone(<<n, 0>>)' /\ text'[<<n, 0>>] = Garbage
          /\ Table!IsDone(<<n, 1>>)' /\ text'[<<n, 1>>] = text[<<n, 1>>]
      BY <2>2, <2>3, <2>6, <3>2
    <3>4. Banked(n)' = Parsed(n, text'[<<n, 1>>])
      BY <3>2, <3>3 DEF Banked, Parsed, CandidateA
    <3>5. QED
      BY <3>2, <3>3, <3>4
  <2>7. CASE ~Table!IsDone(<<n, 0>>)
    <3>1. Banked(n) = "missing"
      BY <2>7 DEF Banked
    <3>2. QED
      BY <2>4, <3>1
  <2>8. QED
    BY <2>5, <2>6, <2>7
<1>3. QED
  BY <1>1, <1>2

\* What is kept of earlier answers stays what the table says of them.
LEMMA LeftStays ==
  ASSUME IInv, BankedStable, UNCHANGED <<item, left>>
  PROVE  LeftInv'
<1>1. PICK n \in Items : n = item
  BY DEF IInv, TypeOK
<1>2. left \in Outcome => n - 1 \in Items /\ ~CandidateA(n) /\ Banked(n - 1) = left
  BY <1>1, Orderings DEF IInv, LeftInv
<1>3. left \in Outcome => Banked(n - 1)' = left
  BY <1>2 DEF BankedStable
<1>4. QED
  BY <1>1, <1>2, <1>3 DEF LeftInv, Banked, Parsed, CandidateA, Table!IsDone

\* Votes that follow the table follow it after a step that keeps its outcomes.
LEMMA VotesStay ==
  ASSUME BankedStable, NEW v, FollowsTable(v)
  PROVE  \A n \in Items : ~CandidateA(n) /\ v[PairOf(n)][JudgeOf(n)] \in Outcome =>
           /\ Banked(n - 1)' \in Outcome
           /\ Banked(n)' \in Outcome
           /\ v[PairOf(n)][JudgeOf(n)] = Reconcile(Banked(n - 1)', Banked(n)')
BY Orderings DEF FollowsTable, BankedStable

\* An answer that the table holds is read.
LEMMA Digests ==
  ASSUME IInv, main \in Live, NEW n \in Items, n = item, NEW k \in {0, 1}, k = attempt,
         NEW answer \in Answers, Digest(answer), UNCHANGED judgments, BankedStable,
         Table!IsDone(<<n, k>>)', text'[<<n, k>>] = answer,
         k = 1 => Table!IsDone(<<n, 0>>)' /\ text'[<<n, 0>>] = Garbage
  PROVE  /\ Bookkeeping
         /\ \/ attempt' = 0
            \/ attempt' = 1 /\ item' = n /\ k = 0 /\ answer = Garbage
<1>1. CASE answer # Garbage
  <2>1. Conclude(Parsed(n, answer))
    BY <1>1 DEF Digest
  <2>2. Banked(n)' = Parsed(n, answer)
    BY <1>1 DEF Banked, Parsed, CandidateA
  <2>3. QED
    BY <2>1, <2>2, ParsedOutcome, Concludes
<1>2. CASE answer = Garbage /\ k = 1
  <2>1. Conclude("parse_failure")
    BY <1>2 DEF Digest
  <2>2. "parse_failure" \in Failure /\ "parse_failure" \notin Outcome
    BY DEF Failure, Outcome, NotWorse, Worse
  <2>3. QED
    BY <2>1, <2>2, Concludes
<1>3. CASE answer = Garbage /\ k = 0
  <2>1. /\ attempt' = 1 /\ tries' = 0 /\ main' = "lookup"
        /\ UNCHANGED <<item, left, votes>>
    BY <1>3 DEF Digest
  <2>2. LeftInv'
    BY <2>1, LeftStays
  <2>3. FollowsTable(votes)' /\ FollowsTable(judgments)'
    BY <2>1, VotesStay DEF IInv, FollowsTable
  <2>4. QED
    BY <1>3, <2>1, <2>2, <2>3 DEF Bookkeeping, IInv, TypeOK, ProgressInv, Live
<1>4. QED
  BY <1>1, <1>2, <1>3

\* A step that leaves the table and the text of the answers alone keeps what
\* TableInv says of them.
LEMMA SameTable ==
  ASSUME IInv, UNCHANGED <<rows, text>>,
         main' = "calling" => ~Table!IsDone(<<item', attempt'>>),
         main' \in Live /\ attempt' = 1 =>
           Table!IsDone(<<item', 0>>) /\ text[<<item', 0>>] = Garbage
  PROVE  Table!StoreTypeOK' /\ text' \in [Calls -> Answers \cup {NoText}] /\ TableInv'
BY DEF IInv, TypeOK, TableInv, Table!StoreTypeOK, Table!IsDone, SecondAttemptJustified, Call

\* A new process starts with an empty memory.
LEMMA FreshMemory ==
  ASSUME IInv, FreshRun, UNCHANGED <<rows, text, judgments>>,
         main' \in {"lookup", "idle"}, faults' \in 0..MaxFaults
  PROVE  IInv'
<1>0. Judges \in Nat \ {0} /\ Pairs \in Nat \ {0} /\ MaxAttempts \in Nat
  BY JudgeAssumption
<1>1. 1 \in Items /\ \A n \in Items : ~(n < 1)
  <2>1. Judges * Pairs \in Nat \ {0} /\ 2 * Judges * Pairs = 2 * (Judges * Pairs)
    BY <1>0
  <2>2. QED
    BY <2>1 DEF Items
<1>2. "pending" \notin Outcome
  BY DEF Outcome, NotWorse, Worse
<1>3. Table!StoreTypeOK' /\ text' \in [Calls -> Answers \cup {NoText}] /\ TableInv'
  BY SameTable DEF FreshRun
<1>4. votes' = NoVotes /\ NoVotes \in [1..Pairs -> [1..Judges -> Vote \cup {"pending"}]]
  BY DEF FreshRun, NoVotes
<1>5. TypeOK'
  BY <1>0, <1>1, <1>3, <1>4 DEF FreshRun, TypeOK, IInv, Live
<1>6. FollowsTable(votes)'
  BY <1>2, <1>4, ItemShape DEF FollowsTable, NoVotes
<1>7. FollowsTable(judgments)'
  BY DEF IInv, FollowsTable, Banked, Parsed, Table!IsDone
<1>8. QED
  BY <1>1, <1>2, <1>3, <1>5, <1>6, <1>7 DEF FreshRun, IInv, LeftInv, ProgressInv, NoPending

\* A step that moves nothing but the place of the process, its tries and the
\* count of faults.
LEMMA SameMemory ==
  ASSUME IInv, UNCHANGED <<rows, text, item, attempt, left, votes, dispatched, judgments>>,
         main' \in {main, "raised"}, tries' \in 0..MaxAttempts, faults' \in 0..MaxFaults
  PROVE  IInv'
<1>1. Table!StoreTypeOK' /\ text' \in [Calls -> Answers \cup {NoText}] /\ TableInv'
  BY SameTable DEF IInv, TableInv, Live, Call
<1>2. TypeOK'
  BY <1>1 DEF TypeOK, IInv, Live
<1>3. QED
  BY <1>1, <1>2 DEF IInv, LeftInv, FollowsTable, Banked, Parsed, CandidateA, Table!IsDone,
                    ProgressInv, NoPending, Live

\* get_done finds the answer and it is read, or the judge is going to be asked.
LEMMA LookupKeeps == ASSUME IInv, Lookup PROVE IInv'
<1>0. item \in Items /\ attempt \in {0, 1} /\ Call \in Calls /\ main \in Live
      /\ MaxAttempts \in Nat \ {0}
  BY JudgeAssumption DEF IInv, TypeOK, Lookup, Call, Calls, Live
<1>1. UNCHANGED <<rows, text, dispatched, judgments, faults>>
  BY DEF Lookup
<1>2. CASE Table!IsDone(Call) /\ Digest(text[Call])
  <2>1. text[Call] \in Answers
    BY <1>0, <1>2 DEF IInv, TableInv, TypeOK
  <2>2. BankedStable
    BY <1>1, OutcomesAreFinal
  <2>3. /\ rows[Call].status = "done"
        /\ attempt = 1 => rows[<<item, 0>>].status = "done" /\ text[<<item, 0>>] = Garbage
    BY <1>0, <1>2 DEF IInv, TableInv, Table!IsDone
  <2> DEFINE n == item
             k == attempt
             answer == text[Call]
  <2>4. /\ n \in Items /\ n = item /\ k \in {0, 1} /\ k = attempt
        /\ answer \in Answers /\ Digest(answer)
        /\ rows'[<<n, k>>].status = "done" /\ text'[<<n, k>>] = answer
        /\ k = 1 => rows'[<<n, 0>>].status = "done" /\ text'[<<n, 0>>] = Garbage
    BY <1>0, <1>1, <1>2, <2>1, <2>3 DEF Call
  <2>5. /\ Bookkeeping
        /\ \/ attempt' = 0
           \/ attempt' = 1 /\ item' = n /\ k = 0 /\ answer = Garbage
    <3> HIDE DEF n, k, answer
    <3>1. QED
      BY <1>0, <1>1, <2>2, <2>4, Digests DEF Table!IsDone
  <2>6. Table!StoreTypeOK' /\ text' \in [Calls -> Answers \cup {NoText}] /\ TableInv'
    BY <1>0, <1>1, <1>2, <2>5, SameTable DEF Bookkeeping, Call
  <2>7. TypeOK'
    BY <1>0, <1>1, <2>5, <2>6 DEF TypeOK, IInv, Bookkeeping, Live
  <2>8. QED
    BY <2>5, <2>6, <2>7 DEF Bookkeeping, IInv
<1>3. CASE /\ ~Table!IsDone(Call) /\ main' = "calling" /\ tries' = 1
           /\ UNCHANGED <<item, attempt, left, votes>>
  <2>1. Table!StoreTypeOK' /\ text' \in [Calls -> Answers \cup {NoText}] /\ TableInv'
    BY <1>0, <1>1, <1>3, SameTable DEF Call, IInv, TableInv
  <2>2. TypeOK'
    BY <1>0, <1>1, <1>3, <2>1 DEF TypeOK, IInv, Live
  <2>3. QED
    BY <1>0, <1>1, <1>3, <2>1, <2>2
       DEF IInv, LeftInv, FollowsTable, Banked, Parsed, CandidateA, Table!IsDone, ProgressInv,
           NoPending
<1>4. QED
  BY <1>2, <1>3 DEF Lookup

\* A call that fails for good concludes its item with an error, and leaves the
\* table as it was.
LEMMA GiveUpKeeps == ASSUME IInv, GiveUp PROVE IInv'
<1>0. item \in Items /\ main \in Live /\ MaxAttempts \in Nat /\ faults' \in 0..MaxFaults
  BY JudgeAssumption DEF IInv, TypeOK, GiveUp, Live, Spend
<1>1. UNCHANGED <<rows, text, dispatched, judgments>> /\ Conclude("judge_error")
  BY DEF GiveUp
<1>2. "judge_error" \in Failure /\ "judge_error" \notin Outcome
  BY DEF Failure, Outcome, NotWorse, Worse
<1>3. BankedStable
  BY <1>1, OutcomesAreFinal
<1>4. Bookkeeping /\ attempt' = 0
  BY <1>0, <1>1, <1>2, <1>3, Concludes
<1>5. Table!StoreTypeOK' /\ text' \in [Calls -> Answers \cup {NoText}] /\ TableInv'
  BY <1>1, <1>4, SameTable DEF Bookkeeping
<1>6. TypeOK'
  BY <1>0, <1>1, <1>4, <1>5 DEF TypeOK, IInv, Bookkeeping, Live
<1>7. QED
  BY <1>4, <1>5, <1>6 DEF Bookkeeping, IInv

\* An answer is banked, and read unless the run is interrupted: the only step
\* that writes to the table.
LEMMA AnswerKeeps == ASSUME IInv, NEW answer \in Answers, Answer(answer) PROVE IInv'
<1> DEFINE n == item
           k == attempt
<1>0. /\ n \in Items /\ k \in {0, 1} /\ <<n, k>> \in Calls /\ main = "calling" /\ main \in Live
      /\ MaxAttempts \in Nat /\ dispatched \in Nat
      /\ rows \in [Calls -> Table!Row] /\ text \in [Calls -> Answers \cup {NoText}]
      /\ ~Table!IsDone(<<n, k>>) /\ Call = <<n, k>>
  BY JudgeAssumption DEF IInv, TypeOK, TableInv, Table!StoreTypeOK, Answer, Call, Calls, Live
<1>1. /\ rows' = [rows EXCEPT ![<<n, k>>] = [status |-> "done", cost |-> 1]]
      /\ text' = [text EXCEPT ![<<n, k>>] = answer]
      /\ dispatched' = dispatched + 1 /\ faults' = faults /\ judgments' = judgments
  BY <1>0 DEF Answer, Table!WriteDone, Table!PutRow
<1>2. \/ /\ main' = "raised"
         /\ UNCHANGED <<item, attempt, tries, left, votes>>
      \/ Digest(answer)
  BY DEF Answer
<1> HIDE DEF n, k
<1>3. BankedStable
  <2>1. Table!WriteDone(Call, 1) /\ text' = [text EXCEPT ![Call] = answer]
    BY DEF Answer
  <2>2. QED
    BY <1>0, <2>1, OutcomesAreFinal
<1>4. Table!StoreTypeOK'
  BY <1>0, <1>1 DEF Table!StoreTypeOK, Table!Row
<1>5. text' \in [Calls -> Answers \cup {NoText}]
  BY <1>0, <1>1
<1>6. NoText \notin Answers
  BY NotAnswers, JudgeAssumption
<1>7. /\ rows'[<<n, k>>].status = "done" /\ text'[<<n, k>>] = answer
      /\ \A c \in Calls : c # <<n, k>> => rows'[c] = rows[c] /\ text'[c] = text[c]
  BY <1>0, <1>1
<1>8. \A c \in Calls : Table!IsDone(c)' <=> text'[c] # NoText
  BY <1>0, <1>6, <1>7 DEF IInv, TableInv, Table!IsDone
<1>9. k = 1 => /\ rows[<<n, 0>>].status = "done" /\ text[<<n, 0>>] = Garbage
               /\ rows'[<<n, 0>>].status = "done" /\ text'[<<n, 0>>] = Garbage
  <2>1. k = 1 => rows[<<n, 0>>].status = "done" /\ text[<<n, 0>>] = Garbage
    BY <1>0 DEF IInv, TableInv, Table!IsDone, n, k
  <2>2. <<n, 0>> \in Calls /\ (k = 1 => <<n, 0>> # <<n, k>>)
    BY <1>0 DEF Calls
  <2>3. QED
    BY <1>7, <2>1, <2>2
<1>10. SecondAttemptJustified'
  <2> SUFFICES ASSUME NEW m \in Items, rows'[<<m, 1>>].status = "done"
               PROVE  rows'[<<m, 0>>].status = "done" /\ text'[<<m, 0>>] = Garbage
    BY DEF SecondAttemptJustified, Table!IsDone
  <2>1. <<m, 0>> \in Calls /\ <<m, 1>> \in Calls
    BY DEF Calls
  <2>2. CASE <<m, 1>> = <<n, k>>
    BY <1>9, <2>2
  <2>3. CASE <<m, 1>> # <<n, k>>
    <3>1. rows[<<m, 1>>].status = "done"
      BY <1>7, <2>1, <2>3
    <3>2. rows[<<m, 0>>].status = "done" /\ text[<<m, 0>>] = Garbage
      BY <3>1 DEF IInv, TableInv, SecondAttemptJustified, Table!IsDone
    <3>3. <<m, 0>> # <<n, k>>
      BY <1>0, <3>2 DEF Table!IsDone
    <3>4. QED
      BY <1>7, <2>1, <3>2, <3>3
  <2>4. QED
    BY <2>2, <2>3
<1>11. CASE /\ main' = "raised"
            /\ UNCHANGED <<item, attempt, tries, left, votes>>
  <2>1. TableInv'
    BY <1>8, <1>10, <1>11 DEF TableInv, Live, Table!IsDone
  <2>2. TypeOK'
    BY <1>0, <1>1, <1>4, <1>5, <1>11 DEF TypeOK, IInv, Live
  <2>3. LeftInv'
    BY <1>3, <1>11, LeftStays
  <2>4. FollowsTable(votes)' /\ FollowsTable(judgments)'
    BY <1>1, <1>3, <1>11, VotesStay DEF IInv, FollowsTable
  <2>5. ProgressInv'
    BY <1>1, <1>11 DEF IInv, ProgressInv, Live, NoPending
  <2>6. QED
    BY <2>1, <2>2, <2>3, <2>4, <2>5 DEF IInv
<1>12. CASE Digest(answer)
  <2>1. /\ Bookkeeping
        /\ \/ attempt' = 0
           \/ attempt' = 1 /\ item' = n /\ k = 0 /\ answer = Garbage
    <3>1. n = item /\ k = attempt
      BY DEF n, k
    <3>2. QED
      BY <1>0, <1>1, <1>3, <1>7, <1>9, <1>12, <3>1, Digests DEF Table!IsDone
  <2>2. TableInv'
    <3>1. attempt' = 1 => rows'[<<item', 0>>].status = "done" /\ text'[<<item', 0>>] = Garbage
      BY <1>7, <2>1
    <3>2. main' # "calling"
      BY <2>1 DEF Bookkeeping
    <3>3. QED
      BY <1>8, <1>10, <3>1, <3>2 DEF TableInv, Table!IsDone
  <2>3. TypeOK'
    BY <1>0, <1>1, <1>4, <1>5, <2>1 DEF TypeOK, IInv, Bookkeeping, Live
  <2>4. QED
    BY <2>1, <2>2, <2>3 DEF Bookkeeping, IInv
<1>13. QED
  BY <1>2, <1>11, <1>12

\* The votes in memory become the judgments when every judge has voted.
LEMMA WriteKeeps == ASSUME IInv, Write PROVE IInv'
<1>1. /\ main = "writing" /\ main' = "returned" /\ judgments' = votes
      /\ UNCHANGED <<rows, text, item, attempt, tries, left, votes, dispatched, faults>>
  BY DEF Write, memVars
<1>2. Table!StoreTypeOK' /\ text' \in [Calls -> Answers \cup {NoText}] /\ TableInv'
  BY <1>1, SameTable DEF Live
<1>3. TypeOK'
  BY <1>1, <1>2 DEF TypeOK, IInv, Live
<1>4. BankedStable
  BY <1>1, OutcomesAreFinal
<1>5. LeftInv'
  BY <1>1, <1>4, LeftStays
<1>6. FollowsTable(votes)' /\ FollowsTable(judgments)'
  BY <1>1, <1>4, VotesStay DEF IInv, FollowsTable
<1>7. ProgressInv'
  BY <1>1 DEF IInv, ProgressInv, NoPending, Live
<1>8. QED
  BY <1>2, <1>3, <1>5, <1>6, <1>7 DEF IInv

\* The invariant holds in every state that judging can be in, interrupted,
\* aborted, killed and resumed.
THEOREM JudgingInvariant == Spec => []IInv
<1>1. IInv /\ [Next]_vars => IInv'
  <2> SUFFICES ASSUME IInv, [Next]_vars PROVE IInv'
    OBVIOUS
  <2>0. MaxAttempts \in Nat \ {0} /\ MaxFaults \in Nat /\ faults \in 0..MaxFaults
        /\ tries \in 0..MaxAttempts
    BY JudgeAssumption DEF IInv, TypeOK
  <2>1. CASE Begin
    BY <2>0, <2>1, FreshMemory DEF Begin
  <2>2. CASE Lookup
    BY <2>2, LookupKeeps
  <2>3. ASSUME NEW answer \in Answers, Answer(answer) PROVE IInv'
    BY <2>3, AnswerKeeps
  <2>4. CASE TryAgain
    BY <2>0, <2>4, SameMemory DEF TryAgain
  <2>5. CASE GiveUp
    BY <2>5, GiveUpKeeps
  <2>6. CASE Abort
    BY <2>0, <2>6, SameMemory DEF Abort, memVars, Spend
  <2>7. CASE Crash
    BY <2>0, <2>7, FreshMemory DEF Crash, Spend
  <2>8. CASE Write
    BY <2>8, WriteKeeps
  <2>9. CASE UNCHANGED vars
    BY <2>0, <2>9, SameMemory DEF vars, memVars
  <2>10. QED
    BY <2>1, <2>2, <2>3, <2>4, <2>5, <2>6, <2>7, <2>8, <2>9 DEF Next, Step
<1>2. QED
  BY <1>1, InitIInv, PTL DEF Spec

\* Every variable keeps its type.
THEOREM TypeCorrect == Spec => []TypeOK
BY JudgingInvariant, PTL DEF IInv

\* A second attempt is in the table only after a first answer that does not parse.
THEOREM RetriesJustified == Spec => []SecondAttemptJustified
<1>1. IInv => SecondAttemptJustified
  BY DEF IInv, TableInv
<1>2. QED
  BY <1>1, JudgingInvariant, PTL

-----------------------------------------------------------------------------
(* What the invariant says of the judgments. *)

\* The items of a (pair, judge) in terms of Item.
LEMMA ItemsOfVote ==
  ASSUME NEW p \in 1..Pairs, NEW j \in 1..Judges
  PROVE  \E n \in Items : /\ PairOf(n) = p /\ JudgeOf(n) = j /\ ~CandidateA(n)
                          /\ n - 1 \in Items
                          /\ Item(p, j, FALSE) = n /\ Item(p, j, TRUE) = n - 1
<1>1. PICK n \in Items : PairOf(n) = p /\ JudgeOf(n) = j /\ ~CandidateA(n)
  BY ItemExists
<1>2. n - 1 \in Items /\ CandidateA(n - 1) /\ PairOf(n - 1) = p /\ JudgeOf(n - 1) = j
  BY <1>1, Orderings
<1>3. CandidateA(n) = FALSE /\ CandidateA(n - 1) = TRUE
  BY <1>1, <1>2 DEF CandidateA
<1>4. Item(p, j, FALSE) = n
  BY <1>1, <1>3, ItemOf
<1>5. Item(p, j, TRUE) = n - 1
  BY <1>2, <1>3, ItemOf
<1>6. QED
  BY <1>1, <1>2, <1>4, <1>5

\* Every vote of judgments.jsonl is derived from the two answers in the table.
LEMMA InvFollows == IInv => VotesFollowTable
<1> SUFFICES ASSUME IInv, NEW p \in 1..Pairs, NEW j \in 1..Judges, judgments[p][j] \in Outcome
             PROVE  LET l == Banked(Item(p, j, TRUE))
                        r == Banked(Item(p, j, FALSE))
                    IN l \in Outcome /\ r \in Outcome /\ judgments[p][j] = Reconcile(l, r)
  BY DEF VotesFollowTable
<1>1. PICK n \in Items : /\ PairOf(n) = p /\ JudgeOf(n) = j /\ ~CandidateA(n)
                         /\ Item(p, j, FALSE) = n /\ Item(p, j, TRUE) = n - 1
  BY ItemsOfVote
<1>2. /\ Banked(n - 1) \in Outcome /\ Banked(n) \in Outcome
      /\ judgments[p][j] = Reconcile(Banked(n - 1), Banked(n))
  BY <1>1 DEF IInv, FollowsTable
<1>3. QED
  BY <1>1, <1>2

\* No resumed, retried or failed call lends its result to another item.
THEOREM JudgmentsFollowTable == Spec => []VotesFollowTable
BY InvFollows, JudgingInvariant, PTL

\* Two orderings that prefer the same position are on both sides of the harm
\* boundary.
LEMMA OppositeOrderings ==
  ASSUME NEW a \in Judgment, NEW b \in Judgment, a.verdict = b.verdict, a.verdict # "equivalent",
         NEW m, NEW n, CandidateA(m), ~CandidateA(n)
  PROVE  Reconcile(Parsed(m, a), Parsed(n, b)) = Abstain
<1>1. a.verdict \in {"a_better", "b_better"}
  BY DEF Judgment
<1>2. \/ Parsed(m, a) = "candidate_better" /\ Parsed(n, b) \in Worse
      \/ Parsed(m, a) \in Worse /\ Parsed(n, b) = "candidate_better"
  BY <1>1 DEF Parsed, MapPositionVerdict, Worse
<1> DEFINE l == Parsed(m, a)
           r == Parsed(n, b)
<1>3. \/ l = "candidate_better" /\ r \in Worse
      \/ l \in Worse /\ r = "candidate_better"
  BY <1>2
<1> HIDE DEF l, r
<1>4. /\ {l, r} # {"candidate_better"} /\ {l, r} # {"worse_critical"}
      /\ ~({l, r} \subseteq NotWorse /\ {l, r} # {"candidate_better"})
      /\ ~({l, r} \subseteq Worse /\ "worse_minor" \in {l, r})
  BY <1>3 DEF NotWorse, Worse
<1>5. Reconcile(l, r) = Abstain
  BY <1>4 DEF Reconcile, Agreed
<1>6. QED
  BY <1>5 DEF l, r

\* A judge that prefers one position in both orderings cannot have a vote that is
\* the reconciliation of the two.
LEMMA InvUnbiased == IInv => PositionBiasAbstains
<1> SUFFICES ASSUME IInv, NEW p \in 1..Pairs, NEW j \in 1..Judges,
                    NEW a, a = text[<<Item(p, j, TRUE), 0>>],
                    NEW b, b = text[<<Item(p, j, FALSE), 0>>],
                    judgments[p][j] # "pending", a \in Judgment, b \in Judgment,
                    a.verdict = b.verdict, a.verdict # "equivalent",
                    judgments[p][j] # Abstain
             PROVE  FALSE
  BY DEF PositionBiasAbstains
<1>1. PICK n \in Items : /\ PairOf(n) = p /\ JudgeOf(n) = j /\ ~CandidateA(n) /\ n - 1 \in Items
                         /\ Item(p, j, FALSE) = n /\ Item(p, j, TRUE) = n - 1
  BY ItemsOfVote
<1>2. judgments[p][j] \in Outcome
  BY DEF IInv, TypeOK, Vote
<1>3. judgments[p][j] = Reconcile(Banked(n - 1), Banked(n))
  BY <1>1, <1>2 DEF IInv, FollowsTable
<1>4. <<n, 0>> \in Calls /\ <<n - 1, 0>> \in Calls /\ CandidateA(n - 1)
  BY <1>1, Orderings DEF Calls
<1>5. Banked(n) = Parsed(n, b) /\ Banked(n - 1) = Parsed(n - 1, a)
  BY <1>1, <1>4, NotAnswers DEF Banked, IInv, TableInv
<1>6. QED
  BY <1>1, <1>3, <1>4, <1>5, OppositeOrderings

\* A judge that prefers a position abstains, whatever happened to its calls.
THEOREM BiasAbstains == Spec => []PositionBiasAbstains
BY InvUnbiased, JudgingInvariant, PTL

-----------------------------------------------------------------------------
(* The panel. *)

\* Labels agree on an outcome only when all of them are on its side of the
\* harm boundary.
LEMMA AgreedSide ==
  ASSUME NEW labels \in SUBSET Outcome, Agreed(labels, "unresolved") # "unresolved"
  PROVE  \A label \in labels : label \in Worse <=> Agreed(labels, "unresolved") \in Worse
<1>1. CASE labels = {"candidate_better"}
  BY <1>1 DEF Agreed, Worse, NotWorse, Outcome
<1>2. CASE labels = {"worse_critical"}
  BY <1>2 DEF Agreed, Worse, NotWorse, Outcome
<1>3. CASE labels \subseteq NotWorse /\ labels # {"candidate_better"}
  BY <1>3 DEF Agreed, Worse, NotWorse, Outcome
<1>4. CASE labels \subseteq Worse /\ "worse_minor" \in labels
  BY <1>4 DEF Agreed, Worse, NotWorse, Outcome
<1>5. CASE /\ labels # {"candidate_better"} /\ labels # {"worse_critical"}
           /\ ~(labels \subseteq NotWorse /\ labels # {"candidate_better"})
           /\ ~(labels \subseteq Worse /\ "worse_minor" \in labels)
  BY <1>5 DEF Agreed
<1>6. QED
  BY <1>1, <1>2, <1>3, <1>4, <1>5

\* What the panel decides is what its voters agree on, and they are enough.
LEMMA InvPanel == IInv => DecidedByPanel
<1> SUFFICES ASSUME IInv, Judged, NEW p \in 1..Pairs, Decided(p) # "unresolved"
             PROVE  LET voters == {j \in 1..Judges : judgments[p][j] # Abstain}
                    IN /\ Cardinality(voters) >= MinJudges
                       /\ \A j \in voters :
                            (judgments[p][j] \in Worse) <=> (Decided(p) \in Worse)
  BY DEF DecidedByPanel
<1> DEFINE voters == {j \in 1..Judges : judgments[p][j] # Abstain}
           labels == {judgments[p][j] : j \in voters}
<1>1. Judges \in Nat \ {0} /\ MinJudges \in 1..Judges
  BY JudgeAssumption
<1>2. DOMAIN judgments[p] = 1..Judges /\ Cardinality(1..Judges) = Judges
  <2>1. Cardinality(1..Judges) = Judges
    BY <1>1, FS_Interval
  <2>2. judgments[p] \in [1..Judges -> Vote \cup {"pending"}]
    BY DEF IInv, TypeOK
  <2>3. QED
    BY <2>1, <2>2
<1>3. labels \in SUBSET Outcome
  BY DEF IInv, ProgressInv, Judged, NoPending, Vote
<1>4. Decided(p) = IF Cardinality(voters) < MinJudges
                     THEN "unresolved" ELSE Agreed(labels, "unresolved")
  <2>1. /\ (IF MinJudges < Judges THEN MinJudges ELSE Judges) = MinJudges
        /\ ~(MinJudges < 1)
    BY <1>1
  <2>2. QED
    BY <1>2, <2>1 DEF Decided, MajorityOutcome
<1>5. voters \in SUBSET (1..Judges) /\ IsFiniteSet(1..Judges)
  BY <1>1, FS_Interval
<1>6. Cardinality(voters) \in Nat
  BY <1>5, FS_Subset, FS_CardinalityType
<1>7. Cardinality(voters) >= MinJudges /\ Decided(p) = Agreed(labels, "unresolved")
  BY <1>1, <1>4, <1>6
<1>8. \A j \in voters : judgments[p][j] \in Worse <=> Decided(p) \in Worse
  BY <1>3, <1>7, AgreedSide
<1>9. QED
  BY <1>7, <1>8

\* No pair is decided below the floor of the panel or against a judge that
\* sees harm in both orderings.
THEOREM PanelDecides == Spec => []DecidedByPanel
BY InvPanel, JudgingInvariant, PTL

-----------------------------------------------------------------------------
(* What a step may never do. *)

\* A step writes at most one row of the call table: the answer to a call that
\* has none yet.
LEMMA TableWrites ==
  ASSUME IInv, [Next]_vars
  PROVE  \/ UNCHANGED <<rows, text>>
         \/ /\ main = "calling"
            /\ Call \in Calls /\ ~Table!IsDone(Call) /\ Table!WriteDone(Call, 1)
            /\ \E answer \in Answers : text' = [text EXCEPT ![Call] = answer]
<1>1. ASSUME NEW answer \in Answers, Answer(answer)
      PROVE  /\ main = "calling"
             /\ Call \in Calls /\ ~Table!IsDone(Call) /\ Table!WriteDone(Call, 1)
             /\ text' = [text EXCEPT ![Call] = answer]
  BY <1>1 DEF Answer, IInv, TableInv, TypeOK, Call, Calls
<1>2. ASSUME Begin \/ Lookup \/ TryAgain \/ GiveUp \/ Abort \/ Write \/ Crash
      PROVE  UNCHANGED <<rows, text>>
  BY <1>2 DEF Begin, Lookup, TryAgain, GiveUp, Abort, Write, Crash
<1>3. CASE UNCHANGED vars
  BY <1>3 DEF vars
<1>4. QED
  BY <1>1, <1>2, <1>3 DEF Next, Step

\* Only write_judge_artifacts touches judgments.jsonl, and every judge has
\* voted on every pair by then.
LEMMA JudgmentsWritten ==
  ASSUME IInv, [Next]_vars
  PROVE  judgments' = judgments \/ NoPending(judgments')
<1>1. CASE Write
  BY <1>1 DEF Write, IInv, ProgressInv
<1>2. ASSUME NEW answer \in Answers, Answer(answer)
      PROVE  judgments' = judgments
  BY <1>2 DEF Answer
<1>3. ASSUME Begin \/ Lookup \/ TryAgain \/ GiveUp \/ Abort \/ Crash \/ UNCHANGED vars
      PROVE  judgments' = judgments
  BY <1>3 DEF Begin, Lookup, TryAgain, GiveUp, Abort, Crash, vars
<1>4. QED
  BY <1>1, <1>2, <1>3 DEF Next, Step

\* Judging again never turns a vote into another one: both are what the table
\* says of the same two items, and what it says is final.
THEOREM VotesStable == Spec => VotesAreStable
<1>1. ASSUME IInv, IInv', [Next]_vars, NEW p \in 1..Pairs, NEW j \in 1..Judges,
             judgments[p][j] \in Outcome
      PROVE  judgments'[p][j] \in {judgments[p][j], Abstain}
  <2>1. PICK n \in Items : PairOf(n) = p /\ JudgeOf(n) = j /\ ~CandidateA(n) /\ n - 1 \in Items
    BY ItemsOfVote
  <2>2. BankedStable
    BY <1>1, TableWrites, OutcomesAreFinal
  <2>3. /\ Banked(n - 1) \in Outcome /\ Banked(n) \in Outcome
        /\ judgments[p][j] = Reconcile(Banked(n - 1), Banked(n))
    BY <1>1, <2>1 DEF IInv, FollowsTable
  <2>4. Banked(n - 1)' = Banked(n - 1) /\ Banked(n)' = Banked(n)
    BY <2>1, <2>2, <2>3 DEF BankedStable
  <2>5. judgments'[p][j] \in Outcome => judgments'[p][j] = Reconcile(Banked(n - 1)', Banked(n)')
    <3>1. FollowsTable(judgments)'
      BY <1>1 DEF IInv
    <3>2. QED
      BY <2>1, <3>1 DEF FollowsTable
  <2>6. judgments'[p][j] \in Outcome \cup {Abstain}
    <3>1. CASE judgments' = judgments
      BY <1>1, <3>1
    <3>2. CASE NoPending(judgments')
      BY <3>2 DEF NoPending, Vote
    <3>3. QED
      BY <1>1, <3>1, <3>2, JudgmentsWritten
  <2>7. QED
    BY <2>3, <2>4, <2>5, <2>6
<1>2. IInv /\ IInv' /\ [Next]_vars
        => [\A p \in 1..Pairs, j \in 1..Judges :
              judgments[p][j] \in Outcome => judgments'[p][j] \in {judgments[p][j], Abstain}]_vars
  BY <1>1
<1>3. QED
  BY <1>2, JudgingInvariant, PTL DEF Spec, VotesAreStable

\* The judge phase implements the checkpoint: every step banks one answer that
\* the table does not have, or leaves it alone.
THEOREM JudgingImplementsCheckpoint == Spec => CheckpointKept
<1>1. Init => JudgeTable!StoreInit
  BY DEF Init, Table!StoreInit, JudgeTable!StoreInit
<1>2. IInv /\ [Next]_vars => [JudgeTable!Next]_(JudgeTable!storeVars)
  <2> SUFFICES ASSUME IInv, [Next]_vars
               PROVE  JudgeTable!Next \/ UNCHANGED JudgeTable!storeVars
    OBVIOUS
  <2>1. CASE UNCHANGED <<rows, text>>
    BY <2>1 DEF JudgeTable!storeVars
  <2>2. CASE Call \in Calls /\ ~Table!IsDone(Call) /\ Table!WriteDone(Call, 1)
    <3>1. JudgeTable!Bank(Call, 1)
      BY <2>2 DEF Table!WriteDone, Table!PutRow, Table!IsDone,
                  JudgeTable!Bank, JudgeTable!PutRow, JudgeTable!IsDone, IInv, TypeOK, Table!StoreTypeOK
    <3>2. QED
      BY <2>2, <3>1 DEF JudgeTable!Next
  <2>3. QED
    BY <2>1, <2>2, TableWrites
<1>3. QED
  BY <1>1, <1>2, JudgingInvariant, PTL DEF Spec, CheckpointKept, JudgeTable!Spec

=============================================================================
