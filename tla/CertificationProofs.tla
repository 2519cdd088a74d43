-------------------------- MODULE CertificationProofs --------------------------
(***************************************************************************)
(* Proofs about Certification.  The inductive invariant says where the     *)
(* clusters come from: their pairs are exactly the regressions that the    *)
(* panel and the assertions show, and no later step changes either of the  *)
(* two, so that only overrides can part the clusters and the outcomes.     *)
(***************************************************************************)
EXTENDS Certification, FoldLemmas

-----------------------------------------------------------------------------
(* What the overrides say after one more. *)

OverrideRow == [pair : Traces, to : Label]

\* Every overridden pair has a last override.
Indexed(o) ==
  \A p \in Traces : Indices(o, p) # {} =>
    /\ Last(Indices(o, p)) \in Indices(o, p)
    /\ \A j \in Indices(o, p) : j <= Last(Indices(o, p))

\* What a row appended to the overrides leaves in place.
LEMMA AppendRow ==
  ASSUME NEW o \in Seq(OverrideRow), NEW row \in OverrideRow
  PROVE  /\ Append(o, row) \in Seq(OverrideRow)
         /\ Len(o) \in Nat
         /\ DOMAIN o \in SUBSET Nat
         /\ DOMAIN Append(o, row) = DOMAIN o \cup {Len(o) + 1}
         /\ \A i \in DOMAIN o : Append(o, row)[i] = o[i] /\ i < Len(o) + 1
         /\ Append(o, row)[Len(o) + 1] = row
OBVIOUS

\* An override extends the indices of its own pair by the new last index, and
\* leaves those of the other pairs alone.
LEMMA IndicesAppend ==
  ASSUME NEW o \in Seq(OverrideRow), NEW row \in OverrideRow, NEW q \in Traces
  PROVE  Indices(Append(o, row), q) =
           IF q = row.pair THEN Indices(o, q) \cup {Len(o) + 1} ELSE Indices(o, q)
<1> DEFINE new == Append(o, row)
<1>1. /\ DOMAIN new = DOMAIN o \cup {Len(o) + 1}
      /\ \A i \in DOMAIN o : new[i] = o[i] /\ i < Len(o) + 1
      /\ new[Len(o) + 1] = row
  BY AppendRow
<1> HIDE DEF new
<1>2. \A i \in DOMAIN o \cup {Len(o) + 1} :
        new[i].pair = q <=> (i \in DOMAIN o /\ o[i].pair = q) \/ (i = Len(o) + 1 /\ q = row.pair)
  BY <1>1
<1> QED
  BY <1>1, <1>2 DEF Indices, new

\* The last of some numbers and a larger one is the larger one.
LEMMA LastOfMore ==
  ASSUME NEW n \in Nat, NEW S \in SUBSET Nat, \A i \in S : i < n
  PROVE  Last(S \cup {n}) = n
<1>1. n \in S \cup {n} /\ \A j \in S \cup {n} : j <= n
  OBVIOUS
<1>2. \A i \in S \cup {n} : (\A j \in S \cup {n} : j <= i) => i = n
  OBVIOUS
<1> QED
  BY <1>1, <1>2 DEF Last

\* The pairs with an override are the ones that have an index.
LEMMA OverriddenPairs ==
  ASSUME NEW o \in Seq(OverrideRow)
  PROVE  /\ DOMAIN LatestOverrides(o) = {p \in Traces : Indices(o, p) # {}}
         /\ \A p \in DOMAIN LatestOverrides(o) :
              LatestOverrides(o)[p] = o[Last(Indices(o, p))].to
<1>1. \A i \in DOMAIN o : o[i] \in OverrideRow
  OBVIOUS
<1>2. \A i \in DOMAIN o : o[i].pair \in Traces
  BY <1>1 DEF OverrideRow
<1>3. {o[i].pair : i \in DOMAIN o} = {p \in Traces : \E i \in DOMAIN o : o[i].pair = p}
  BY <1>2
<1>4. \A p : Indices(o, p) # {} <=> \E i \in DOMAIN o : o[i].pair = p
  BY DEF Indices
<1> QED
  BY <1>3, <1>4 DEF LatestOverrides

\* The label that latest_overrides keeps for a pair.
LabelOf(o, q) == LatestOverrides(o)[q]

\* latest_overrides after one more row: the new label for its pair.
LEMMA LatestAppend ==
  ASSUME NEW o \in Seq(OverrideRow), Indexed(o), NEW row \in OverrideRow
  PROVE  /\ Indexed(Append(o, row))
         /\ DOMAIN LatestOverrides(Append(o, row)) = DOMAIN LatestOverrides(o) \cup {row.pair}
         /\ LabelOf(Append(o, row), row.pair) = row.to
         /\ \A q \in DOMAIN LatestOverrides(o) :
              q # row.pair => LabelOf(Append(o, row), q) = LabelOf(o, q)
<1> DEFINE p == row.pair
           new == Append(o, row)
<1>1. /\ p \in Traces
      /\ new \in Seq(OverrideRow)
      /\ Len(o) \in Nat
      /\ DOMAIN o \in SUBSET Nat
      /\ DOMAIN new = DOMAIN o \cup {Len(o) + 1}
      /\ \A i \in DOMAIN o : new[i] = o[i] /\ i < Len(o) + 1
      /\ new[Len(o) + 1] = row
      /\ Indices(new, p) = Indices(o, p) \cup {Len(o) + 1}
      /\ \A q \in Traces : q # p => Indices(new, q) = Indices(o, q)
  <2>1. p \in Traces
    BY DEF OverrideRow
  <2>2. \A q \in Traces :
          Indices(new, q) = IF q = p THEN Indices(o, q) \cup {Len(o) + 1} ELSE Indices(o, q)
    BY IndicesAppend
  <2> QED
    BY <2>1, <2>2, AppendRow
<1> HIDE DEF p, new
<1>2. \A i \in Indices(o, p) : i \in Nat /\ i < Len(o) + 1
  BY <1>1 DEF Indices
<1>3. Last(Indices(new, p)) = Len(o) + 1
  <2>1. Indices(o, p) \in SUBSET Nat /\ Len(o) + 1 \in Nat
    BY <1>1, <1>2
  <2>2. Last(Indices(o, p) \cup {Len(o) + 1}) = Len(o) + 1
    BY <1>2, <2>1, LastOfMore
  <2> QED
    BY <1>1, <2>2
<1>4. Indexed(new)
  <2>1. Last(Indices(new, p)) \in Indices(new, p)
        /\ \A j \in Indices(new, p) : j <= Last(Indices(new, p))
    <3>1. Len(o) \in Nat /\ Indices(new, p) = Indices(o, p) \cup {Len(o) + 1}
      BY <1>1
    <3>2. \A j \in Indices(o, p) \cup {Len(o) + 1} : j <= Len(o) + 1
      BY <1>2, <3>1
    <3> QED
      BY <1>3, <3>1, <3>2
  <2> QED
    BY <1>1, <2>1 DEF Indexed
<1>5. DOMAIN LatestOverrides(new) = DOMAIN LatestOverrides(o) \cup {p}
  <2>1. DOMAIN LatestOverrides(new) = {q \in Traces : Indices(new, q) # {}}
    BY <1>1, OverriddenPairs
  <2>2. DOMAIN LatestOverrides(o) = {q \in Traces : Indices(o, q) # {}}
    BY OverriddenPairs
  <2>3. \A q \in Traces : Indices(new, q) # {} <=> (q = p \/ Indices(o, q) # {})
    BY <1>1
  <2>4. p \in Traces
    BY <1>1
  <2> QED
    BY <2>1, <2>2, <2>3, <2>4, Zenon
<1>6. LatestOverrides(new)[p] = row.to
  <2>1. LatestOverrides(new)[p] = new[Last(Indices(new, p))].to
    BY <1>1, <1>5, OverriddenPairs
  <2> QED
    BY <1>1, <1>3, <2>1
<1>7. ASSUME NEW q \in DOMAIN LatestOverrides(o), q # p
      PROVE  LatestOverrides(new)[q] = LatestOverrides(o)[q]
  <2>1. Last(Indices(o, q)) \in DOMAIN o
    <3>1. q \in Traces /\ Indices(o, q) # {}
      BY OverriddenPairs
    <3> QED
      BY <3>1 DEF Indexed, Indices
  <2>2. LatestOverrides(new)[q] = new[Last(Indices(new, q))].to
    BY <1>1, <1>5, OverriddenPairs
  <2>3. LatestOverrides(o)[q] = o[Last(Indices(o, q))].to
    BY OverriddenPairs
  <2>4. Indices(new, q) = Indices(o, q)
    BY <1>1, <1>7, OverriddenPairs
  <2> QED
    BY <1>1, <2>1, <2>2, <2>3, <2>4
<1> QED
  BY <1>4, <1>5, <1>6, <1>7 DEF LabelOf, p, new

-----------------------------------------------------------------------------
(* What the panel says. *)

\* A panel that decides "not worse" had its floor of voters, and none of them
\* saw harm.
LEMMA PanelHarmless ==
  ASSUME NEW v \in [Judges -> Outcome \cup {Abstain}],
         MajorityOutcome(v, MinJudges) \in NotWorse
  PROVE  LET voters == {j \in Judges : v[j] # Abstain}
         IN /\ Cardinality(voters) >= MinJudges \/ voters = Judges
            /\ \A j \in voters : v[j] \in NotWorse
<1> DEFINE voters == {j \in Judges : v[j] # Abstain}
           labels == {v[j] : j \in voters}
<1>1. /\ Cardinality(Judges) \in Nat
      /\ Cardinality(voters) \in Nat
      /\ Cardinality(voters) <= Cardinality(Judges)
      /\ Cardinality(voters) = Cardinality(Judges) => voters = Judges
  BY EvidenceAssumption, FS_Subset, FS_CardinalityType
<1>2. MajorityOutcome(v, MinJudges) # "unresolved"
  BY DEF NotWorse
<1>3. /\ Cardinality(voters) >= MinJudges \/ Cardinality(voters) >= Cardinality(Judges)
      /\ MajorityOutcome(v, MinJudges) = Agreed(labels, "unresolved")
  BY <1>1, <1>2, EvidenceAssumption DEF MajorityOutcome
<1>4. Agreed(labels, "unresolved") \in NotWorse => labels \subseteq NotWorse
  BY DEF Agreed, NotWorse, Worse
<1> QED
  BY <1>1, <1>3, <1>4

\* The outcomes are labels, and a pair with an outcome is one of the sample.
LEMMA OutcomeTypes ==
  ASSUME votes \in Votes, overrides \in Seq(OverrideRow), Indexed(overrides)
  PROVE  /\ DOMAIN votes \subseteq Traces
         /\ DOMAIN PanelOutcomes(votes) = DOMAIN votes
         /\ DOMAIN LatestOverrides(overrides) \subseteq Traces
         /\ DOMAIN Final = DOMAIN votes \cup DOMAIN LatestOverrides(overrides)
<1>1. DOMAIN votes \subseteq Traces
  BY DEF Votes
<1>2. DOMAIN PanelOutcomes(votes) = DOMAIN votes
  BY DEF PanelOutcomes
<1>3. DOMAIN LatestOverrides(overrides) \subseteq Traces
  BY OverriddenPairs
<1> QED
  BY <1>1, <1>2, <1>3 DEF Final, FinalOutcomes

-----------------------------------------------------------------------------
(* Where the clusters come from. *)

\* However the regressions are grouped, every one is in exactly one bucket.
LEMMA GroupingIsPartition ==
  ASSUME NEW R \in SUBSET Traces, NEW G \in Groupings(R)
  PROVE  /\ UNION G = R
         /\ \A b \in G : b # {} /\ b \in SUBSET Traces
         /\ \A b, d \in G : b # d => b \cap d = {}
<1>1. CASE Cardinality(R) < 2 * ActiveMin(Cardinality(R))
  BY <1>1 DEF Groupings
<1>2. CASE ~(Cardinality(R) < 2 * ActiveMin(Cardinality(R)))
  <2>1. PICK f \in Labellings(R) : G = {{p \in R : f[p] = f[q]} : q \in R}
    BY <1>2 DEF Groupings
  <2>2. UNION G = R
    BY <2>1
  <2>3. \A b \in G : b # {} /\ b \in SUBSET Traces
    BY <2>1
  <2>4. ASSUME NEW b \in G, NEW d \in G, b # d PROVE b \cap d = {}
    <3>1. PICK q \in R : b = {p \in R : f[p] = f[q]}
      BY <2>1
    <3>2. PICK q2 \in R : d = {p \in R : f[p] = f[q2]}
      BY <2>1
    <3> QED
      BY <2>4, <3>1, <3>2
  <2> QED
    BY <2>2, <2>3, <2>4
<1> QED
  BY <1>1, <1>2

\* One of five counts comes first by size, then by name.
LEMMA FirstOfFive ==
  ASSUME NEW a \in Nat, NEW b \in Nat, NEW c \in Nat, NEW d \in Nat, NEW e \in Nat,
         NEW n, n = <<a, b, c, d, e>>
  PROVE  \E i \in 1..5 : \A j \in 1..5 : n[j] < n[i] \/ (n[j] = n[i] /\ i <= j)
<1>1. 1..5 = {1, 2, 3, 4, 5}
  OBVIOUS
<1>2. n[1] = a /\ n[2] = b /\ n[3] = c /\ n[4] = d /\ n[5] = e
  OBVIOUS
<1> QED
  BY <1>1, <1>2

\* The severity of a bucket is one of the labels a cluster may carry.
LEMMA SeverityTyped ==
  ASSUME NEW b \in SUBSET Traces, b # {}, NEW o, NEW r
  PROVE  BucketSeverity(b, r, o) \in Worse \cup {"unresolved", "major"}
<1> DEFINE Count(i) == Cardinality({p \in b : o[p] = NameOrder[i]})
<1>1. \A i \in 1..5 : Count(i) \in Nat
  BY EvidenceAssumption, FS_Subset, FS_CardinalityType
<1>2. \E i \in 1..5 : \A j \in 1..5 : Count(j) < Count(i) \/ (Count(j) = Count(i) /\ i <= j)
  <2> DEFINE n == <<Count(1), Count(2), Count(3), Count(4), Count(5)>>
  <2>1. \A i \in 1..5 : n[i] = Count(i)
    OBVIOUS
  <2>2. \E i \in 1..5 : \A j \in 1..5 : n[j] < n[i] \/ (n[j] = n[i] /\ i <= j)
    BY <1>1, FirstOfFive
  <2> HIDE DEF n, Count
  <2> QED
    BY <2>1, <2>2
<1>3. Dominant(b, o) \in Outcome \cup {"unresolved"}
  <2>1. PICK k \in 1..5 : Dominant(b, o) = NameOrder[k]
    BY <1>2 DEF Dominant
  <2> QED
    BY <2>1 DEF NameOrder, Outcome, NotWorse, Worse
<1>4. \A p \in b : Rank(r, o, p) \in 1..3
  BY DEF Rank
<1>5. \E k \in 1..3 : (\E p \in b : Rank(r, o, p) = k) /\ (\A p \in b : Rank(r, o, p) <= k)
  BY <1>4
<1> QED
  BY <1>3, <1>5 DEF BucketSeverity, Outcome, NotWorse, Worse

\* The pairs of the clusters are the regressions, each in one cluster, and
\* there is a cluster for a pair only after the cluster stage.
ClusterInv ==
  /\ stage # "cluster" => clusters = {}
  /\ stage = "cluster" =>
       /\ UNION {c.pairs : c \in clusters} = RegressionSet(rows, StageOutcomes(votes))
       /\ \A c, d \in clusters : c # d => c.pairs \cap d.pairs = {}

Inv == TypeOK /\ ClusterInv /\ Indexed(overrides)

\* The cluster stage establishes its part of the invariant.
LEMMA ClusterEstablishes ==
  ASSUME TypeOK, Cluster
  PROVE  /\ clusters' \subseteq
              [pairs : SUBSET Traces, severity : Worse \cup {"unresolved", "major"}]
         /\ UNION {c.pairs : c \in clusters'} = RegressionSet(rows, StageOutcomes(votes))
         /\ \A c, d \in clusters' : c # d => c.pairs \cap d.pairs = {}
<1> DEFINE outcomes == StageOutcomes(votes)
           R == RegressionSet(rows, outcomes)
           Bucket(b) == [pairs |-> b, severity |-> BucketSeverity(b, rows, outcomes)]
<1>1. R \in SUBSET Traces
  BY DEF TypeOK, Votes, RegressionSet, Regressed, With, Failing, StageOutcomes
<1>2. PICK G \in Groupings(R) : clusters' = {Bucket(b) : b \in G}
  BY DEF Cluster, Clusters
<1>3. /\ UNION G = R
      /\ \A b \in G : b # {} /\ b \in SUBSET Traces
      /\ \A b, d \in G : b # d => b \cap d = {}
  BY <1>1, GroupingIsPartition
<1>4. \A b \in G : Bucket(b).severity \in Worse \cup {"unresolved", "major"}
  BY <1>3, SeverityTyped
<1> HIDE DEF R, outcomes
<1>5. clusters' \subseteq [pairs : SUBSET Traces, severity : Worse \cup {"unresolved", "major"}]
  BY <1>2, <1>3, <1>4
<1>6. \A b \in G : Bucket(b).pairs = b
  OBVIOUS
<1>7. {c.pairs : c \in clusters'} = G
  BY <1>2, <1>6
<1>8. \A c, d \in clusters' : c # d => c.pairs \cap d.pairs = {}
  BY <1>2, <1>3, <1>6
<1> QED
  BY <1>3, <1>5, <1>7, <1>8 DEF R, outcomes

\* The evidence is well typed, and the clusters are those of the regressions.
THEOREM InvariantHolds == Spec => []Inv
<1>1. Init => Inv
  <2> SUFFICES ASSUME Init PROVE Inv
    OBVIOUS
  <2>1. TypeOK
    <3>1. votes \in [{} -> [Judges -> Outcome \cup {Abstain}]]
      BY DEF Init
    <3> QED
      BY <3>1 DEF Init, TypeOK, Votes
  <2>2. Indexed(overrides)
    BY DEF Init, Indexed, Indices
  <2> QED
    BY <2>1, <2>2 DEF Init, Inv, ClusterInv
<1>2. Inv /\ [Next]_vars => Inv'
  <2> SUFFICES ASSUME Inv, [Next]_vars PROVE Inv'
    OBVIOUS
  <2> USE DEF Inv
  <2>1. CASE Diff
    BY <2>1 DEF Diff, TypeOK, ClusterInv
  <2>2. CASE Judge
    <3>1. votes' \in Votes
      BY <2>2, InstanceAssumption DEF Judge, Votes
    <3> QED
      BY <2>2, <3>1 DEF Judge, TypeOK, ClusterInv
  <2>3. CASE Cluster
    <3>1. TypeOK'
      BY <2>3, ClusterEstablishes DEF Cluster, TypeOK
    <3>2. ClusterInv'
      BY <2>3, ClusterEstablishes DEF Cluster, ClusterInv
    <3> QED
      BY <2>3, <3>1, <3>2 DEF Cluster
  <2>4. ASSUME NEW p \in Traces, NEW label \in Reviewed, Override(p, label) PROVE Inv'
    <3>1. label \in Label /\ [pair |-> p, to |-> label] \in OverrideRow
      BY InstanceAssumption DEF OverrideRow
    <3>2. overrides \in Seq(OverrideRow)
      BY DEF TypeOK, OverrideRow
    <3>3. overrides' \in Seq(OverrideRow) /\ Indexed(overrides')
      BY <2>4, <3>1, <3>2, AppendRow, LatestAppend DEF Override
    <3>4. TypeOK'
      BY <2>4, <3>3 DEF Override, TypeOK, OverrideRow
    <3> QED
      BY <2>4, <3>3, <3>4 DEF Override, ClusterInv
  <2>5. CASE UNCHANGED vars
    BY <2>5 DEF vars, TypeOK, ClusterInv
  <2> QED
    BY <2>1, <2>2, <2>3, <2>4, <2>5 DEF Next
<1> QED
  BY <1>1, <1>2, PTL DEF Spec

-----------------------------------------------------------------------------
(* What follows for the certificates. *)

\* The type invariant of Certification.
THEOREM TypeCorrect == Spec => []TypeOK
<1>1. Inv => TypeOK
  BY DEF Inv
<1> QED
  BY <1>1, InvariantHolds, PTL

\* Without overrides the certificate sees what the panel decided.
LEMMA FinalIsPanel ==
  ASSUME overrides = <<>>
  PROVE  Final = PanelOutcomes(votes)
<1>1. DOMAIN LatestOverrides(overrides) = {}
  BY DEF LatestOverrides
<1> QED
  BY <1>1 DEF Final, FinalOutcomes, PanelOutcomes

\* The cluster stage and the certificate see the same regressions in the votes.
LEMMA StageMatchesPanel ==
  ASSUME NEW v \in Votes
  PROVE  /\ Regressed(StageOutcomes(v)) = Regressed(PanelOutcomes(v))
         /\ With(StageOutcomes(v), {"worse_critical"}) =
              With(PanelOutcomes(v), {"worse_critical"})
<1>1. DOMAIN v \subseteq Traces
  BY DEF Votes
<1>2. ASSUME NEW labels, "equivalent" \notin labels
      PROVE  With(StageOutcomes(v), labels) = With(PanelOutcomes(v), labels)
  BY <1>1, <1>2 DEF With, StageOutcomes, PanelOutcomes
<1> QED
  BY <1>2 DEF Regressed, Worse

\* The pairs in the clusters are the regressed pairs of the certificate, for
\* every panel, sample and way of grouping the regressions.
THEOREM ClustersAgree == Spec => []ClustersMatchCertificate
<1>1. Inv => ClustersMatchCertificate
  <2>1. Inv => Regressed(StageOutcomes(votes)) = Regressed(PanelOutcomes(votes))
    BY StageMatchesPanel DEF Inv, TypeOK
  <2> QED
    BY <2>1, FinalIsPanel DEF Inv, ClusterInv, ClustersMatchCertificate, RegressionSet
<1> QED
  BY <1>1, InvariantHolds, PTL

\* A pair that the certificate does not count as regressed was held harmless,
\* by the last human label or by enough judges.
LEMMA UnregressedIsHarmless ==
  ASSUME Inv, NEW p \in DOMAIN votes, p \notin Regressed(Final)
  PROVE  HeldHarmless(p)
<1> DEFINE human == Indices(overrides, p)
<1>1. overrides \in Seq(OverrideRow) /\ votes \in Votes
  BY DEF Inv, TypeOK, OverrideRow
<1>2. p \in Traces /\ p \in DOMAIN Final
  BY <1>1, OutcomeTypes DEF Inv
<1>3. Final[p] \notin Worse \cup {"unresolved"}
  BY <1>2 DEF Regressed, With
<1>4. human = {i \in DOMAIN overrides : overrides[i].pair = p}
  BY DEF Indices
<1>5. CASE human # {}
  <2>1. p \in DOMAIN LatestOverrides(overrides)
    BY <1>1, <1>2, <1>5, OverriddenPairs
  <2>2. Final[p] = overrides[Last(human)].to
    BY <1>1, <1>2, <2>1, OverriddenPairs DEF Final, FinalOutcomes
  <2>3. Last(human) \in human /\ \A j \in human : j <= Last(human)
    BY <1>2, <1>5 DEF Inv, Indexed
  <2>4. overrides[Last(human)] \in OverrideRow
    BY <1>1, <1>4, <2>3
  <2>5. overrides[Last(human)].to \in NotWorse
    BY <1>3, <2>2, <2>4 DEF OverrideRow, Label, Outcome
  <2> QED
    BY <1>4, <1>5, <2>3, <2>5 DEF HeldHarmless
<1>6. CASE human = {}
  <2>1. p \notin DOMAIN LatestOverrides(overrides)
    BY <1>1, <1>6, OverriddenPairs
  <2>2. Final[p] = MajorityOutcome(votes[p], MinJudges)
    BY <1>2, <2>1 DEF Final, FinalOutcomes, PanelOutcomes
  <2>3. votes[p] \in [Judges -> Outcome \cup {Abstain}]
    BY <1>1 DEF Votes
  <2>4. MajorityOutcome(votes[p], MinJudges) \in Label
    BY DEF MajorityOutcome, Agreed, Label, Outcome, NotWorse, Worse
  <2>5. MajorityOutcome(votes[p], MinJudges) \in NotWorse
    BY <1>3, <2>2, <2>4 DEF Label, Outcome
  <2> QED
    BY <1>4, <1>6, <2>3, <2>5, PanelHarmless DEF HeldHarmless
<1> QED
  BY <1>5, <1>6

\* Never a lucky PASS, however many judges fail and however large the panel.
THEOREM PassIsEarned == Spec => []NoLuckyPass
<1>1. ASSUME Inv, Issued(FALSE) = "PASS"
      PROVE  {p \in DOMAIN votes : ~HeldHarmless(p)} \in Tolerated
  <2>1. Regressed(Final) \in Tolerated
    BY <1>1 DEF Issued, Verdict, CriterionB
  <2>2. {p \in DOMAIN votes : ~HeldHarmless(p)} \subseteq Regressed(Final)
    BY <1>1, UnregressedIsHarmless
  <2> QED
    BY <2>1, <2>2, ToleratedAssumption
<1>2. Inv => NoLuckyPass
  BY <1>1 DEF NoLuckyPass
<1> QED
  BY <1>2, InvariantHolds, PTL

\* A review that clears every judged pair of a run without failed assertions
\* ends in a PASS, whatever clusters were computed before it.
THEOREM ReviewClears == Spec => []ReviewCanClear
<1>1. ASSUME Inv, {} \in Tolerated, rows = {},
             \A p \in DOMAIN votes : p \in DOMAIN LatestOverrides(overrides),
             \A i \in DOMAIN overrides : overrides[i].to \in NotWorse
      PROVE  Issued(FALSE) = "PASS"
  <2>1. overrides \in Seq(OverrideRow) /\ votes \in Votes
    BY <1>1 DEF Inv, TypeOK, OverrideRow
  <2>2. \A p \in DOMAIN Final : Final[p] \in NotWorse
    <3> SUFFICES ASSUME NEW p \in DOMAIN Final PROVE Final[p] \in NotWorse
      OBVIOUS
    <3>1. p \in DOMAIN LatestOverrides(overrides)
      BY <1>1, <2>1, OutcomeTypes DEF Inv
    <3>2. Final[p] = overrides[Last(Indices(overrides, p))].to
      BY <2>1, <3>1, OverriddenPairs DEF Final, FinalOutcomes
    <3>3. p \in Traces /\ Indices(overrides, p) # {}
      BY <2>1, <3>1, OverriddenPairs
    <3>4. Last(Indices(overrides, p)) \in DOMAIN overrides
      BY <1>1, <3>3 DEF Inv, Indexed, Indices
    <3> QED
      BY <1>1, <3>2, <3>4
  <2>3. Regressed(Final) = {} /\ With(Final, {"worse_critical"}) = {}
    BY <2>2 DEF Regressed, With, NotWorse, Worse
  <2>4. \A severities : Failing(rows, severities) = {}
    BY <1>1 DEF Failing
  <2>5. CriterionA(rows)
    BY <1>1, EvidenceAssumption, FS_EmptySet DEF CriterionA
  <2>6. CriterionB(Final)
    BY <1>1, <2>3 DEF CriterionB
  <2>7. ASSUME NEW c \in clusters PROVE Active(c, rows, Final) = {}
    <3>1. c.pairs \subseteq RegressionSet(rows, StageOutcomes(votes))
      BY <1>1 DEF Inv, ClusterInv
    <3>2. c.pairs \subseteq DOMAIN votes
      BY <2>1, <2>4, <3>1, StageMatchesPanel DEF RegressionSet, Regressed, With, PanelOutcomes
    <3>3. c.pairs \subseteq DOMAIN Final
      BY <1>1, <2>1, <3>2, OutcomeTypes DEF Inv
    <3> QED
      BY <2>3, <2>4, <3>3 DEF Active
  <2>8. CriterionC(clusters, rows, Final)
    <3>1. Cardinality({}) = 0 /\ Cardinality(Traces) \in Nat
      BY EvidenceAssumption, FS_EmptySet, FS_CardinalityType
    <3> QED
      BY <2>7, <3>1 DEF CriterionC
  <2> QED
    BY <2>5, <2>6, <2>8 DEF Issued, Verdict
<1>2. Inv => ReviewCanClear
  BY <1>1 DEF ReviewCanClear
<1> QED
  BY <1>2, InvariantHolds, PTL

-----------------------------------------------------------------------------
(* More harm never helps. *)

\* If every regressed pair stays regressed and every critical one critical, a
\* PASS afterwards was a PASS before.
LEMMA VerdictMonotone ==
  ASSUME NEW before, NEW after, NEW degraded \in BOOLEAN,
         clusters \subseteq [pairs : SUBSET Traces, severity : Worse \cup {"unresolved", "major"}],
         DOMAIN after = DOMAIN before,
         Regressed(before) \subseteq Regressed(after),
         With(before, {"worse_critical"}) \subseteq With(after, {"worse_critical"}),
         Verdict(clusters, rows, after, degraded) = "PASS"
  PROVE  Verdict(clusters, rows, before, degraded) = "PASS"
<1>1. /\ CriterionA(rows)
      /\ degraded \/ CriterionB(after)
      /\ CriterionC(clusters, rows, after)
  BY DEF Verdict
<1>2. degraded \/ CriterionB(before)
  BY <1>1, ToleratedAssumption DEF CriterionB
<1>3. ASSUME NEW c \in clusters, c.severity = "worse_critical"
      PROVE  100 * Cardinality(Active(c, rows, before)) <= Cardinality(Traces)
  <2>1. Active(c, rows, before) \subseteq Active(c, rows, after)
    BY DEF Active
  <2>2. IsFiniteSet(Active(c, rows, after))
    <3>1. Active(c, rows, after) \subseteq Traces
      BY DEF Active
    <3> QED
      BY <3>1, EvidenceAssumption, FS_Subset
  <2>3. /\ Cardinality(Active(c, rows, before)) \in Nat
        /\ Cardinality(Active(c, rows, after)) \in Nat
        /\ Cardinality(Traces) \in Nat
        /\ Cardinality(Active(c, rows, before)) <= Cardinality(Active(c, rows, after))
    BY <2>1, <2>2, EvidenceAssumption, FS_Subset, FS_CardinalityType
  <2>4. 100 * Cardinality(Active(c, rows, after)) <= Cardinality(Traces)
    BY <1>1, <1>3 DEF CriterionC
  <2> QED
    BY <2>3, <2>4
<1>4. CriterionC(clusters, rows, before)
  BY <1>3 DEF CriterionC
<1> QED
  BY <1>1, <1>2, <1>4 DEF Verdict

\* An override changes the outcome of its own pair only.
LEMMA OverrideEffect ==
  ASSUME Inv, NEW p \in DOMAIN votes, NEW label \in Label, UNCHANGED votes,
         overrides' = Append(overrides, [pair |-> p, to |-> label])
  PROVE  /\ DOMAIN Final' = DOMAIN Final
         /\ p \in DOMAIN Final
         /\ Final'[p] = label
         /\ \A q \in DOMAIN Final : q # p => Final'[q] = Final[q]
<1>1. overrides \in Seq(OverrideRow) /\ votes \in Votes /\ Indexed(overrides)
  BY DEF Inv, TypeOK, OverrideRow
<1>2. p \in Traces /\ p \in DOMAIN Final
  BY <1>1, OutcomeTypes
<1>3. /\ DOMAIN LatestOverrides(overrides') = DOMAIN LatestOverrides(overrides) \cup {p}
      /\ LabelOf(overrides', p) = label
      /\ \A q \in DOMAIN LatestOverrides(overrides) :
           q # p => LabelOf(overrides', q) = LabelOf(overrides, q)
  <2> DEFINE row == [pair |-> p, to |-> label]
  <2>1. row \in OverrideRow /\ row.pair = p /\ row.to = label
    BY <1>2 DEF OverrideRow
  <2>2. overrides' = Append(overrides, row)
    OBVIOUS
  <2> HIDE DEF row
  <2> QED
    BY <1>1, <2>1, <2>2, LatestAppend
<1>4. Final' = FinalOutcomes(votes, overrides')
  BY DEF Final
<1>5. DOMAIN PanelOutcomes(votes) = DOMAIN votes
  BY DEF PanelOutcomes
<1>6. /\ DOMAIN Final = DOMAIN votes \cup DOMAIN LatestOverrides(overrides)
      /\ \A q \in DOMAIN Final :
           Final[q] = IF q \in DOMAIN LatestOverrides(overrides)
                        THEN LabelOf(overrides, q) ELSE PanelOutcomes(votes)[q]
  BY <1>5 DEF Final, FinalOutcomes, LabelOf
<1>7. /\ DOMAIN Final' = DOMAIN votes \cup DOMAIN LatestOverrides(overrides')
      /\ \A q \in DOMAIN Final' :
           Final'[q] = IF q \in DOMAIN LatestOverrides(overrides')
                         THEN LabelOf(overrides', q) ELSE PanelOutcomes(votes)[q]
  BY <1>4, <1>5 DEF FinalOutcomes, LabelOf
<1>8. DOMAIN Final' = DOMAIN Final
  BY <1>2, <1>3, <1>6, <1>7
<1>9. p \in DOMAIN LatestOverrides(overrides')
  BY <1>3
<1>10. Final'[p] = label
  BY <1>2, <1>3, <1>7, <1>8, <1>9
<1>11. ASSUME NEW q \in DOMAIN Final, q # p PROVE Final'[q] = Final[q]
  BY <1>3, <1>6, <1>7, <1>8, <1>11
<1> QED
  BY <1>2, <1>8, <1>10, <1>11

\* An override towards harm never turns a BLOCK into a PASS, whichever pair it
\* is for and whatever clusters, rows and earlier overrides there are.
THEOREM HarmCannotHelp == Spec => HarmNeverHelps
<1>1. ASSUME Inv, [Next]_vars, NEW p \in DOMAIN votes, NEW degraded \in BOOLEAN,
             NEW label \in Label,
             overrides' = Append(overrides, [pair |-> p, to |-> label]),
             Harm(Final'[p]) >= Harm(Final[p]),
             Issued(degraded) = "BLOCK"
      PROVE  Issued(degraded)' = "BLOCK"
  <2>1. overrides' # overrides
    <3>1. overrides \in Seq([pair : Traces, to : Label])
      BY <1>1 DEF Inv, TypeOK
    <3>2. Len(overrides') = Len(overrides) + 1 /\ Len(overrides) \in Nat
      BY <1>1, <3>1
    <3> QED
      BY <3>2
  <2>2. UNCHANGED <<rows, votes, clusters>>
    BY <1>1, <2>1 DEF Next, Diff, Judge, Cluster, Override, vars
  <2>3. /\ DOMAIN Final' = DOMAIN Final
        /\ p \in DOMAIN Final
        /\ Final'[p] = label
        /\ \A q \in DOMAIN Final : q # p => Final'[q] = Final[q]
    BY <1>1, <2>2, OverrideEffect
  <2>4. Regressed(Final) \subseteq Regressed(Final')
    <3>1. Final[p] \in Worse \cup {"unresolved"} => label \in Worse \cup {"unresolved"}
      BY <1>1, <2>3 DEF Harm, Label, Outcome, NotWorse, Worse
    <3> QED
      BY <2>3, <3>1 DEF Regressed, With
  <2>5. With(Final, {"worse_critical"}) \subseteq With(Final', {"worse_critical"})
    <3>1. Final[p] = "worse_critical" => label = "worse_critical"
      BY <1>1, <2>3 DEF Harm, Label, Outcome, NotWorse, Worse
    <3> QED
      BY <2>3, <3>1 DEF With
  <2>6. Issued(degraded)' = Verdict(clusters, rows, Final', degraded)
    BY <2>2 DEF Issued
  <2>7. Verdict(clusters, rows, Final', degraded) # "PASS"
    BY <1>1, <2>3, <2>4, <2>5, VerdictMonotone DEF Issued, Inv, TypeOK, Verdict
  <2> QED
    BY <2>6, <2>7 DEF Verdict
<1>2. Inv /\ [Next]_vars =>
        [\A p \in DOMAIN votes, degraded \in BOOLEAN :
           /\ \E label \in Label : overrides' = Append(overrides, [pair |-> p, to |-> label])
           /\ Harm(Final'[p]) >= Harm(Final[p])
           /\ Issued(degraded) = "BLOCK"
           => Issued(degraded)' = "BLOCK"]_vars
  <2> SUFFICES ASSUME Inv, [Next]_vars, NEW p \in DOMAIN votes, NEW degraded \in BOOLEAN,
                      \E label \in Label :
                        overrides' = Append(overrides, [pair |-> p, to |-> label]),
                      Harm(Final'[p]) >= Harm(Final[p]),
                      Issued(degraded) = "BLOCK"
               PROVE  Issued(degraded)' = "BLOCK"
    BY Zenon
  <2>1. PICK label \in Label : overrides' = Append(overrides, [pair |-> p, to |-> label])
    OBVIOUS
  <2> QED
    BY <1>1, <2>1
<1> QED
  BY <1>2, InvariantHolds, PTL DEF Spec, HarmNeverHelps

-----------------------------------------------------------------------------
(* Where the majority of the regressions is critical. *)

\* The size of two disjoint sets of pairs.
LEMMA DisjointSizes ==
  ASSUME NEW S \in SUBSET Traces, NEW T \in SUBSET Traces, S \cap T = {}
  PROVE  /\ Cardinality(S) \in Nat /\ Cardinality(T) \in Nat
         /\ Cardinality(S \cup T) = Cardinality(S) + Cardinality(T)
<1>1. /\ IsFiniteSet(S) /\ Cardinality(S) \in Nat
      /\ IsFiniteSet(T) /\ Cardinality(T) \in Nat
  BY EvidenceAssumption, FS_Subset, FS_CardinalityType
<1>2. Cardinality(S \cup T) = Cardinality(S) + Cardinality(T) - Cardinality(S \cap T)
  BY <1>1, FS_Union
<1>3. Cardinality(S \cap T) = 0
  BY FS_EmptySet
<1> QED
  BY <1>1, <1>2, <1>3

\* If each bucket of a partition is half critical at most, then so is the whole.
LEMMA HalvesAddUp ==
  ASSUME NEW R \in SUBSET Traces, NEW G, UNION G = R,
         \A b, d \in G : b # d => b \cap d = {},
         NEW K, \A b \in G : 2 * Cardinality(b \cap K) <= Cardinality(b)
  PROVE  2 * Cardinality(R \cap K) <= Cardinality(R)
<1> DEFINE C == {s \in SUBSET G : 2 * Cardinality((UNION s) \cap K) <= Cardinality(UNION s)}
<1>1. IsFiniteSet(G)
  <2>1. G \in SUBSET (SUBSET Traces)
    OBVIOUS
  <2> QED
    BY <2>1, EvidenceAssumption, FS_SUBSET, FS_Subset
<1>2. \A S \in SUBSET Traces :
        /\ IsFiniteSet(S) /\ Cardinality(S) \in Nat
        /\ S \cap K \in SUBSET Traces
  BY EvidenceAssumption, FS_Subset, FS_CardinalityType
<1>3. {} \in C
  <2>1. UNION {} = {} /\ {} \cap K = {}
    OBVIOUS
  <2>2. Cardinality({}) = 0
    BY FS_EmptySet
  <2>3. 2 * 0 <= 0
    OBVIOUS
  <2> QED
    BY <2>1, <2>2, <2>3
<1>4. ASSUME NEW s \in SUBSET G, s # {}, \A b \in s : s \ {b} \in C PROVE s \in C
  <2>1. PICK b : b \in s
    BY <1>4
  <2> DEFINE rest == UNION (s \ {b})
  <2>2. UNION s = rest \cup b /\ rest \cap b = {}
    BY <2>1
  <2>3. b \in SUBSET Traces /\ rest \in SUBSET Traces
    BY <2>1
  <2>4. 2 * Cardinality(rest \cap K) <= Cardinality(rest)
    BY <1>4, <2>1
  <2>5. 2 * Cardinality(b \cap K) <= Cardinality(b)
    BY <2>1
  <2>6. /\ ((rest \cup b) \cap K) = (rest \cap K) \cup (b \cap K)
        /\ (rest \cap K) \cap (b \cap K) = {}
    BY <2>2
  <2> HIDE DEF rest
  <2>7. Cardinality(rest \cup b) = Cardinality(rest) + Cardinality(b)
    BY <2>2, <2>3, DisjointSizes
  <2>8. Cardinality((rest \cup b) \cap K) = Cardinality(rest \cap K) + Cardinality(b \cap K)
    <3> DEFINE S == rest \cap K
               T == b \cap K
    <3>1. S \in SUBSET Traces /\ T \in SUBSET Traces
      BY <2>3
    <3>2. S \cap T = {} /\ (rest \cup b) \cap K = S \cup T
      BY <2>6
    <3> HIDE DEF S, T
    <3>3. Cardinality(S \cup T) = Cardinality(S) + Cardinality(T)
      BY <3>1, <3>2, DisjointSizes
    <3> QED
      BY <3>2, <3>3 DEF S, T
  <2>9. PICK i \in Nat, j \in Nat, m \in Nat, n \in Nat :
          /\ i = Cardinality(rest) /\ j = Cardinality(b)
          /\ m = Cardinality(rest \cap K) /\ n = Cardinality(b \cap K)
    BY <1>2, <2>3
  <2>10. 2 * (m + n) <= i + j
    BY <2>4, <2>5, <2>9
  <2>11. 2 * Cardinality((rest \cup b) \cap K) <= Cardinality(rest \cup b)
    BY <2>7, <2>8, <2>9, <2>10
  <2> QED
    BY <2>2, <2>11
<1> HIDE DEF C
<1>5. SUBSET G \subseteq C
  BY <1>1, <1>3, <1>4, SubsetInduction
<1> QED
  BY <1>5 DEF C

\* A bucket with a critical majority is a critical cluster, whichever of the
\* two ways names it.
LEMMA CriticalMajorityNames ==
  ASSUME NEW b \in SUBSET Traces, NEW o, DOMAIN o = Traces, NEW r,
         2 * Cardinality(b \cap With(o, {"worse_critical"})) > Cardinality(b)
  PROVE  BucketSeverity(b, r, o) = "worse_critical"
<1> DEFINE Of(i) == {p \in b : o[p] = NameOrder[i]}
           K == b \cap With(o, {"worse_critical"})
<1>1. \A i \in 1..5 : IsFiniteSet(Of(i)) /\ Cardinality(Of(i)) \in Nat
  BY EvidenceAssumption, FS_Subset, FS_CardinalityType
<1>2. IsFiniteSet(b) /\ Cardinality(b) \in Nat
  BY EvidenceAssumption, FS_Subset, FS_CardinalityType
<1>3. K = Of(4)
  BY DEF With, NameOrder
<1>4. K # {}
  <2>1. ~(2 * 0 > Cardinality(b)) /\ Cardinality({}) = 0
    BY <1>2, FS_EmptySet
  <2>2. 2 * Cardinality(K) > Cardinality(b)
    OBVIOUS
  <2> HIDE DEF K
  <2> QED
    BY <2>1, <2>2
<1>5. ASSUME NEW k \in 1..5, k # 4 PROVE Cardinality(Of(k)) < Cardinality(Of(4))
  <2>1. NameOrder[k] # NameOrder[4]
    BY <1>5 DEF NameOrder
  <2>2. Of(k) \cap Of(4) = {} /\ Of(k) \cup Of(4) \in SUBSET b
    BY <2>1
  <2> HIDE DEF Of
  <2>3. Cardinality(Of(k) \cup Of(4)) = Cardinality(Of(k)) + Cardinality(Of(4))
    BY <2>2, DisjointSizes
  <2>4. Cardinality(Of(k) \cup Of(4)) <= Cardinality(b)
    BY <1>2, <2>2, FS_Subset
  <2>5. PICK m \in Nat, n \in Nat, l \in Nat :
          m = Cardinality(Of(k)) /\ n = Cardinality(Of(4)) /\ l = Cardinality(b)
    BY <1>1, <1>2
  <2>6. m + n <= l
    BY <2>3, <2>4, <2>5
  <2>7. 2 * Cardinality(Of(4)) > Cardinality(b)
    BY <1>3 DEF Of
  <2>8. 2 * n > l
    BY <2>5, <2>7
  <2> QED
    BY <2>5, <2>6, <2>8
<1>6. Dominant(b, o) = "worse_critical"
  <2> DEFINE First(i) == \A j \in 1..5 :
               \/ Cardinality(Of(j)) < Cardinality(Of(i))
               \/ (Cardinality(Of(j)) = Cardinality(Of(i)) /\ i <= j)
  <2>1. Dominant(b, o) = NameOrder[CHOOSE i \in 1..5 : First(i)]
    BY DEF Dominant
  <2>2. First(4)
    <3> SUFFICES ASSUME NEW j \in 1..5
                 PROVE  \/ Cardinality(Of(j)) < Cardinality(Of(4))
                        \/ (Cardinality(Of(j)) = Cardinality(Of(4)) /\ 4 <= j)
      OBVIOUS
    <3> HIDE DEF Of
    <3> QED
      BY <1>5
  <2>3. \A i \in 1..5 : First(i) => i = 4
    <3> SUFFICES ASSUME NEW i \in 1..5, First(i), i # 4 PROVE FALSE
      OBVIOUS
    <3>1. Cardinality(Of(i)) < Cardinality(Of(4))
      BY <1>5
    <3> HIDE DEF Of
    <3> QED
      BY <1>1, <3>1
  <2> HIDE DEF First
  <2>4. (CHOOSE i \in 1..5 : First(i)) = 4
    BY <2>2, <2>3
  <2>5. NameOrder[4] = "worse_critical"
    BY DEF NameOrder
  <2> QED
    BY <2>1, <2>4, <2>5
<1>7. \A p \in b : Rank(r, o, p) \in 1..3
  BY DEF Rank
<1>8. \E p \in b : Rank(r, o, p) = 3
  BY <1>4 DEF Rank, With
<1> DEFINE Worst(k) == (\E p \in b : Rank(r, o, p) = k) /\ (\A p \in b : Rank(r, o, p) <= k)
<1>9. (CHOOSE k \in 1..3 : Worst(k)) = 3
  BY <1>7, <1>8
<1>10. \/ BucketSeverity(b, r, o) = Dominant(b, o)
       \/ BucketSeverity(b, r, o) =
            <<"worse_minor", "major", "worse_critical">>[CHOOSE k \in 1..3 : Worst(k)]
  BY DEF BucketSeverity
<1> HIDE DEF Worst
<1>11. <<"worse_minor", "major", "worse_critical">>[3] = "worse_critical"
  OBVIOUS
<1> QED
  BY <1>6, <1>9, <1>10, <1>11

\* The clusters are those of one of the ways of grouping the regressions that
\* the panel and the assertions show.
GroupedInv ==
  stage = "cluster" =>
    \E G \in Groupings(RegressionSet(rows, StageOutcomes(votes))) :
      clusters = Clusters(G, rows, StageOutcomes(votes))

\* Nothing after the cluster stage changes what it was computed from.
THEOREM GroupedInvariant == Spec => []GroupedInv
<1>1. Init => GroupedInv
  BY DEF Init, GroupedInv
<1>2. GroupedInv /\ [Next]_vars => GroupedInv'
  <2> SUFFICES ASSUME GroupedInv, [Next]_vars PROVE GroupedInv'
    OBVIOUS
  <2>1. CASE Diff \/ Judge
    BY <2>1 DEF Diff, Judge, GroupedInv
  <2>2. CASE Cluster
    BY <2>2 DEF Cluster, GroupedInv
  <2>3. ASSUME NEW p \in Traces, NEW label \in Reviewed, Override(p, label) PROVE GroupedInv'
    BY <2>3 DEF Override, GroupedInv
  <2>4. CASE UNCHANGED vars
    BY <2>4 DEF vars, GroupedInv
  <2> QED
    BY <2>1, <2>2, <2>3, <2>4 DEF Next
<1> QED
  BY <1>1, <1>2, PTL DEF Spec

\* Critical harm in most of the regressions blocks the certificate, whatever
\* groups and names HDBSCAN gives them: one group has a critical majority too,
\* it carries the critical name, and its critical pairs are over the 1%.
THEOREM MajorityBlocks == Spec => []CriticalMajorityBlocks
<1> DEFINE K == With(Final, {"worse_critical"})
           R == RegressionSet(rows, Final)
<1>1. ASSUME Inv, GroupedInv, stage = "cluster", overrides = <<>>,
             Cardinality(Traces) < 100, 2 * Cardinality(K) > Cardinality(R)
      PROVE  ~CriterionC(clusters, rows, Final)
  <2>1. Final = PanelOutcomes(votes)
    BY <1>1, FinalIsPanel
  <2> DEFINE o == StageOutcomes(votes)
  <2>2. /\ DOMAIN o = Traces
        /\ With(o, {"worse_critical"}) = K
        /\ \E G \in Groupings(R) : clusters = Clusters(G, rows, o)
    <3>1. Regressed(o) = Regressed(Final) /\ With(o, {"worse_critical"}) = K
      BY <1>1, <2>1, StageMatchesPanel DEF Inv, TypeOK
    <3>2. RegressionSet(rows, o) = R
      BY <3>1 DEF RegressionSet
    <3> QED
      BY <1>1, <3>1, <3>2 DEF GroupedInv, StageOutcomes
  <2> HIDE DEF o
  <2>3. PICK G \in Groupings(R) : clusters = Clusters(G, rows, o)
    BY <2>2
  <2>4. R \in SUBSET Traces /\ K \in SUBSET R
    BY <1>1, <2>1
       DEF Inv, TypeOK, Votes, RegressionSet, Regressed, With, Failing, PanelOutcomes, Worse
  <2>5. /\ UNION G = R
        /\ \A b \in G : b # {} /\ b \in SUBSET Traces
        /\ \A b, d \in G : b # d => b \cap d = {}
    BY <2>4, GroupingIsPartition
  <2>6. \A S \in SUBSET Traces : IsFiniteSet(S) /\ Cardinality(S) \in Nat
    BY EvidenceAssumption, FS_Subset, FS_CardinalityType
  <2>7. R \cap K = K
    BY <2>4
  <2>8. PICK b \in G : 2 * Cardinality(b \cap K) > Cardinality(b)
    <3> HIDE DEF R, K
    <3>1. SUFFICES ASSUME \A b \in G : ~(2 * Cardinality(b \cap K) > Cardinality(b))
                   PROVE  FALSE
      OBVIOUS
    <3>2. ASSUME NEW b \in G PROVE 2 * Cardinality(b \cap K) <= Cardinality(b)
      <4>1. PICK m \in Nat, n \in Nat : m = Cardinality(b \cap K) /\ n = Cardinality(b)
        BY <2>5, <2>6
      <4>2. ~(2 * m > n)
        BY <3>1, <4>1
      <4> QED
        BY <4>1, <4>2
    <3>3. 2 * Cardinality(R \cap K) <= Cardinality(R)
      BY <2>4, <2>5, <3>2, HalvesAddUp
    <3>4. PICK m \in Nat, n \in Nat : m = Cardinality(K) /\ n = Cardinality(R)
      BY <2>4, <2>6
    <3>5. 2 * m <= n /\ 2 * m > n
      BY <1>1, <2>7, <3>3, <3>4
    <3> QED
      BY <3>5
  <2>9. BucketSeverity(b, rows, o) = "worse_critical"
    BY <2>2, <2>5, <2>8, CriticalMajorityNames
  <2> DEFINE cluster == [pairs |-> b, severity |-> "worse_critical"]
  <2>10. cluster \in clusters
    BY <2>3, <2>9 DEF Clusters
  <2>11. Active(cluster, rows, Final) \in SUBSET Traces /\ b \cap K \subseteq Active(cluster, rows, Final)
    BY <2>5 DEF Active
  <2>12. Cardinality(Active(cluster, rows, Final)) \in Nat \ {0}
    <3>1. b \cap K # {}
      <4>1. Cardinality({}) = 0 /\ Cardinality(b) \in Nat
        BY <2>5, <2>6, FS_EmptySet
      <4>2. ~(2 * 0 > Cardinality(b))
        BY <4>1
      <4> QED
        BY <2>8, <4>1, <4>2
    <3>2. Active(cluster, rows, Final) # {}
      BY <2>11, <3>1
    <3> QED
      BY <2>6, <2>11, <3>2, FS_EmptySet
  <2>13. ~(100 * Cardinality(Active(cluster, rows, Final)) <= Cardinality(Traces))
    <3>1. PICK n \in Nat \ {0} : n = Cardinality(Active(cluster, rows, Final))
      BY <2>12
    <3>2. PICK t \in Nat : t = Cardinality(Traces)
      BY <2>6
    <3>3. t < 100
      BY <1>1, <3>2
    <3>4. ~(100 * n <= t)
      BY <3>3
    <3> QED
      BY <3>1, <3>2, <3>4
  <2> QED
    BY <2>10, <2>13 DEF CriterionC
<1> HIDE DEF K, R
<1>2. Inv /\ GroupedInv => CriticalMajorityBlocks
  BY <1>1 DEF CriticalMajorityBlocks, Issued, Verdict, K, R
<1> QED
  BY <1>2, InvariantHolds, GroupedInvariant, PTL

=============================================================================
