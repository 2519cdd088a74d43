------------------------------- MODULE Verdict -------------------------------
(***************************************************************************)
(* What a certificate concludes from the evidence in a run directory       *)
(* (cert/build.py, overrides.py), and how the regressions are grouped for  *)
(* it (diff/clustering.py).                                                *)
(*                                                                         *)
(* The bootstrap is represented by the sets of regressed pairs whose upper *)
(* confidence bound stays within the noise floor plus epsilon.  It draws   *)
(* its resamples with the seed of the manifest, whatever the pairs say, so *)
(* removing a regressed pair never raises the bound.  HDBSCAN may label    *)
(* the regressions in any way that its minimum cluster size allows.        *)
(***************************************************************************)
EXTENDS Ensemble

CONSTANTS
  Traces,         \* the sampled pairs
  Judges,         \* the panel
  Assertions,     \* the assertions of the manifest
  SeverityOf,     \* and the severity of each
  MinJudges,      \* judging.min_judges
  MaxCritical,    \* thresholds.max_critical
  MinClusterSize, \* clustering.min_cluster_size, 0 for null
  Tolerated       \* the sets of regressed pairs that criterion B accepts

ASSUME EvidenceAssumption ==
  /\ IsFiniteSet(Traces) /\ Traces # {}
  /\ IsFiniteSet(Judges) /\ Judges # {}
  /\ MinJudges \in Nat \ {0}
  /\ MaxCritical \in Nat
  /\ MinClusterSize \in Nat \ {1}

ASSUME ToleratedAssumption ==
  /\ Tolerated \subseteq SUBSET Traces
  /\ \A R \in Tolerated : \A S \in SUBSET R : S \in Tolerated

Severity == {"critical", "major", "minor"}
ASSUME SeverityAssumption == SeverityOf \in [Assertions -> Severity]

Label == Outcome \cup {"unresolved"}    \* OVERRIDABLE_OUTCOMES

\* A row of assertion_results.jsonl: only failures are written, each with
\* baseline_passed true, whatever the baseline did, and with a reason: no kind
\* of assertion fails without one.
Row == [assertion : Assertions, pair : Traces]

\* Judgments exist for the pairs that were selected for judging.
Votes == UNION {[S -> [Judges -> Outcome \cup {Abstain}]] : S \in SUBSET Traces}

Failing(rows, severities) ==
  {p \in Traces : \E row \in rows : row.pair = p /\ SeverityOf[row.assertion] \in severities}

-----------------------------------------------------------------------------
(* The outcome of each judged pair. *)

\* aggregate_judgment_rows: what the certificate reads.
PanelOutcomes(votes) == [p \in DOMAIN votes |-> MajorityOutcome(votes[p], MinJudges)]

\* Mutant: the floor is left at its default for the cluster stage.
StageOutcomesUnfloored(votes) ==
  [p \in Traces |->
     IF p \in DOMAIN votes THEN MajorityOutcome(votes[p], 1) ELSE "equivalent"]

\* _candidate_records_for_clustering: what the cluster stage reads, with an
\* outcome for every pair, whether it was judged or not.
StageOutcomes(votes) ==
  [p \in Traces |->
     IF p \in DOMAIN votes THEN MajorityOutcome(votes[p], MinJudges) ELSE "equivalent"]

Indices(overrides, p) == {i \in DOMAIN overrides : overrides[i].pair = p}
Last(indices) == CHOOSE i \in indices : \A j \in indices : j <= i

\* latest_overrides
LatestOverrides(overrides) ==
  [p \in {overrides[i].pair : i \in DOMAIN overrides} |->
     overrides[Last(Indices(overrides, p))].to]

\* Human labels are laid over what the panel decided; replacing the votes of an
\* overridden pair before they are counted shows nowhere else.
FinalOutcomes(votes, overrides) ==
  LET human == LatestOverrides(overrides)
      panel == PanelOutcomes(votes)
  IN [p \in DOMAIN panel \cup DOMAIN human |->
        IF p \in DOMAIN human THEN human[p] ELSE panel[p]]

With(outcomes, labels) == {p \in DOMAIN outcomes : outcomes[p] \in labels}

-----------------------------------------------------------------------------
(* The three criteria and the verdict. *)

\* Mutant: critical outcomes are left to criterion C.
RegressedMild(outcomes) == With(outcomes, {"worse_minor", "unresolved"})

\* The indicators of _candidate_regression_ci.
Regressed(outcomes) == With(outcomes, Worse \cup {"unresolved"})

\* Every failed critical assertion counts, also several of one pair.
CriterionA(rows) ==
  Cardinality({row \in rows : SeverityOf[row.assertion] = "critical"}) <= MaxCritical
CriterionB(outcomes) == Regressed(outcomes) \in Tolerated

\* Mutant: a cluster counts whole, whatever became of its pairs.
ActiveWhole(cluster, rows, outcomes) == cluster.pairs

\* The pairs of a cluster that still count: critical by their outcome or by an
\* assertion, or in the cluster without a judgment.
Active(cluster, rows, outcomes) ==
  LET asserted == Failing(rows, {"critical"})
      critical == With(outcomes, {"worse_critical"}) \cup asserted
  IN (cluster.pairs \cap critical) \cup ((cluster.pairs \ DOMAIN outcomes) \ asserted)

\* _critical_clusters is empty: no critical cluster has more than 1% of the sample.
CriterionC(clusters, rows, outcomes) ==
  \A cluster \in clusters :
    cluster.severity = "worse_critical" =>
      100 * Cardinality(Active(cluster, rows, outcomes)) <= Cardinality(Traces)

\* In degraded mode there is no noise floor and criterion B is not evaluated.
Verdict(clusters, rows, outcomes, degraded) ==
  IF /\ CriterionA(rows)
     /\ degraded \/ CriterionB(outcomes)
     /\ CriterionC(clusters, rows, outcomes)
    THEN "PASS" ELSE "BLOCK"

-----------------------------------------------------------------------------
(* The regression set and its clusters. *)

\* build_regression_set
RegressionSet(rows, outcomes) ==
  Regressed(outcomes) \cup Failing(rows, {"critical", "major"})

\* _regression_severity_rank
Rank(rows, outcomes, p) ==
  CASE outcomes[p] = "worse_critical" \/ p \in Failing(rows, {"critical"}) -> 3
    [] OTHER -> IF outcomes[p] = "unresolved" \/ p \in Failing(rows, {"major"})
                  THEN 2 ELSE 1

\* The most frequent outcome of a bucket, the first one by name among equals.
NameOrder == <<"candidate_better", "equivalent", "unresolved", "worse_critical", "worse_minor">>
Dominant(bucket, outcomes) ==
  LET Count(i) == Cardinality({p \in bucket : outcomes[p] = NameOrder[i]})
  IN NameOrder[CHOOSE i \in 1..5 : \A j \in 1..5 :
       Count(j) < Count(i) \/ (Count(j) = Count(i) /\ i <= j)]

\* Mutant: one failed assertion titles the whole cluster.
BucketSeverityByAnyAssertion(bucket, rows, outcomes) ==
  IF bucket \cap Failing(rows, {"critical", "major"}) # {}
    THEN "major" ELSE Dominant(bucket, outcomes)

\* Mutant: the dominant outcome names the cluster, even if it is no regression.
BucketSeverityByOutcome(bucket, rows, outcomes) == Dominant(bucket, outcomes)

\* _bucket_from_members: the severity of the majority, by assertions or by
\* outcome.  A majority with failed assertions has a reason to be named by.
BucketSeverity(bucket, rows, outcomes) ==
  LET flagged == bucket \cap Failing(rows, {"critical", "major"})
      dominant == Dominant(bucket, outcomes)
      worst == CHOOSE r \in 1..3 :
                 /\ \E p \in bucket : Rank(rows, outcomes, p) = r
                 /\ \A p \in bucket : Rank(rows, outcomes, p) <= r
      byRank == <<"worse_minor", "major", "worse_critical">>
  IN IF 2 * Cardinality(flagged) <= Cardinality(bucket) /\ dominant \notin NotWorse
       THEN dominant ELSE byRank[worst]

\* Without a size in the manifest, 2% of the regressions but at least three.
ActiveMin(n) ==
  IF MinClusterSize # 0 THEN MinClusterSize ELSE IF n <= 150 THEN 3 ELSE (n + 49) \div 50

\* The ways in which the regressions may be labelled: label 0 is HDBSCAN's -1.
Labellings(regressions) ==
  LET size == ActiveMin(Cardinality(regressions))
      labels == 1..(Cardinality(regressions) \div size)
  IN {f \in [regressions -> {0} \cup labels] :
        \A k \in labels :
          LET members == {p \in regressions : f[p] = k}
          IN members = {} \/ Cardinality(members) >= size}

\* cluster_regressions: one bucket if there are too few regressions.
Groupings(regressions) ==
  IF Cardinality(regressions) < 2 * ActiveMin(Cardinality(regressions))
    THEN {{regressions} \ {{}}}
    ELSE {{{p \in regressions : f[p] = f[q]} : q \in regressions} : f \in Labellings(regressions)}

Clusters(grouping, rows, outcomes) ==
  {[pairs |-> bucket, severity |-> BucketSeverity(bucket, rows, outcomes)] : bucket \in grouping}

=============================================================================
