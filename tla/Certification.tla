---------------------------- MODULE Certification ----------------------------
(***************************************************************************)
(* From the replayed pairs to a certificate, and through human review      *)
(* (cli.py, review.py): the diff stage writes the failed assertions, the   *)
(* judge stage the votes, the cluster stage the clusters, and the review   *)
(* server appends overrides.  A certificate may be issued at any moment;   *)
(* it depends on nothing but these files, so the model has no certificate  *)
(* of its own: Issued is what build_certificate would conclude now.        *)
(***************************************************************************)
EXTENDS Verdict, Sequences

CONSTANTS
  Sample,        \* the votes that a judge may cast in this instance
  Reviewed,      \* the labels that a reviewer may choose in this instance
  MaxFailing,    \* bound: rows of assertion_results.jsonl
  MaxOverrides   \* bound: human overrides

ASSUME InstanceAssumption ==
  /\ Sample \subseteq Outcome \cup {Abstain}
  /\ Reviewed \subseteq Label
  /\ MaxFailing \in Nat
  /\ MaxOverrides \in Nat

VARIABLES
  stage,      \* the stage that the run has completed
  rows,       \* assertion_results.jsonl
  votes,      \* judgments.jsonl
  clusters,   \* clusters.json
  overrides   \* overrides.jsonl

vars == <<stage, rows, votes, clusters, overrides>>

TypeOK ==
  /\ stage \in {"replay", "diff", "judge", "cluster"}
  /\ rows \subseteq Row
  /\ votes \in Votes
  /\ clusters \subseteq [pairs : SUBSET Traces, severity : Worse \cup {"unresolved", "major"}]
  /\ overrides \in Seq([pair : Traces, to : Label])

Init ==
  /\ stage = "replay"
  /\ rows = {}
  /\ votes = [p \in {} |-> <<>>]
  /\ clusters = {}
  /\ overrides = <<>>

-----------------------------------------------------------------------------
\* _write_assertion_results
Diff ==
  /\ stage = "replay"
  /\ stage' = "diff"
  /\ \E failures \in SUBSET Row :
       Cardinality(failures) <= MaxFailing /\ rows' = failures
  /\ UNCHANGED <<votes, clusters, overrides>>

\* The judge stage: any pairs are selected, and the judges answer anything.
Judge ==
  /\ stage = "diff"
  /\ stage' = "judge"
  /\ \E selected \in SUBSET Traces : votes' \in [selected -> [Judges -> Sample]]
  /\ UNCHANGED <<rows, clusters, overrides>>

\* The cluster stage; overrides are not consulted.
Cluster ==
  LET outcomes == StageOutcomes(votes)
  IN /\ stage = "judge"
     /\ stage' = "cluster"
     /\ \E grouping \in Groupings(RegressionSet(rows, outcomes)) :
          clusters' = Clusters(grouping, rows, outcomes)
     /\ UNCHANGED <<rows, votes, overrides>>

\* _handle_override: only pairs with judgments can be overridden.
Override(p, label) ==
  /\ Len(overrides) < MaxOverrides
  /\ p \in DOMAIN votes
  /\ overrides' = Append(overrides, [pair |-> p, to |-> label])
  /\ UNCHANGED <<stage, rows, votes, clusters>>

Next ==
  \/ Diff
  \/ Judge
  \/ Cluster
  \/ \E p \in Traces, label \in Reviewed : Override(p, label)

Spec == Init /\ [][Next]_vars

-----------------------------------------------------------------------------
(* What a certificate must mean. *)

Final == FinalOutcomes(votes, overrides)
Issued(degraded) == Verdict(clusters, rows, Final, degraded)

\* Evidence against harm: the last human label says so, or enough judges of the
\* panel voted and none of them saw harm.
HeldHarmless(p) ==
  LET human == {i \in DOMAIN overrides : overrides[i].pair = p}
      voters == {j \in Judges : votes[p][j] # Abstain}
  IN IF human # {}
       THEN \E i \in human : overrides[i].to \in NotWorse /\ \A k \in human : k <= i
       ELSE /\ Cardinality(voters) >= MinJudges \/ voters = Judges
            /\ \A j \in voters : votes[p][j] \in NotWorse

\* "Never a lucky PASS": in a certificate with a noise floor, the judged pairs
\* without positive evidence against harm are within what the noise floor
\* tolerates, however few judges were left and whatever a reviewer changed.
NoLuckyPass ==
  Issued(FALSE) = "PASS" => {p \in DOMAIN votes : ~HeldHarmless(p)} \in Tolerated

\* The cluster stage and the certificate count the votes of the same files in
\* two places, each with a floor of its own to pass on: they agree on which pairs
\* regressed, and no pair is in two clusters.
ClustersMatchCertificate ==
  stage = "cluster" /\ overrides = <<>> =>
    /\ UNION {c.pairs : c \in clusters} = Regressed(Final) \cup Failing(rows, {"critical", "major"})
    /\ \A c, d \in clusters : c # d => c.pairs \cap d.pairs = {}

\* However the regressions were grouped and named, critical harm in most of
\* them cannot hide in milder clusters (for samples under 100 pairs, where one
\* pair is over the 1% of criterion C).
CriticalMajorityBlocks ==
  LET critical == With(Final, {"worse_critical"})
      regressions == RegressionSet(rows, Final)
  IN /\ stage = "cluster" /\ overrides = <<>>
     /\ Cardinality(Traces) < 100
     /\ 2 * Cardinality(critical) > Cardinality(regressions)
     => Issued(TRUE) = "BLOCK" /\ Issued(FALSE) = "BLOCK"

\* A reviewer who clears every judged pair of a run without failed assertions
\* gets a PASS: no cluster computed before the review keeps it blocked.
ReviewCanClear ==
  /\ {} \in Tolerated
  /\ rows = {}
  /\ \A p \in DOMAIN votes : p \in DOMAIN LatestOverrides(overrides)
  /\ \A i \in DOMAIN overrides : overrides[i].to \in NotWorse
  => Issued(FALSE) = "PASS"

Harm(label) == IF label \in NotWorse THEN 0 ELSE IF label = "worse_critical" THEN 2 ELSE 1

\* An override that says "worse than the panel thought" never turns a BLOCK
\* into a PASS.
HarmNeverHelps ==
  [][\A p \in DOMAIN votes, degraded \in BOOLEAN :
       /\ \E label \in Label : overrides' = Append(overrides, [pair |-> p, to |-> label])
       /\ Harm(Final'[p]) >= Harm(Final[p])
       /\ Issued(degraded) = "BLOCK"
       => Issued(degraded)' = "BLOCK"]_vars

=============================================================================
