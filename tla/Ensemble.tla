------------------------------ MODULE Ensemble ------------------------------
(***************************************************************************)
(* How judge answers become the outcome of a pair: the position of the     *)
(* candidate in the prompt, the two orderings of one judge (judge/rubric.  *)
(* py), and the votes of the panel (judge/ensemble.py).  Both unions of    *)
(* labels go by direction of harm and settle on the milder label.          *)
(***************************************************************************)
EXTENDS Integers, FiniteSets

NotWorse == {"equivalent", "candidate_better"}
Worse == {"worse_minor", "worse_critical"}
Outcome == NotWorse \cup Worse
Abstain == "abstain"   \* a vote of None

\* What a judge says of the responses shown as A and B.
Judgment ==
  [verdict : {"equivalent", "a_better", "b_better"},
   severity : {"none", "minor", "critical"}]

\* An answer that the parser rejects.
Garbage == [verdict |-> "garbage", severity |-> "none"]

\* Mutant: the candidate is always taken to be response A.
MapAsCandidateA(judgment, wins) ==
  IF judgment.verdict = "equivalent" THEN "equivalent"
  ELSE IF judgment.verdict = "a_better" THEN "candidate_better"
  ELSE IF judgment.severity = "critical" THEN "worse_critical"
  ELSE "worse_minor"

\* map_position_verdict: the verdict seen from the candidate's position.
MapPositionVerdict(judgment, wins) ==
  IF judgment.verdict = "equivalent" THEN "equivalent"
  ELSE IF judgment.verdict = wins THEN "candidate_better"
  ELSE IF judgment.severity = "critical" THEN "worse_critical"
  ELSE "worse_minor"

\* What a set of labels agrees on: the stronger label of a harm class only if
\* it is the only one, nothing across the boundary.
Agreed(labels, otherwise) ==
  CASE labels = {"candidate_better"} -> "candidate_better"
    [] labels = {"worse_critical"} -> "worse_critical"
    [] labels \subseteq NotWorse /\ labels # {"candidate_better"} -> "equivalent"
    [] labels \subseteq Worse /\ "worse_minor" \in labels -> "worse_minor"
    [] OTHER -> otherwise

\* reconcile_position_outcomes
Reconcile(left, right) == Agreed({left, right}, Abstain)

\* Mutant: one vote decides, whatever the floor of the panel.
MajorityWithoutFloor(votes, minValid) ==
  LET eligible == {j \in DOMAIN votes : votes[j] # Abstain}
  IN IF eligible = {} THEN "unresolved"
     ELSE Agreed({votes[j] : j \in eligible}, "unresolved")

\* majority_outcome over a panel's votes: abstentions do not count, and below
\* the floor (capped by the number of judges asked) nothing is decided.
MajorityOutcome(votes, minValid) ==
  LET asked == DOMAIN votes
      eligible == {j \in asked : votes[j] # Abstain}
      cap == IF minValid < Cardinality(asked) THEN minValid ELSE Cardinality(asked)
      panelFloor == IF cap < 1 THEN 1 ELSE cap
  IN IF Cardinality(eligible) < panelFloor
       THEN "unresolved"
       ELSE Agreed({votes[j] : j \in eligible}, "unresolved")

=============================================================================
