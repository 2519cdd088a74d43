--------------------------- MODULE MCCertification ---------------------------
(***************************************************************************)
(* An instance of Certification for TLC.                                   *)
(***************************************************************************)
EXTENDS Certification, TLC

CONSTANTS p1, p2, p3, p4, j1, j2

Symmetry == Permutations({p1, p2, p3, p4}) \cup Permutations({j1, j2})

\* A panel may see no harm, critical harm, or nothing.
VoteSample == {"equivalent", "worse_critical", Abstain}

\* An assertion of each severity, named for it.
EachSeverity == [a \in Assertions |-> a]

\* One regressed pair is within the noise.
OneTolerated == {R \in SUBSET Traces : Cardinality(R) <= 1}

=============================================================================
