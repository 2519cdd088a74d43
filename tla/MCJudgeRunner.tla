---------------------------- MODULE MCJudgeRunner ----------------------------
(***************************************************************************)
(* An instance of JudgeRunner for TLC.                                     *)
(***************************************************************************)
EXTENDS JudgeRunner

\* One answer on each side of every boundary that the outcome depends on.
AnswerSample ==
  {[verdict |-> "equivalent", severity |-> "none"],
   [verdict |-> "a_better", severity |-> "minor"],
   [verdict |-> "b_better", severity |-> "critical"],
   Garbage}

=============================================================================
