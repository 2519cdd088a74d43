SPECIFICATION FairSpec
CONSTANTS
  Pairs = 1
  Judges = 2
  MinJudges = 2
  MaxAttempts = 2
  InterruptAfter = 5
  Answers <- AnswerSample
  MaxFaults = 2
INVARIANTS
  TypeOK
  VotesFollowTable
  SecondAttemptJustified
  PositionBiasAbstains
  DecidedByPanel
PROPERTIES
  VotesAreStable
  CheckpointKept
  JudgingEnds
