CONSTANTS
  Pairs <- MCPairs
  Judgments <- MCJudgments
  SampledIn <- MCSampledIn
  Grouping <- MCGrouping
  Ids = {"unclustered", "cluster-0", "cluster-1"}
  NeedsName <- MCNeedsName
  Systems <- MCSystems
  Prompts <- MCPrompts
  TemplateOf <- MCTemplateOf
  Enough = 100
  Replacements = {"r1", "r2"}
  Holds <- MCHolds
  NoText <- MCNoText
  Validated = {"cluster-0"}
  MaxInvocations = 2
SPECIFICATION Spec
INVARIANTS
  TypeOK
  NamesFitOnce
  AcceptedMeansFixed
CHECK_DEADLOCK FALSE
