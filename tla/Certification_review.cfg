SPECIFICATION Spec
CONSTANTS
  p1 = p1
  p2 = p2
  p3 = p3
  p4 = p4
  j1 = j1
  j2 = j2
  Traces = {p1, p2, p3, p4}
  Judges = {j1, j2}
  Assertions = {"critical", "major", "minor"}
  SeverityOf <- EachSeverity
  MinJudges = 2
  MaxCritical = 0
  MinClusterSize = 2
  Tolerated <- OneTolerated
  Sample <- VoteSample
  Reviewed = {"equivalent", "worse_critical"}
  MaxFailing = 1
  MaxOverrides = 2
SYMMETRY Symmetry
INVARIANTS
  TypeOK
  NoLuckyPass
  ClustersMatchCertificate
  CriticalMajorityBlocks
  ReviewCanClear
PROPERTIES
  HarmNeverHelps
CHECK_DEADLOCK FALSE
