SPECIFICATION Spec
CONSTANTS
  Nothing = Nothing
  Sentinel = Sentinel
  Broken = Broken
  Traces = {1, 2, 3, 4, 5}
  Events = {1, 2, 3, 4, 5, 6}
  Stream <- SevenEvents
  Serialisable = {1, 2, 3, 4, 5}
  Capacity = 2
  MaxRestarts = 1
  Valid = {1, 2, 3, 4, 5}
  Similar <- SecondLikeFirst
  StratumOf <- TwoStrata
  SampleSize = 3
  TemplateOf <- TwoTemplates
  Runs = {"measured", "degraded"}
  SuiteSize = 2
  Bound <- NoFloorOrHalf
  Epsilon = 2
  Pinned = "pinned"
  Answers <- SomeAnswers
  Lapses <- FirstLapses
  Failable = {4}
  Losable = {1}
  MaxInits = 2
  MaxWatches = 2
CONSTRAINT
  CompleteCapture
INVARIANTS
  TypeOK
  JoinedMeansWritten
  QuotasMeetReference
  SampleCoversCapture
  JudgedSuiteIsSound
PROPERTIES
  AcceptedEventuallyWritten
CHECK_DEADLOCK FALSE
