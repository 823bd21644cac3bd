SPECIFICATION FairSpec
CONSTANTS
  Ids = {1, 2, 3, 4, 5, 6, 7}
  Example = 1
  NoId = 0
  MaxPolls = 2
  Defects <- AllDefects
  Foreign = {1}
INVARIANTS TypeOK ConformingHandlerPasses DefectIsDetected NothingLeftBehind ForeignLossIsReported
PROPERTY SuiteEnds
CHECK_DEADLOCK FALSE
