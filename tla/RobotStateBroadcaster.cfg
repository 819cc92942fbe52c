SPECIFICATION FairSpec
CONSTANTS
  TryCounts <- MCTryCounts
  Descriptions <- MCDescriptions
  ConfigureWaits = TRUE
  Versions = 3
INVARIANTS
  TypeOK
  StatesAreNotMixed
PROPERTIES
  StatesReachTopics
  DestructorReturns
CHECK_DEADLOCK FALSE
