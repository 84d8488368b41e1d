CONSTANTS
  Kinds <- MCKinds
  MaxTools = 2
  MaxExecutors = 1
SPECIFICATION FairSpec
PROPERTIES RemainingResultsArrive
CHECK_DEADLOCK FALSE
