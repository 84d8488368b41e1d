CONSTANTS
  Kinds <- MCKinds
  MaxTools = 3
  MaxExecutors = 2
SPECIFICATION FairSpec
INVARIANTS RunsAlone Barrier InterruptibleTruthful
PROPERTIES ResultsDelivered
CHECK_DEADLOCK FALSE
