SPECIFICATION FairSpec
CONSTANTS
  h1 = h1
  h2 = h2
  m1 = m1
  m2 = m2
  Histories <- SomeHistories
  Live <- SomeLive
  MaxTransports = 3
INVARIANTS TypeOK HistoryFirst LiveInOrder OnlyCurrentOpen NothingLeftOpen GatedWhileRebuilt
PROPERTIES GateKept GateOpens
CHECK_DEADLOCK FALSE
