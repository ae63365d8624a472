CONSTANTS
  CallIds = {"c1"}
  ToolIds = {"t1", "t2"}
  Batches <- MCBatches
  MaxIterations = 2
  MaxRuns = 2
SPECIFICATION FairSpec
INVARIANTS
  TypeOK
  HistoryIsPaired
  ProvidersAcceptHistory
  EventsTellRecords
  WireIsPaired
  RecordsTellHistory
PROPERTIES
  RunEnds
  RefinesConversation
CHECK_DEADLOCK FALSE
