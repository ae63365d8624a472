\* No max_concurrency, one worker, and two workers for a group of three.
CONSTANTS
  N = 3
  GroupOptions <- MCGroupOptions
  Limits = {0, 1, 2}
SPECIFICATION AgentFairSpec
INVARIANTS
  TypeOK
  UnitBarrier
  SiblingsShareContext
  NothingExecutedIsLost
  OutcomeIsFirstDeclaredFailure
  CancelledOnlyForAReason
  EventsMatchOutcome
  AgentTellsItsWorkflow
PROPERTIES
  CallEnds
  RefinesRun
