\* A handler may publish an event from inside an event: depth two.  Three
\* registrations leave one to add and one to remove during a walk of two.
CONSTANTS
  t1 = t1
  t2 = t2
  Started = Started
  Completed = Completed
  Threads <- MCThreads
  EventTypes <- MCEventTypes
  MaxRegs = 3
  MaxEvents = 2
  MaxDepth = 2
SPECIFICATION FairSpec
INVARIANTS
  HeardOnceInOrder
  UnsubscribeFindsIt
PROPERTIES
  PublishEnds
CHECK_DEADLOCK FALSE
