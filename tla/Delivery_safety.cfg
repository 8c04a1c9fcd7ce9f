\* Safety of the delivery path: one report, one scheduler event, three faults.
CONSTANTS
  Events = {r1, m1}
  Reports = {r1}
  NoEvent = NoEvent
  Replies <- PlainReplies
  Refused = {}
  ConnectTimeout = 10
  MaxFaults = 3
SPECIFICATION Spec
INVARIANTS
  TypeOK
  HistoryThenQueueThenServer
  AckedIsIngested
  DialingTouchesNoBroker
  WorkerHoldsUnacked
  ReachableIsEarned
  HealthShowsFacts
  DuplicatesArePaidFor
  NoHandlerOutlivesGateway
  OutcomeTellsHistory
PROPERTIES
  LostEnqueueIsShown
  TokenlessKeepsAll
  QueueSpec
\* All events recorded and delivered, faults spent: the agent is idle.
CHECK_DEADLOCK FALSE
