\* Liveness of the delivery path: one report, three faults.
CONSTANTS
  Events = {r1}
  Reports = {r1}
  NoEvent = NoEvent
  Replies <- FewReplies
  Refused = {}
  ConnectTimeout = 10
  MaxFaults = 3
SPECIFICATION FairSpec
PROPERTIES
  GatewayConnects
  RecordingEnds
  ClosedClientIsNoticed
  QueueDrains
  ShutdownEnds
\* All events recorded and delivered, faults spent: the agent is idle.
CHECK_DEADLOCK FALSE
