CONSTANTS
  Events = {r1}
  Reports = {r1}
  NoEvent = NoEvent
  Replies <- FewReplies
  Refused = {}
  ConnectTimeout = 10
  MaxFaults = 2
SPECIFICATION FairSpec
PROPERTY QueueAlwaysDrains
CHECK_DEADLOCK FALSE
