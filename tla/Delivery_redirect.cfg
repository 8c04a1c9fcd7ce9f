CONSTANTS
  Events = {r1}
  Reports = {r1}
  NoEvent = NoEvent
  Replies <- RedirectingReplies
  Refused = {}
  ConnectTimeout = 10
  MaxFaults = 2
SPECIFICATION Spec
INVARIANT AckedIsIngested
CHECK_DEADLOCK FALSE
