CONSTANTS
  Events = {r1}
  Reports = {r1}
  NoEvent = NoEvent
  Replies <- FewReplies
  Refused = {}
  ConnectTimeout = 10
  MaxFaults = 2
SPECIFICATION Spec
INVARIANT AcceptedIsQueued
CHECK_DEADLOCK FALSE
