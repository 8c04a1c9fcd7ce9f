\* Two reports, one of which the server refuses for ever; no faults.
CONSTANTS
  Events = {r1, r2}
  Reports = {r1, r2}
  NoEvent = NoEvent
  Replies <- FewReplies
  Refused = {r1}
  ConnectTimeout = 10
  MaxFaults = 0
SPECIFICATION FairSpec
PROPERTY EachIsDelivered
CHECK_DEADLOCK FALSE
