SPECIFICATION FairSpec
CONSTANTS
  e1 = e1
  e2 = e2
  e3 = e3
  Events = {e1, e2, e3}
  Malformed = {e3}
  BatchSize = 2
  MaxRestarts = 1
  NoEvent = NoEvent
PROPERTIES
  EventuallyAcked
  PartialBatchFlushed
CHECK_DEADLOCK FALSE
