\* Three moves in all: instances change, are taken off, put back, added and removed,
\* pages come, the daemon ends.
SPECIFICATION FairSpec
CONSTANTS
  Inst = {1, 2}
  Declared = {1}
  MaxMove = 3
  WireSize = 1
  Page = {1, 2}
INVARIANTS
  SubscriptionIsCurrent
  PageIsTold
PROPERTIES
  ShowsTheStack
  WatchedIsStreamed
\* The moves end, and the stack may stay as it is.
CHECK_DEADLOCK FALSE
