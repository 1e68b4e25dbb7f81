\* An app that is woken, stopped and crashes three times in all, with two writes
\* to what it watches, by a user or by its own steps.
SPECIFICATION FairSpec
CONSTANTS
  Poller = {1, 2, 3}
  None = 0
  MaxWrite = 2
  MaxMove = 3
INVARIANTS
  OneLoopWatches
  StopIsKept
  OnlyEditsRestart
PROPERTY EditsReachTheApp
\* The app may sleep for good.
CHECK_DEADLOCK FALSE
