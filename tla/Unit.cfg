\* Three processes started one after the other, the last two as trees, stopped
\* with SIGINT, SIGQUIT and SIGKILL; the two goroutines that wait for a unit.
SPECIFICATION FairSpec
CONSTANTS
  N = 3
  Tree = {2, 3}
  Term = FALSE
  Waiter = {"watch", "log"}
INVARIANTS
  OrderlyTeardown
PROPERTIES
  ActsAsOne
  StopReturns
  OneEndsAll
\* A unit ends.
CHECK_DEADLOCK FALSE
