\* A unit of two processes, with the two goroutines that wait for it.
SPECIFICATION FairSpec
CONSTANTS
  N = 2
  Tree = {}
  Term = FALSE
  Waiter = {"watch", "log"}
PROPERTY EveryWaitReturns
CHECK_DEADLOCK FALSE
