\* Two daemons of one stack and three commands.
SPECIFICATION FairSpec
CONSTANTS
  Exclusive = TRUE
  Daemon = {1, 2}
  Command = {11, 12, 13}
  None = 0
INVARIANTS
  FoundWhileServing
  
  DownLeavesNothing
PROPERTY AskedEnds
CHECK_DEADLOCK FALSE
