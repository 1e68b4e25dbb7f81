\* Segments of one line each, of which two lines and one run are kept and the first
\* four of a run have a name that is listed; batches of two lines and a backlog of
\* two.
SPECIFICATION FairSpec
CONSTANTS
  Follower = {"desk"}
  MaxRuns = 1
  MaxBytes = 2
  RunNames = 2
  SegNames = 3
  Batch = 2
  Backlog = 2
  MaxLine = 5
  MaxMove = 2
INVARIANTS
  LogIsInOrder
PROPERTIES
  PassesOverNoLine
  CatchesUp
\* Nobody has to print.
CHECK_DEADLOCK FALSE
