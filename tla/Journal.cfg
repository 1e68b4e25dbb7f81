\* One client, a channel of two and six events: the channel overflows, the
\* files rotate twice and the daemon restarts at any point.
SPECIFICATION Spec
CONSTANTS
  r1 = r1
  Reader = {r1}
  Buf = 2
  MaxSeq = 6
INVARIANT OnDiskIsOrdered
PROPERTY PassesOverNothing
