SPECIFICATION FairSpec
CONSTANTS
  first = first
  second = second
  Command = {first}
  Offered <- OneCommand
  MaxGrant = 2
INVARIANT OutageKeepsClosed
PROPERTY ClosureStopsBridge
\* A person may run no further command and the Bridge wait for ever.
CHECK_DEADLOCK FALSE
