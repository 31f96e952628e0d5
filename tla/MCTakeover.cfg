SPECIFICATION TakeoverSpec
CONSTANTS
  first = first
  Command = {first}
  Offered <- OneGrantOrResume
  MaxGrant = 2
INVARIANT TakeoverNeedsResume
\* A person may run no further command and the Bridge wait for ever.
CHECK_DEADLOCK FALSE
