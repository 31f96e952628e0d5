SPECIFICATION Spec
CONSTANTS
  first = first
  second = second
  Command = {first, second}
  Offered <- TwoCommands
  MaxGrant = 2
INVARIANTS
  TypeOK
  OutageKeepsClosed
  ClosureIsNotLoss
  PauseIsNotUpgraded
\* A person may run no further command and the Bridge wait for ever.
CHECK_DEADLOCK FALSE
