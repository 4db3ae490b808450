CONSTANTS
  Scripts <- MCScripts
  HasBody = {TRUE, FALSE}
  Codes = {1, 3, 16, 17, 18}
  MDs <- MCMDs
  MaxCalls = 2
SPECIFICATION Spec
INVARIANTS ReceivedInOrder ClosedTruly
PROPERTY CallEnds
CHECK_DEADLOCK FALSE
