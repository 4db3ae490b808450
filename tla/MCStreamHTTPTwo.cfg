CONSTANTS
  Requests <- MCTwoMessages
  EOFWithData = {FALSE}
  Limit = 3
SPECIFICATION Spec
INVARIANT StreamOfMessages
CHECK_DEADLOCK FALSE
