CONSTANTS
  Requests <- MCFile
  EOFWithData = {FALSE}
  Limit = 3
SPECIFICATION Spec
INVARIANT ChunksAreTheFile
CHECK_DEADLOCK FALSE
