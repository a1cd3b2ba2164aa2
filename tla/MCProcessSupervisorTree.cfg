CONSTANTS
  leader = leader
  tool = tool
  Leader = leader
  Descendant <- DescendantOne
  Limit <- Limits
  PipeSize = 1
  MaxWritten = 1
SPECIFICATION Spec
INVARIANTS TreeTerminated
CHECK_DEADLOCK FALSE
