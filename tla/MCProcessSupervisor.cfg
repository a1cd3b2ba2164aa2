CONSTANTS
  leader = leader
  tool = tool
  Leader = leader
  Descendant <- DescendantOne
  Limit <- Limits
  PipeSize = 1
  MaxWritten = 2
SPECIFICATION Spec
INVARIANTS TypeOK CaptureIsComplete KilledGroupGone
PROPERTIES Returns NoBackPressure
CHECK_DEADLOCK FALSE
