CONSTANTS
  Replica = {a, b}
  MaxRound = 1
  MaxCommands = 2
  Version = {v1}
  Malformed = Malformed
  None = None
SPECIFICATION FairSpec
PROPERTIES NothingBeforeTheBarrier CommitsAreClean CommandsEnd
CHECK_DEADLOCK FALSE
