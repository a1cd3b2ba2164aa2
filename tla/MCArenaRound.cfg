CONSTANTS
  Replica = {a}
  MaxRound = 2
  MaxCommands = 3
  Version = {v1, v2}
  Malformed = Malformed
  None = None
SYMMETRY Symmetry
SPECIFICATION Spec
INVARIANTS TypeOK TradesAreStaged StagedIsSealed
PROPERTY LiveGrows
CHECK_DEADLOCK FALSE
