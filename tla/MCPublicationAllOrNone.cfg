CONSTANTS
  Publisher = {p1}
  Round = {n1, n2}
  Replica = {a, b}
  Absent = Absent
  MaxCalls = 2
SPECIFICATION MCSpec
INVARIANT EveryBookOrNone
CHECK_DEADLOCK FALSE
