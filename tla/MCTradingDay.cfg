CONSTANTS
  None = None
  Replica = {a, b}
  Symbol = {x}
  Calendars <- MCCalendars
  Today <- MCToday
  Readings <- MCReadings
  Deadlines <- MCDeadlines
  Settings <- MCSettings
  Outcome = {"completed", "timeout"}
  MaxCommands <- MCBounds
SPECIFICATION FairSpec
INVARIANTS TypeOK SnapshotFresh CloseIsOne
PROPERTIES PunctualFills RoundsInOrder CommandsEnd
CHECK_DEADLOCK FALSE
