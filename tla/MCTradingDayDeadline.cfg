CONSTANTS
  None = None
  Replica = {a, b}
  Symbol = {x}
  Calendars <- MCCalendars
  Today <- MCToday
  Readings <- MCReadings
  Deadlines <- MCDeadlines
  Settings <- MCSeasonOnly
  Outcome = {"completed", "timeout", "quota_exhausted"}
  MaxCommands <- MCOneCommand
SPECIFICATION FairSpec
PROPERTY FillsAfterDecisions
CHECK_DEADLOCK FALSE
