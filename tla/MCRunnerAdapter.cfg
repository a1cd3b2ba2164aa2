CONSTANTS
  Replica = {a, b}
  Field <- Fields
  Session = {s, t}
  None = None
  Unusable = Unusable
  Torn = Torn
  Round = {n, m}
  Deviation <- Deviations
  Output <- Outputs
  MaxCommands = 2
  MaxFaults = 1
SYMMETRY Symmetry
SPECIFICATION Spec
INVARIANTS TypeOK EvidenceIntact LaunchedOnEvidence ConversationKept ConversationsApart
  SharedFailureVoids CompletedOnEvidence
CHECK_DEADLOCK FALSE
