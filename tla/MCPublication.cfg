CONSTANTS
  Publisher = {p1, p2}
  Round = {n1, n2}
  Replica = {a, b}
  Absent = Absent
  MaxCalls = 2
SPECIFICATION MCSpec
INVARIANTS TypeOK CommittedWhole LiveIsArchived CompletedOnce SequentialLiveIsLatest
PROPERTIES ArchiveFinal OrphanNeverPublished ArchiveIsAtomic
CHECK_DEADLOCK FALSE
