\* Two members: replay and compaction, several contexts, competing role records.
SPECIFICATION MCSpec
CONSTANTS
  Member = {m1, m2}
  Controller = m1
  Rosters = {{m1, m2}, {m1}}
  MaxEpoch = 3
  MaxRecords = 3
  MaxChanges = 2
  MaxWal = 2
  MaxOutbox = 1
  MaxFaults = 2
INVARIANTS NoEquivocation ReceiptsExact HistoryKept JournalRecovers
PROPERTIES ContentAdmitted
CHECK_DEADLOCK FALSE
