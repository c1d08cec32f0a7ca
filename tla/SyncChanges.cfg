\* Two writers and a third that becomes one, with every limit at its smallest.
SPECIFICATION Spec
CONSTANTS
  InitialWriters = {1, 2}
  LateWriters = {3}
  MAX_RECENT_TIPS = 1
  MAX_CROSS_LINKS = 1
  SnapshotInterval = 2
  MinChanges = 2
  KeepRecentNodes = 1
  GcAfterPrune = TRUE
  Editors = {1, 2}
  MaxChanges = 3
  MaxGrants = 1
  MaxExtras = 1
INVARIANTS ChangesCovered
PROPERTIES TreesServed
CHECK_DEADLOCK FALSE
