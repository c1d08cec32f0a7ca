SPECIFICATION Spec
CONSTANTS
  InitialWriters = {1, 2}
  LateWriters = {}
  MAX_RECENT_TIPS = 4
  MAX_CROSS_LINKS = 3
  SnapshotInterval = 500
  MinChanges = 100
  KeepRecentNodes = 50
  GcAfterPrune = FALSE
  Editors = {1, 2}
  MaxChanges = 6
  MaxGrants = 0
  MaxExtras = 0
PROPERTIES CoverageNeverShrinks
CHECK_DEADLOCK FALSE
