SPECIFICATION FairSpec
CONSTANTS
  Slots <- TwoSlots
  Protocol = "warp"
  MaxDaemons = 2
  MaxEdits = 1
INVARIANTS
  TypeOK
  NoOrphan
PROPERTIES
  ImplementsContract
  OnlyOrphansDestroyed
  StopLeavesNone
  FailureReportedOnce
  CrashIsNoticed
