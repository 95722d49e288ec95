\* Two devices whose tables change between reads and within them.
SPECIFICATION FairSpec
CONSTANTS
  d1 = d1
  d2 = d2
  Width = 3
  Targets <- TwoTargets
  Tables <- TheTables
  Absent = Absent
  maxSnapshotRoutes = 2
INVARIANTS MarkTellsTruth SnapshotIsTrue GatewaysAreFound
PROPERTIES MarksEnd
