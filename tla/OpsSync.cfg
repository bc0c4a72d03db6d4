SPECIFICATION FairSpec
CONSTANTS
  Instances = {a, b}
  MaxSpends = 1
  MaxCommands = 2
  MaxLosses = 1
INVARIANTS
  SpendsAccounted
  NewestIsQueued
PROPERTIES
  SnapshotReflects
  FleetConverges
