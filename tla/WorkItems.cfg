SPECIFICATION FairSpec
CONSTANTS
  Browsers = {b1}
  Loaders = {l1}
  Processes = 2
  MaxEdits = 2
  MaxFaults = 1
  LastId = 5
INVARIANTS
  OneWinner
  LandsWhereAimed
  RefusedMeansUnsaved
PROPERTIES
  RefinesTable
  QueueSettles
