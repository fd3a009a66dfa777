CONSTANTS
  plant = plant
  viewer = viewer
  script = script
  Assets <- MCAssets
  Kind <- MCKind
  Delta <- MCDelta
  Sleeps = {0, 3}
  MaxDelay = 2
  MaxTime = 3
  MaxRuns = 2
  Use = {}
SPECIFICATION FairSpec
PROPERTIES
  EventsAcknowledged
  RunMoves
CHECK_DEADLOCK FALSE
