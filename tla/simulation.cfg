CONSTANTS
  plant = plant
  viewer = viewer
  script = script
  Assets <- MCAssets
  Kind <- MCKind
  Delta <- MCDelta
  Sleeps = {3}
  MaxDelay = 2
  MaxTime = 3
  MaxRuns = 2
  Use = {"restart", "hasty", "quick", "force", "failing"}
SPECIFICATION Spec
INVARIANTS
  TypeOK
  QuietBetweenRuns
  TimesTogether
CHECK_DEADLOCK FALSE
