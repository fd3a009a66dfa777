CONSTANTS
  a = a
  b = b
  c = c
  Assets <- MCAssets
  Listed <- MCListed
  Graphs <- MCGraphs
  MaxMonitors = 2
  Modes = {"immediate", "unwatched", "serve"}
  Use = {"interrupt", "nospawn", "nocmd"}
SPECIFICATION FairSpec
INVARIANTS
  TypeOK
  StartsInOrder
  StopsInReverse
  TerminatedMeansStopped
PROPERTY LossStopsAll
CHECK_DEADLOCK FALSE
