CONSTANTS
  MaxClients = 2
  MaxCalls = 3
  MaxRuns = 2
  Usage = {"progress"}
SPECIFICATION Spec
INVARIANTS
  TypeOK
  OnlyCurrentBusy
  RequestsOfThisRun
PROPERTY KeepsContract
