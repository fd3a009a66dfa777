CONSTANTS
  MaxClients = 1
  MaxCalls = 2
  MaxRuns = 2
  Usage = {}
SPECIFICATION FairSpec
PROPERTY EveryCallReturns
