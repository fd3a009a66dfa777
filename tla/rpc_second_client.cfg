CONSTANTS
  MaxClients = 2
  MaxCalls = 1
  MaxRuns = 1
  Usage = {}
SPECIFICATION FairSpec
PROPERTY EveryCallReturns
