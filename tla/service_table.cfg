CONSTANTS
  srv = srv
  c1 = c1
  c2 = c2
  s1 = s1
  s2 = s2
  s3 = s3
  Procs <- MCProcs
  Services <- MCServices
  Role <- MCRole
  ServiceOf <- MCServiceOf
  Config <- MCConfig
  Stale <- MCStale
  MaxServices = 3
  MaxClients = 2
  EventMax = 4
  NoProc = NoProc
  NoService = NoService
  Mode = {}
SPECIFICATION FairSpec
INVARIANTS
  TypeOK
  OneInSection
  HandlesValid
  HandlesReceive
  OneLiveOwner
PROPERTY
  KeepsRegistry
  CreationEnds
CHECK_DEADLOCK FALSE
