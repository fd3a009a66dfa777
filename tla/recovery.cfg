CONSTANTS
  a1 = a1
  a2 = a2
  mmapMaster = mmapMaster
  mmapPro = mmapPro
  lockPro = lockPro
  flockBin = flockBin
  Master = Master
  AssetProcs <- MCAssets
  Files <- MCFiles
  MasterFile = mmapMaster
  Flock = flockBin
  Nobody = Nobody
SPECIFICATION FairSpec
INVARIANTS
  TypeOK
  LiveKeepsFiles
  EvidenceLast
  ReportTrue
PROPERTY CommandEnds
