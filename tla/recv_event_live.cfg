CONSTANTS
  Procs = {p1, p2}
  Writers = {w1}
  Chans = {c1}
  ServiceChans = {}
  EventMax = 2
  MaxClears = 1
  NoProc = NoProc
  Master = Master
  NoChan = NoChan
SPECIFICATION FairSpec
PROPERTY WriterProgress
