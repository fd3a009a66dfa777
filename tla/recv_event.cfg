CONSTANTS
  Procs = {p1, p2}
  Writers = {w1}
  Chans = {c1, s1}
  ServiceChans = {s1}
  EventMax = 2
  MaxClears = 1
  NoProc = NoProc
  Master = Master
  NoChan = NoChan
SPECIFICATION Spec
SYMMETRY Symmetry
INVARIANTS
  TypeOK
  GrantsDistinct
  NoEventOfPreviousRun
