CONSTANTS
  k1 = k1
  k2 = k2
  w1 = w1
  w2 = w2
  Clients <- MCClients
  Hiddify = k1
  ProxyPlaces <- MCPlaces
  Callers <- MCCallers
  MaxTime = 1
  MaxBytes = 2
  MaxStarts = 4
  Syncers <- MCCallers
  MaxRemote = 1
SPECIFICATION MCSpec
SYMMETRY MCCallerSymmetry
INVARIANTS  ProgramsInvariant CloudInvariant
CHECK_DEADLOCK FALSE
