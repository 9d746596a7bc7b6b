CONSTANTS
  c1 = c1
  c2 = c2
  i1 = i1
  i2 = i2
  r1 = r1
  r2 = r2
  NoOp = NoOp
  StartupCaller = c1
  QueueCapacity = 16
  Callers <- MCCallers
  OpIds <- MCOpIds
  Commands <- MCCommands
  Requests <- MCRequests
SPECIFICATION MCFairSpec
INVARIANTS QueueAccounting ProtocolInvariant
PROPERTIES EveryOperationFinishes CallsReturn RequestsEnd
CHECK_DEADLOCK FALSE
