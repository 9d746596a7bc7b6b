CONSTANTS
  c1 = c1
  c2 = c2
  i1 = i1
  i2 = i2
  i3 = i3
  NoOp = NoOp
  StartupCaller = c1
  QueueCapacity = 16
  Callers <- MCOneCaller
  OpIds <- MCTwoOpIds
  Commands <- MCAll
  DirtyStart = TRUE
  ClientCalls = TRUE
  CoreMayDie = TRUE
SPECIFICATION EngineSpec
SYMMETRY MCSymmetryTwo
PROPERTIES QueueSpec
