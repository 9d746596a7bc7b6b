CONSTANTS
  c1 = c1
  i1 = i1
  i2 = i2
  NoOp = NoOp
  StartupCaller = c1
  QueueCapacity = 16
  Callers <- MCCallers
  OpIds <- MCOpIds
  Commands <- AllCommands
  DirtyStart = FALSE
  ClientCalls = TRUE
  CoreMayDie = TRUE
  Savers <- MCSavers
  Labels = {"bits"}
  MaxQueued = 1
SPECIFICATION MCSpec
 
PROPERTIES QuitEventuallyLeaves DisconnectSettles PanelSettles
CHECK_DEADLOCK FALSE
