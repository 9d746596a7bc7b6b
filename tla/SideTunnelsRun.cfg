CONSTANTS
  t1 = t1
  t2 = t2
  v1 = v1
  v2 = v2
  Tasks <- MCTasks
  Clients <- MCClients
  Runs = 2
SPECIFICATION SideSpec
SYMMETRY MCSideSymmetry
INVARIANTS TunnelsInvariant LoneCommandsKeepTheirWord
