CONSTANTS
  Loopback = Loopback
  Private = Private
  Iran = Iran
  Public = Public
  p1 = p1
  t1 = t1
  google = google
  gstatic = gstatic
  w1 = w1
  w2 = w2
  k1 = k1
  Proxies <- MCProxies
  Tunnels <- MCTunnels
  Registry <- MCRegistry
  Labels = 3
  IranLabels = 2
  Hosts <- MCHosts
  Search = google
  PinClients <- MCPinClients
  Callers <- MCCallers
  MaxRevision = 2
  MaxLists = 2
  ClientIds <- MCClientIds
  Saves <- MCCallers
  Ports <- MCPorts
  MaxSaved = 2
  Releases = 2
  MaxGenerations = 3
  BarWidth = 12
  Requested = 2
  Margin = 1
  Layouts <- MCLayouts
  MaxChanges = 3
SPECIFICATION MCSpec
SYMMETRY MCSymmetry
INVARIANTS DocumentInvariant   UpdateInvariant InstallsWhatWasOffered ReloadInvariant TaskbarInvariant
CHECK_DEADLOCK FALSE
