CONSTANTS
  c1 = c1
  s1 = s1
  g1 = g1
  Main = Main
  Connections <- MCConnections
  Handlers <- MCHandlers
  Services <- MCServices
  UserLists <- MCUserLists
  Gens <- MCGens
SPECIFICATION HelperSpec
INVARIANTS OneMihomo CleanReportIsTrue UserDnsRecoverable
PROPERTIES RecoveryKeptUntilRestored LoopbackOnlyByTakeover
