--------------------------- MODULE MCSideTunnels ---------------------------
EXTENDS SideTunnels, TLC
CONSTANTS t1, t2, v1, v2
MCTasks == {t1, t2}
MCClients == {v1, v2}
MCSideSymmetry == Permutations(MCTasks) \union Permutations(MCClients)
=============================================================================
