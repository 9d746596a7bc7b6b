---------------------------- MODULE MCSupervisor ----------------------------
EXTENDS Supervisor, TLC
CONSTANTS c1, s1, g1
MCConnections == {c1}
MCHandlers == {c1, Main}
MCServices == {s1}
MCGens == {g1}
MCUserLists == {{"own", "127.0.0.1"}}
=============================================================================
