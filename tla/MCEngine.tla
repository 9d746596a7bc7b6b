------------------------------ MODULE MCEngine ------------------------------
EXTENDS Engine, TLC
CONSTANTS c1, c2, i1, i2, i3
MCOneCaller == {c1}
MCCallers == {c1, c2}
MCTwoOpIds == {i1, i2}
MCSymmetryTwo == Permutations(MCTwoOpIds)
MCLifecycle == {"Connect", "Stop", "Pause", "Resume", "Cancel"}
MCAll == AllCommands
=============================================================================
