--------------------------- MODULE MCOwnedCommands ---------------------------
EXTENDS OwnedCommands, TLC
CONSTANTS r1, r2
OneReconciler == {r1}
TwoReconcilers == {r1, r2}
Symmetric == Permutations(TwoReconcilers)
==============================================================================
