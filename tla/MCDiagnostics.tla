--------------------------- MODULE MCDiagnostics ---------------------------
EXTENDS Diagnostics
CONSTANTS E1, E2

TwoChunks == <<<<[id |-> 1, width |-> 2], [id |-> 2, width |-> 1]>>, <<[id |-> 3, width |-> 0]>>>>
MCPages == {TwoChunks}
=============================================================================
