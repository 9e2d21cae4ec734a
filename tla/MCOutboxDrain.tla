--------------------------- MODULE MCOutboxDrain ---------------------------
EXTENDS OutboxDrain, TLC

DrainSymmetry == Permutations(Drains)
=============================================================================
