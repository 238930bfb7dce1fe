------------------------- MODULE MCTransactionManager -------------------------
EXTENDS TransactionManager, TLC

Symmetry == Permutations(Workers)
=============================================================================
