------------------------------ MODULE MCLWLatch ------------------------------
EXTENDS LWLatch, TLC

Symmetry == Permutations(Workers)
=============================================================================
