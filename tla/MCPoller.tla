------------------------------ MODULE MCPoller ------------------------------
EXTENDS PollerInv, TLC

Symmetry == Permutations(Pollers)
=============================================================================
