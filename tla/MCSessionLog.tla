---------------------------- MODULE MCSessionLog ----------------------------
EXTENDS SessionLog, TLC
Symmetry == Permutations(Procs)
=============================================================================
