-------------------------------- MODULE MCRmp --------------------------------
EXTENDS Rmp, TLC

Symmetry == Permutations(Recvers)
=============================================================================
