---------------------------- MODULE MCWorldServer ----------------------------
EXTENDS WorldServer, TLC

MCSymmetry == Permutations(Conns)
=============================================================================
