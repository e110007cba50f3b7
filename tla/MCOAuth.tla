------------------------------- MODULE MCOAuth -------------------------------
EXTENDS OAuth, TLC

ClientSymmetry == Permutations(Clients)
=============================================================================
