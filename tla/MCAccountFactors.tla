-------------------------- MODULE MCAccountFactors --------------------------
EXTENDS AccountFactors, TLC

RequestSymmetry == Permutations(Requests)
=============================================================================
