--------------------------- MODULE MCOneTimeCodes ---------------------------
EXTENDS OneTimeCodes, TLC

MCTokens == 1..2
RequestSymmetry == Permutations(Requests)
=============================================================================
