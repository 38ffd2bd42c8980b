----------------------------- MODULE MCDesktop ------------------------------
EXTENDS Desktop, TLC

LeastPosition == -1

DesktopSymmetry == Permutations(Owners) \union Permutations(Folders)
                       \union Permutations(Apps) \union Permutations(Names)
                       \union Permutations(Links)
=============================================================================
