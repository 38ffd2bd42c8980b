-------------------------- MODULE MCOrbyOperations --------------------------
EXTENDS OrbyOperations, TLC

\* Requests, callbacks and Orby's ids are interchangeable.
Symmetry ==
  Permutations(Handlers) \cup Permutations(Callbacks) \cup Permutations(Execs)
=============================================================================
