----------------------------- MODULE MCSessions -----------------------------
(* Instances of Sessions for TLC. *)
EXTENDS Sessions, TLC

Symmetry ==
  Permutations(SessionIds) \cup Permutations(Tokens) \cup Permutations(Requests)
    \cup Permutations(Logouts)
=============================================================================
