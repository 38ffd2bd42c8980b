-------------------------- MODULE MCIdentityGraph --------------------------
(* Instances of IdentityGraph for TLC. *)
EXTENDS IdentityGraph, Naturals, FiniteSets, TLC

\* Bound: while two requests are under way, some account takes no part: it has
\* no links and no access, and neither request knows it.
Busy == {r \in Requests : request[r].pc # "idle"}
TakesPart(a) ==
  \/ \E b \in Accounts : LinkOf(a, b) # "none"
  \/ \E q \in everLinked : a \in q
  \/ \E p \in Profiles : <<a, p>> \in everAccess
  \/ \E r \in Requests : a \in {request[r].account, request[r].target}
Bounds == Cardinality(Busy) <= 1 \/ \E a \in Accounts : ~TakesPart(a)

Symmetry ==
  Permutations(Accounts) \cup Permutations(Profiles) \cup Permutations(Requests)
=============================================================================
