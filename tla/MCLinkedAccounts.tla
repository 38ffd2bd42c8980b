-------------------------- MODULE MCLinkedAccounts --------------------------
EXTENDS LinkedAccounts, TLC

LinkSymmetry ==
    Permutations(Profiles) \union Permutations(SessionWallets) \union Permutations(Requests)

\* One path is chosen at a time (the choices share nothing), beside one other
\* request of several steps; the route that links a wallet runs alone, beside a
\* choice linkAccount makes the same rows.  No step depends on the allowances
\* or the identity graph: allowances are granted one at a time when no request
\* is in flight, and nothing is explored behind a link in the graph.
Choosing(r) == req[r].step \in {"reading", "checking"} \/ req[r].answer # "none"
FewChoices ==
    /\ Cardinality({r \in Requests : Choosing(r)}) <= 1
    /\ Cardinality({r \in Requests : req[r].step # "idle" /\ ~Choosing(r)}) <= 1
    /\ \A r \in Requests : req[r].step \in {"creating", "linking"} =>
           \A q \in Requests \ {r} : req[q] = Idle
    /\ Cardinality(allowances) <= 1
    /\ allowances # {} => \A r \in Requests : req[r] = Idle
    /\ graph = {}
=============================================================================
