------------------------- MODULE MCBatchOperations -------------------------
EXTENDS BatchOperations, TLC

CONSTANTS op1, op2, op3, b1, b2

\* Two operations in the first batch, one in a second batch (a retry).
TwoBatches == (b1 :> <<op1, op2>>) @@ (b2 :> <<op3>>)

\* Clients sign every operation of the batch, and may hand in an id between
\* them that the batch does not hold.
WholeLists == {<<op1, op2>>, <<op1, op3, op2>>}

\* Bounds: while two requests are under way for operations or batches, no
\* callback and no poll is; after a restart, for operations without a record and
\* for a list with an unknown id nothing is under way beside one request; beside
\* a second batch no more than one request, and nothing that has ended at Orby;
\* a restart comes before no second batch and no deletion of the profile.
Writers == {h \in Handlers : handler[h] # IdleHandler \/ executor[h] # IdleExecutor}
Readers == {c \in Callbacks : callback[c] # IdleCallback} \cup {p \in Pollers : poller[p] # IdlePoller}
Alone ==
  \/ crashes > 0
  \/ creator[b1].pc = "error"
  \/ \E x \in Handlers : executor[x].list = <<op1, op3, op2>>
Bounds ==
  /\ Cardinality(Writers) <= 1 \/ Readers = {}
  /\ Alone => Cardinality(Writers) + Cardinality(Readers) <= 1
  /\ creator[b2] # FreshCreator =>
       /\ Cardinality(Writers) <= 1 /\ Readers = {}
       /\ \A e \in Execs : orby[e].status \notin Settled
  /\ crashes > 0 => creator[b2] = FreshCreator /\ profile

Symmetry == Permutations(Execs) \cup Permutations(Handlers)
=============================================================================
