SPECIFICATION BatchSpec
CONSTANTS
  op1 = op1  op2 = op2  op3 = op3
  b1 = b1  b2 = b2
  Ops = {op1, op2, op3}
  Handlers = {h1, h2}
  Callbacks = {c1}
  Execs = {e1, e2}
  Answers = {"local"}
  LosesAnswers = FALSE
  MaxTxs = 0
  MaxCrashes = 1
  None = None
  Batches = {b1, b2}
  BatchOps <- TwoBatches
  SignedLists <- WholeLists
  Pollers = {p1}
CONSTRAINT Bounds
SYMMETRY Symmetry
CHECK_DEADLOCK FALSE
INVARIANTS AtomicCreation AtomicStopsAtFirstFailure SubmittedMeansSent CompletedMeansSucceeded
