SPECIFICATION Spec
CONSTANTS
  Ops = {op1}
  Handlers = {h1, h2}
  Callbacks = {c1}
  Execs = {e1, e2}
  Answers = {"local"}
  LosesAnswers = FALSE
  MaxTxs = 1
  MaxCrashes = 0
  None = None
CHECK_DEADLOCK FALSE
INVARIANTS SentAtMostOnce
