SPECIFICATION FairSpec
CONSTANTS
  Ops = {op1}
  Handlers = {h1, h2}
  Callbacks = {c1}
  Execs = {e1, e2}
  Answers = {"local", "remote", "none"}
  LosesAnswers = TRUE
  MaxTxs = 1
  MaxCrashes = 1
  None = None
CHECK_DEADLOCK FALSE
INVARIANTS TypeOK ReportedIsReal
PROPERTIES LivesItsLife AcceptedIsRecorded
