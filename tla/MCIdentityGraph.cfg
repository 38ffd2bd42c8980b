SPECIFICATION IdentitySpec
CONSTANTS
  Accounts = {a1, a2, a3}
  Profiles = {p1}
  Requests = {r1, r2}
  Modes = {"linked", "isolated"}
  SelfLinks = FALSE
  None = None
CONSTRAINT Bounds
SYMMETRY Symmetry
CHECK_DEADLOCK FALSE
INVARIANTS IdentityTypeOK TraversalIsReachability AccessFollowsDirectLinks
PROPERTIES SearchAdvances
