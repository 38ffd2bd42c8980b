SPECIFICATION IdentityFairSpec
CONSTANTS
  Accounts = {a1, a2}
  Profiles = {p1}
  Requests = {r1, r2}
  Modes = {"linked"}
  SelfLinks = FALSE
  None = None

CHECK_DEADLOCK FALSE
INVARIANTS IdentityTypeOK
PROPERTIES RequestsEnd
