SPECIFICATION IdentitySpec
CONSTANTS
  Accounts = {a1, a2}
  Profiles = {p1, p2}
  Requests = {r1}
  Modes = {"linked"}
  SelfLinks = FALSE
  None = None
CHECK_DEADLOCK FALSE
INVARIANTS OneActivePerAccount
