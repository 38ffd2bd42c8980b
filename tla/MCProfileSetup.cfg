SPECIFICATION SetupFairSpec
CONSTANTS
  Profiles = {p1}
  Keys = {k1, k2}
  Clients = {d1}
  Requests = {r1, r2}
  KeysPerProfile = 2
  LinkMayFail = TRUE
  MaxCrashes = 1
  MaxAborts = 1
  None = None
CHECK_DEADLOCK FALSE
INVARIANTS WalletMatchesMapping ClustersBounded
PROPERTIES AddressedIsMapped CreationEnds
