SPECIFICATION SessionSpec
CONSTANTS
  SessionIds = {s1}
  Tokens = {t1, t2, t3, t4}
  Requests = {r1}
  Logouts = {l1, l2}
  Unit = 3
  AccessSeconds = 2
  RefreshSeconds = 3
  DefaultSeconds = 4
  MaxTime = 7
  None = None
SYMMETRY Symmetry
CHECK_DEADLOCK FALSE
INVARIANTS NothingPassesAfterLogout PresentedTokenIsDead
