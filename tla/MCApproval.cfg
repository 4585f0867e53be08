CONSTANTS
  None = None
  Requests = {r1, r2}
  Ids = {i1, i2}
  Responders = {u1, u2}
  PendingCap = 1
  HistoryCaps = {1, 2}
SPECIFICATION SafeSpec
SYMMETRY MCSymmetry
INVARIANTS EntriesAgree VerdictWasSent HistoryOfDecided NothingLeftBehind
CHECK_DEADLOCK FALSE
