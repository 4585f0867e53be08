CONSTANTS
  None = None
  Requests = {r1}
  Ids = {i1}
  Responders = {u1}
  PendingCap = 1
  HistoryCaps = {2}
SPECIFICATION SafeSpec
INVARIANTS HistoryMatchesVerdict
CHECK_DEADLOCK FALSE
