CONSTANTS
  Providers = {claude, gemini}
  Threshold = 2
  Cooldown = 2
  MaxInFlight = 3
  DailyMax = 4
  PerTaskMax = 3
  Thresholds = {40, 70}
  Costs = {1, 3, 4}
  Rounding = 1
  LastDay = 3
  RecordCaps = {1, 2}
  Savers = {s1, s2}
  MaxSaves = 3
  AutoSaveCount = 2
  Careful = {TRUE, FALSE}
  Users = {u1, u2}
  MaxSessions = 3
  MaxTurns = 2
  a = a
  b = b
  c = c
  missing = missing
  PoolTasks = {a, b, c}
  PoolIds = {a, b, c, missing}
  PoolDeps <- MCDeps
  Workers = {w1, w2}
  Nobody = Nobody
  NotifyCap = 1
  Requests = {r1}
  Ids = {i1}
  Responders = {v1, v2, v3}
  None = None
  PendingCap = 1
  HistoryCaps = {2}
SPECIFICATION MCSpec
INVARIANTS OpenIffThreshold OverrunBounded RecordsMatchDaily AlertedAtMostTwice NothingSavedIsLost UnsavedBounded RemovedStaysRemoved AcceptedAtMostTwice
PROPERTIES ClosesOnlyByCooldownOrSuccess EventuallyAdmits NoAlertMissed PoolImplementsOrder QueuedCallReturns RespondReturns
CHECK_DEADLOCK FALSE
