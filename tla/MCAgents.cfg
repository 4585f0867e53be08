CONSTANTS
  c1 = c1
  c2 = c2
  Procs = {c1, c2}
  Stopper = stopper
  Threads = {c1, c2, stopper}
  NoThread = NoThread
  MaxStarts = 1
  Lines = 2
  LineCap = 1
  EventCap = 1
  Setups <- MCSetups
SPECIFICATION Spec
INVARIANTS OneReaper NoOrphans SuccessIsWhole StopLeavesNothing
PROPERTIES CallsEnd
CHECK_DEADLOCK FALSE
