CONSTANTS
  Procs = {p}
  Threads = {t1}
  NoThread = NoThread
  MaxStarts = 2
  Lines = 0
  LineCap = 1
SPECIFICATION ProcessSpec
INVARIANT OneReaper
CHECK_DEADLOCK FALSE
