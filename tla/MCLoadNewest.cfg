CONSTANTS
  Savers = {s}
  MaxSaves = 10
  AutoSaveCount = 1
  Careful = {FALSE}
SPECIFICATION CheckpointSpec
PROPERTIES LoadTakesLatest
CHECK_DEADLOCK FALSE
