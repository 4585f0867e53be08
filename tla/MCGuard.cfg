CONSTANTS
  claude = claude
  ollama = ollama
  gemini = gemini
  c1 = c1
  c2 = c2
  c3 = c3
  c4 = c4
  Calls = {c1, c2, c3, c4}
  Providers = {claude, ollama, gemini}
  ProviderOf <- MCProviderOf
  Limited = {claude, gemini}
  Burst <- MCBurst
  Reported = {0, 1}
  Price <- MCPrice
  Threshold = 1
  Cooldown = 1
  DailyMax = 2
  PerTaskMax = 0
  Thresholds = {}
  Costs = {0, 1, 2}
  Rounding = 0
  LastDay = 2
  RecordCaps = {9}
SPECIFICATION Spec
INVARIANTS BookedWithinLimit OnlyAgentFailuresCount EveryReturnCounted
PROPERTIES ImplementsBreaker NoCallHeldUp
CHECK_DEADLOCK FALSE
