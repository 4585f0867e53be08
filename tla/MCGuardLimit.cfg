CONSTANTS
  claude = claude
  ollama = ollama
  gemini = gemini
  c1 = c1
  c2 = c2
  c3 = c3
  c4 = c4
  Calls = {c1, c2, c3, c4}
  Providers = {claude, ollama, gemini}
  ProviderOf <- MCProviderOf
  Limited = {claude}
  Burst <- MCBurst
  Reported = {0, 1}
  Price <- MCPrice
  Threshold = 2
  Cooldown = 1
  DailyMax = 2
  PerTaskMax = 0
  Thresholds = {}
  Costs = {0, 1, 2}
  Rounding = 0
  LastDay = 1
  RecordCaps = {9}
SPECIFICATION SafeSpec
PROPERTIES StopsAtDailyLimit
CHECK_DEADLOCK FALSE
