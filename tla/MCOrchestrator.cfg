CONSTANTS
  a = a
  b = b
  c = c
  missing = missing
  x = x
  y = y
  Tasks = {a, b, c}
  Ids = {a, b, c, missing}
  IdOf <- MCOwnId
  NodeOf <- MCOwnId
  Graphs <- MCGraphs
  Agents = {x, y}
  Work = {a, b, c}
  NoAgent = NoAgent
  Judge = Judge
  Matches <- MCMatches
  Price <- MCPrice
  Setups <- MCSetups
SPECIFICATION OrchestratorSpec
INVARIANTS BuildIsExact ContextIsComplete ReturnsQuiet LostWorkWasReported WorktreeIsOwn FinalAccountsForAll
PROPERTIES ImplementsOrder FailureEndsExecute
CHECK_DEADLOCK FALSE
