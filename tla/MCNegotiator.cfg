CONSTANTS
  alice = alice
  bob = bob
  leader = leader
  n1 = n1
  n2 = n2
  q1 = q1
  All = All
  None = None
  Agents = {alice, bob}
  Messages = {n1, n2, q1}
  Notices = {n1, n2}
  Questions = {q1}
  Answers = {x1}
  FromOf <- MCFromOf
  ToOf <- MCToOf
  InboxCap = 1
  BroadcastCap = 1
  MaxInboxes <- MCInboxes
SPECIFICATION Spec
INVARIANTS BroadcastsInOrder
PROPERTIES EveryoneHears AskComesBack CloseComesBack
CHECK_DEADLOCK FALSE
