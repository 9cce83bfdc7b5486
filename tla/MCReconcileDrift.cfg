SPECIFICATION Spec
CONSTANTS
  l1 = l1
  l2 = l2
  l3 = l3
  e1 = e1
  e3 = e3
  None = None
  Sessions = {s1, s2}
  Lines = {l1}
  Staged = {}
  Entries = {e1}
  Amount <- MCAmount
  Movement <- MCMovement
  Balances = {0, 1}
  Calls <- DriftCalls
INVARIANTS LockedTies
