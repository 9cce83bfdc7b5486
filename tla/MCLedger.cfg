SPECIFICATION Spec
CONSTANTS
  Owner = Owner
  Cpa = Cpa
  Bank = Bank
  Uncat = Uncat
  Meals = Meals
  Travel = Travel
  None = None
  Keys = {k1, k2}
  Actors <- MCActors
  Members <- MCMembers
  Owners <- MCMembers
  Accountants <- MCCpas
  Accounts <- MCAccounts
  Archived <- MCArchived
  Payloads <- MCPayloads
  NMonths = 2
  Horizon = 1
  MaxRows = 5
INVARIANTS TypeOK LegsTogether ReversalsPaired TrialBalanceTies
PROPERTIES ClosedBooksFrozen AppendOnly ApprovalGate RecategorizeMovesOnly
SYMMETRY KeySymmetry
