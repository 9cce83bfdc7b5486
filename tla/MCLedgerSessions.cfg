SPECIFICATION FairSpec
CONSTANTS
  Owner = Owner
  Cpa = Cpa
  Bank = Bank
  Uncat = Uncat
  Meals = Meals
  old = old
  held = held
  k1 = k1
  k2 = k2
  None = None
  Sessions = {s1, s2, s3}
  Keys <- MCKeys
  Actors <- MCActors
  Members <- MCMembers
  Accounts <- MCAccounts
  Archived = {}
  Calls <- MCCalls
  InitialJournals <- MCJournals
  InitialPeriods <- MCPeriods
  RequireApproval = TRUE
  Today = 1
  NMonths = 2
  Horizon = 1
INVARIANTS LocksHold
PROPERTIES ImplementsBooks EveryCallAnswered
