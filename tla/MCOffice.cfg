SPECIFICATION Spec
CONSTANTS
  u1 = u1
  u2 = u2
  mi2 = mi2
  Invoices = {in1}
  Bills = {bi1}
  Calls = {ca1, ca2}
  MaxTotal = 2
  NoDoc = NoDoc
  Entries = {en1, en2}
  Accounts = {ac1, ac2}
  Income = {ac2}
  Triages = {tr1, tr2}
  Budget = 1
  Weeks = 2
  ConfidenceHigh = 2
  ConfidenceMedium = 1
  Confidences = {0, 1, 2}
  NoAccount = NoAccount
  Users = {u1, u2}
  Founder = u1
  Firms = {fm1}
  MemberInvites = {mi1, mi2}
  ClientInvites = {ci1, ci2}
  Recipient <- MCRecipient
  Requests = {rq1, rq2}
  NoUser = NoUser
  NoFirm = NoFirm
  Shapes <- MCShapes
  TxnIds = {1, 2, 3}
  PayoutSessions = {se1}
  MaxTxns = 4
  MaxEntries = 2
  Assets <- MCAssets
  Laws <- MCLaws
  Horizon = 5
  Proceeds = {0, 12}
  Whole = 10000
  Short <- MCShort
  Chart <- MCChart
  Postings <- MCPostings
  Dates = {1, 2}
  Page = 2
  MaxBook = 3
  cash = cash
  receivable = receivable
  euros = euros
  equipment = equipment
  loan = loan
  sales = sales
  rent = rent
  Clients = {acme, bolt}
  Sessions = {de1, de2}
  FirmRequests <- MCFirmRequests
  NMonths = 2
  Current = 3
  Trades = {fx1, fx2}
  Rates = {1, 2}
  MaxCalls = 3
  None = None
  acme = acme
  bolt = bolt
  fx1 = fx1
  fx2 = fx2
CHECK_DEADLOCK FALSE
INVARIANTS TypeOK DocumentsTie AutonomyHolds MembershipHolds DepositsAreTransfers SchedulesAgree ReportsAgree ReadMissesNothing NothingBehindTheCount RevaluationsNet
