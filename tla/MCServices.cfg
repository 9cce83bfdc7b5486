SPECIFICATION Spec
CONSTANTS
  v1 = v1
  t1 = t1
  t2 = t2
  Callbacks = {cb1, cb2}
  Imports = {im1}
  Disconnects = {di1}
  MaxRetries = 1
  MaxGets = 2
  MaxPairs = 2
  Vendors = {v1, v2}
  Tins = {t1, t2}
  TinOf <- MCTinOf
  Matchings = {ma1, ma2}
  Filings = {fi1}
  Unsupplied = Unsupplied
  Signups = {su1, su2, su3}
  Turns = {tu1, tu2}
  RuleGates = {privacy}
  LlmGates = {tone}
  Mandatory = {privacy}
  Judges = {meta, mistral}
  Decisions = {"force", "block"}
  Once = {on1}
  Daily = {da1}
  Weekly = {we1}
  Chunks = {ch1}
  SendHour = 0
  RunAt = 2
  HoursPerDay = 2
  MaxTime = 14
  NotRun = NotRun
  Handlers = {ha1, ha2}
  Keep = 1
  FoldAt = 2
  MaxMessages = 5
  MaxEpochs = 2
  Pullers = {pu1, pu2}
  Posts = {po1, po2}
  Sources = {sc1}
  SourceOf <- MCSourceOf
  Verdicts <- MCVerdicts
  MinVolume = 1
  MaxWeeks = 1
  MaxRuns = 1
  pu1 = pu1
CHECK_DEADLOCK FALSE
INVARIANTS TypeOK ConfirmedMeansDead LogIsHonest WelcomedOnce WarmFloorHolds HeldBackIsReviewed RecurringOncePerPeriod MemoryHolds WorkersStayApart OutcomesShield
PROPERTIES ServiceCallsEnd
