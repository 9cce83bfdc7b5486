SPECIFICATION FeedSpec
CONSTANTS
  five = five
  nine = nine
  late = late
  zero = zero
  r1 = r1
  Gone = Gone
  None = None
  Tids = {t1, t2}
  t1 = t1
  Contents <- MCWithZero
  Blank <- MCZero
  Months = {1, 2}
  MonthOf <- MCMonthOf
  Rows = {r1}
  RowContent <- MCRowContent
  Workers = {w1, w2}
  w1 = w1
  MayClose = {1}
  MayCrash = TRUE
  MaxChanges = 3
  MaxEdits = 1
INVARIANTS OneSyncIsFaithful NoneForgotten CountsOnce CompetingPostsDeduplicated
CHECK_DEADLOCK FALSE
