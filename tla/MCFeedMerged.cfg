SPECIFICATION Spec
CONSTANTS
  five = five
  nine = nine
  late = late
  zero = zero
  r1 = r1
  Gone = Gone
  None = None
  Tids = {t1, t2}
  Contents <- MCContents
  Blank = {}
  Months = {1, 2}
  MonthOf <- MCMonthOf
  Rows = {r1}
  RowContent <- MCRowContent
  Workers = {w1}
  MayClose = {}
  MayCrash = FALSE
  MaxChanges = 2
  MaxEdits = 0
INVARIANTS OwnEntries
CHECK_DEADLOCK FALSE
