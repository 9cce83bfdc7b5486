SPECIFICATION Spec
CONSTANTS
  five = five
  nine = nine
  late = late
  zero = zero
  r1 = r1
  Gone = Gone
  None = None
  Tids = {t1}
  Contents <- MCContents
  Blank = {}
  Months = {1, 2}
  MonthOf <- MCMonthOf
  Rows = {r1}
  RowContent <- MCRowContent
  Workers = {w1}
  MayClose = {}
  MayCrash = FALSE
  MaxChanges = 1
  MaxEdits = 1
INVARIANTS NoCrossSourceDouble
CHECK_DEADLOCK FALSE
