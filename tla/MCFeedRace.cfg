SPECIFICATION Spec
CONSTANTS
  five = five
  nine = nine
  late = late
  zero = zero
  r1 = r1
  Gone = Gone
  None = None
  Tids = {t1}
  Contents <- MCContents
  Blank = {}
  Months = {1, 2}
  MonthOf <- MCMonthOf
  Rows = {}
  RowContent <- MCRowContent
  Workers = {w1, w2}
  MayClose = {}
  MayCrash = FALSE
  MaxChanges = 3
  MaxEdits = 0
PROPERTIES RemovedStaysOut
CHECK_DEADLOCK FALSE
