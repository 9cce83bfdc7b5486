SPECIFICATION FairSpec
CONSTANTS
  five = five
  nine = nine
  late = late
  zero = zero
  r1 = r1
  Gone = Gone
  None = None
  Tids = {t1}
  Contents <- MCContents
  Blank = {}
  Months = {1, 2}
  MonthOf <- MCMonthOf
  Rows = {}
  RowContent <- MCRowContent
  Workers = {w1}
  MayClose = {}
  MayCrash = FALSE
  MaxChanges = 2
  MaxEdits = 1
PROPERTIES KeepsCatchingUp
CHECK_DEADLOCK FALSE
