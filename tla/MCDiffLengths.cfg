CONSTANTS
  Fields = {fa, fb}
  MaxItems = 2
  Values <- TwoLevels
  Size <- Depth
SPECIFICATION ReportSpec
INVARIANT DiffReturns
CHECK_DEADLOCK FALSE
