CONSTANTS
  Process = {p1, p2}
  MaxTime = 3
  MaxEvents = 2
  MaxCommands = 3
  MaxAbandoned = 1
  Builder = {b1, b2, b3}
  Requests = {r1, r2}
  Versions = {1, 2}
  MaxDecodes = 3
  MaxEdits = 2
  Fields = {fa, fb}
  MaxItems = 2
  Values <- TwoLevels
  Size <- Depth
SPECIFICATION CommandSpec
INVARIANTS
  ContentIsPrivate
  MarksKept
  SegmentsFollowMarks
  EntriesAreComplete
  ParserMatchesSchemas
  DecodersAgree
  DifferencesReplay
  ReportsAgree
SYMMETRY Processes
CHECK_DEADLOCK FALSE
