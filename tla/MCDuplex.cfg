CONSTANTS
  Handles = {h1}
  Peers = {p1}
  Dirs = {"sent", "received"}
  MaxConns = 1
  MaxMessages = 2
  MaxUnits = 2
  MaxMissed = 0
  LossModes = {{}}
  Duplex = TRUE
SPECIFICATION Spec
INVARIANT ContinuationMatchesStart
CHECK_DEADLOCK FALSE
