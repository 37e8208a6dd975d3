CONSTANTS
  Handles = {h1, h2}
  Peers = {p1, p2}
  Dirs = {sent, received}
  MaxConns = 2
  MaxMessages = 2
  MaxUnits = 3
  MaxMissed = 2
  LossModes = {{"connect", "acl"}, {"disconnect", "acl"}}
  Duplex = FALSE
SPECIFICATION CommandSpec
INVARIANTS
  TypeOK
  EpochsAreConnections
  LosslessImportIsExact
  EpochHasOneLife
  StoredIsOnePeer
  StoredIsComplete
  RecordsMatchEvents
SYMMETRY Interchangeable
CHECK_DEADLOCK FALSE
