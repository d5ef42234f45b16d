SPECIFICATION MCSpec
CONSTANTS
  Peer = {p1, p2}
  NoPeer = NoPeer
  NumPieces = 2
  BlocksPerPiece = 2
  LastBlocks = 1
  MaxInFlight = 2
  InitialWindow = 1
  Leecher = {1, 2, 3}
  UploadSlots = 2
  Rounds = 2
  Rate = {0, 1}
  IndexSpan = 3
  Envs = {{"rates", "timeout"}, {"rates", "fail"}, {"interest"}}
  BLOCK_SIZE = 2
  Starts <- MCStarts
  Dirs = {1, 2}
  Sources = {s, t}
  Declared = {s}
  MaxTrackerActors = 3
  MaxFailures = 1
INVARIANT SnapshotsValidate
