SPECIFICATION MCSpec
CONSTANTS
  h1 = h1
  h2 = h2
  Hashes = {h1, h2}
  Clients = {c1, c2}
  c1 = c1
  c2 = c2
  MaxSpawns = 4
  Private = {h2}
  Scripts <- MCScripts
  PeersConnect = TRUE
  EngineRestarts = 1
  MaxCrashes = 1
  Readers = {r1, r2}
  Capacity = 2
  MaxEvents = 3
  PeerIds = {p, q}
  MaxConnections = 2
  MaxTorrentCrashes = 1
INVARIANTS StreamSound PeerScopesSound EngineSound
PROPERTIES StreamImplementsLog EndIsTold PeerStreamEnds CallsReturn
