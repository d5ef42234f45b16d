SPECIFICATION Spec
CONSTANTS
  Peer = {p1, p2}
  NoPeer = NoPeer
  NumPieces = 2
  BlocksPerPiece = 2
  LastBlocks = 1
  Has <- EverythingEverywhere
  MaxInFlight = 2
  InitialWindow = 1
  SufficientPeers = 1
  TorrentMailbox = 1
  PeerMailbox = 2
  MaxConnects = 2
  MaxExpired = 0
  PieceCount = 2
  Env = {"send", "corrupt", "write", "commit", "busy", "cancel"}
SYMMETRY PeerSymmetry
INVARIANTS FlowSound CompletionSound VerifiedStaysGood
