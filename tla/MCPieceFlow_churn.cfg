SPECIFICATION Spec
CONSTANTS
  Peer = {p1, p2}
  NoPeer = NoPeer
  NumPieces = 2
  BlocksPerPiece = 1
  LastBlocks = 1
  Has <- EverythingEverywhere
  MaxInFlight = 1
  InitialWindow = 1
  SufficientPeers = 1
  TorrentMailbox = 2
  PeerMailbox = 2
  MaxConnects = 2
  MaxExpired = 1
  PieceCount = 2
  Env = {"pause", "send", "expire", "disconnect", "stop"}
SYMMETRY PeerSymmetry
INVARIANT RequestsAccounted
