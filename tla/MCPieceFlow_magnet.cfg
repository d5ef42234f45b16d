SPECIFICATION FairSpec
CONSTANTS
  Peer = {p1, p2}
  NoPeer = NoPeer
  NumPieces = 1
  BlocksPerPiece = 1
  LastBlocks = 1
  Has <- EverythingEverywhere
  MaxInFlight = 1
  InitialWindow = 1
  SufficientPeers = 1
  TorrentMailbox = 2
  PeerMailbox = 2
  MaxConnects = 2
  MaxExpired = 0
  PieceCount = 0
  Env = {}
PROPERTY DownloadCompletes
