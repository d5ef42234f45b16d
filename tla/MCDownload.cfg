SPECIFICATION MCSpec
CONSTANTS
  IdBits = 3
  LocalId = 0
  NodeIds = {1, 4, 5, 6}
  Ips = {i1, i6}
  V6 = {i6}
  Movers = {5}
  BucketSize = 2
  FailureLimit = 2
  RotationInterval = 2
  Ttl = 2
  PruneInterval = 1
  PeerLimit = 1
  Swarms = {4}
  MaxTime = 6
  Uptime = 0
  Traffics = {{"ping", "get"}, {"ping", "find", "learn", "fail"}, {"get", "announce", "tick"}}
  InfoHash = {a}
  DhtMailboxSize = 3
  MaxAdds = 2
  Nodes = {1, 2, 3}
  Addr <- MCAddr
  Peers = {p}
  Concurrency = 2
  LookupPeerLimit = 1
  LookupBucketSize = 2
  IdSpace = 4
  Replies <- MCReplies
  LookupFaults <- MCFaults
  Peer = {p1, p2}
  NoPeer = NoPeer
  NumPieces = 2
  BlocksPerPiece = 1
  LastBlocks = 1
  Has <- EverythingEverywhere
  MaxInFlight = 1
  InitialWindow = 1
  SufficientPeers = 1
  TorrentMailbox = 2
  PeerMailbox = 2
  MaxConnects = 2
  MaxExpired = 1
  PieceCount = 2
  Env = {"expire"}
INVARIANTS TableSound CyclesSound LookupSound
PROPERTIES TableSteps RemovedQuiesces LookupGoesOn TorrentDownloads
