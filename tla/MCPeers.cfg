SPECIFICATION MCSpec
CONSTANTS
  MAX_FRAME_PAYLOAD_LENGTH = 200
  WireScripts <- MCScripts
  OurHash <- MCHash
  Handshakes <- MCHandshakes
  Parts = {1, 2}
  SessionStarts <- MCSessions
  PeerMailbox = 2
  Keepalive = 2
  Disconnect = 7
  Delay = 1
  MaxTalk = 3
  MetadataPieces = 3
  MaxOffers = 2
  MaxPeers = 2
  MaxHooks = 1
  MaxRechokes = 2
  MaxCrashes = 1
  InitAutostart = TRUE
  InitSufficient = 1
  Timer = {t1, t2, t3}
  Leecher = {1, 2, 3}
  UploadSlots = 2
  Rounds = 2
  Rate = {0, 1}
  IndexSpan = 8
  Envs = {{}}
INVARIANTS FramesSound SessionSound IdleSound MetadataSound LifecycleSound
PROPERTIES DownloadEnds VanishedDropped MetadataArrives
PROPERTIES LifecycleGoesOn EveryoneGetsATurn
