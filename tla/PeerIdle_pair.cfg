SPECIFICATION IdleSpec
CONSTANTS
  Keepalive = 2
  Disconnect = 7
  Delay = 1
  MaxTalk = 2
INVARIANT ResponsiveStays
