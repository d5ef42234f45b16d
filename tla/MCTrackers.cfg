SPECIFICATION MCSpec
CONSTANTS
  Udp = {u1, u2}
  Http = {h1}
  Configured = {{u1}, {u1, u2}, {h1}}
  RetryAttempts = 1
  ConnIdAttempts = 2
  RestartLimit = 1
  MinInterval = 1
  MaxInterval = 3
  FallbackInterval = 0
  Intervals = {5}
  Unset = 9
  LeftValues = {1, 2}
  MailboxSize = 2
  MaxIds = 2
  MaxExpiries = 1
  MaxOps <- MCMaxOps
  LosesTimer = {h1}
  Fault = {"odd", "send"}
INVARIANTS TransactionsSound AnnouncesSound
PROPERTIES EventIsAnnounced HandlersEnd
