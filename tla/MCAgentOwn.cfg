SPECIFICATION FairAgent
CONSTANTS
  Depth = 2
  MaxLen = 1
  Lens <- MCLens
  MaxPushes = 6
  OpenRetries = 2
  Autostart = FALSE
  MaxLive = 1
  MaxEvents = 3
CHECK_DEADLOCK FALSE
PROPERTIES
  OwnWritesNotStaged
