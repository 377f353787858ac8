SPECIFICATION MCSpec
CONSTANTS
  Base = 4
  LenBytes = 2
  MaxFrameLen = 5
  MaxSends = 2
  MaxNameBytes = 6
  ToastChars = 2
  SasBits = 2
  SasSpare = 2
  Addrs = {a1, a2}
  Limit = 2
  Window = 2
  Ban = 3
  MaxNow = 6
  NoXml <- MCNoXml
  Inputs <- MCInputs
  Magic <- MCMagic
  Types <- MCTypes
  Frames <- MCFrames
  Foreign <- MCForeign
INVARIANTS
  ForeignContained
  FailsForAReason
  WireFormats
  ScreenFormats
  LimiterTypeOK
  SpanAtMostTwice
PROPERTIES
  ImplementsFifo
  BanEnds
CHECK_DEADLOCK FALSE
