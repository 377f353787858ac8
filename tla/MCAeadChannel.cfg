SPECIFICATION Spec
CONSTANTS
  MaxCtr <- MCMaxCtr
  FrameTypes <- MCFrameTypes
  Messages <- MCMessages
INVARIANTS
  TypeOK
  NonceNeverReused
  OpenedInOrder
  OpenedAuthentic
  NeverWedged
