SPECIFICATION FairSpec
CONSTANTS
  Conns = {c1}
  MaxOps = 2
  Lens <- MCLens
  MaxLen = 1
  Depth = 2
  MaxCopies = 3
  MaxFaults = 1
INVARIANTS
  TypeOK
  BeamAcked
  EventsInOrder
  StageAnswersTrue
PROPERTIES
  PauseHolds
  ImplementsDelivery
  RequestsAnswered
  TasksEnd
