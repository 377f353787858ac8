SPECIFICATION MCSpec
CONSTANTS
  Phones = {p1, p2}
  Conns <- MCConns
  TTL = 0
  MaxOpens = 2
  MaxNow = 1
  MaxFaults = 1
  MaxEvents = 2
INVARIANTS
  TypeOK
  ConfirmedByUser
  StoredConfirmed
  PendingIsTheWaitingOne
  CodesAgree
  ConfirmsWhatIsShown
  HintsKnownGood
PROPERTIES
  ConfirmedGetsStored
