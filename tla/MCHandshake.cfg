SPECIFICATION Spec
CONSTANTS
  Phones = {p1, p2}
  Conns <- MCConns
  Window = 1
  Skews <- MCSkews
  MaxNow = 2
  MaxGen = 2
  MaxEvents = 3
INVARIANTS
  PhoneAgrees
  PcAuthentic
  KeysFresh
CHECK_DEADLOCK FALSE
