SPECIFICATION Spec
CONSTANTS
  Phones = {p1, p2}
  Conns <- MCConns
  TTL = 1
  MaxOpens = 1
  MaxNow = 0
  MaxFaults = 0
  MaxEvents = 1
INVARIANTS
  TokenOnce
