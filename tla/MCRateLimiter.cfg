SPECIFICATION LimiterSpec
CONSTANTS
  Addrs = {a1, a2}
  Limit = 2
  Window = 2
  Ban = 3
  MaxNow = 6
INVARIANTS
  SpanAtMostLimit
