SPECIFICATION Spec
CONSTANTS
  Threads = {t1, t2}
  Ports = {1688, 1689}
  MaxCalls = 4
INVARIANTS StartsAndStopsAlternate OwnErrorKept SoleErrorPointerValid
