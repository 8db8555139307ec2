SPECIFICATION Spec
CONSTANTS
  Threads = {t1}
  Ports = {1688}
  MaxCalls = 2
INVARIANT StopStops
