SPECIFICATION Spec
CONSTANTS
  Clients = {c1}
  MaxFds = 2
  MaxRequests = 1
  TimeoutSecs = 1
PROPERTY NoRequestCut
