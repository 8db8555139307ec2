SPECIFICATION FairSpec
CONSTANTS
  Clients = {c1, c2, c3}
  MaxFds = 2
  MaxRequests = 1
  TimeoutSecs = 1
INVARIANTS TypeOK BacklogOnce OneLateAccept
PROPERTIES SignalEndsProcess WaitingIsServed
