SPECIFICATION FairSpec
CONSTANTS
  CtxIds = {0, 1, 2}
  CallIds = {1, 2}
  Offers <- WindowsOffers
  KmsBodies <- AllBodies
  Forms <- AllForms
  MaxPdus = 2
  Window = 2
  SendBuffer = 1
  TimeoutSecs = 1
  OverflowChecks = TRUE
INVARIANTS TypeOK NoSilentDrop AcceptsIfPossible
PROPERTIES ServiceSpec SessionEnds
