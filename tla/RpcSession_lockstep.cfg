SPECIFICATION Spec
CONSTANTS
  CtxIds = {0, 1}
  CallIds = {1}
  Offers <- DedicatedOffers
  KmsBodies <- GoodBodies
  Forms <- FullForm
  MaxPdus = 4
  Window = 1
  SendBuffer = 1
  TimeoutSecs = 1
  OverflowChecks = TRUE
INVARIANTS DecodeAgrees NoGarbledReply
