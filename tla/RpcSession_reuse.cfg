SPECIFICATION Spec
CONSTANTS
  CtxIds = {1}
  CallIds = {1}
  Offers <- ReusingOffers
  KmsBodies <- GoodBodies
  Forms <- FullForm
  MaxPdus = 3
  Window = 1
  SendBuffer = 1
  TimeoutSecs = 1
  OverflowChecks = FALSE
INVARIANT DecodeAgrees
