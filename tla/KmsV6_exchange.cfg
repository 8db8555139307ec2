SPECIFICATION Spec
CONSTANTS
  B = 2
  Bytes = {0, 1, 2, 3}
  RequestSize = 3
  RequestPad = 1
  TailSize = 1
  HwId <- MCHwId
  Requests <- MCRequests
  Answers <- MCAnswers
  Randoms <- MCRandoms
  Enc <- MCEnc
  Dec <- MCDec
  XorByte <- MCXorByte
  Sha <- MCSha
  Hmac <- MCHmac
INVARIANTS BlocksRestored RequestUnderstood AnswerUnderstood AnswerVerifiable
