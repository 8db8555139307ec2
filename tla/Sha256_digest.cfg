SPECIFICATION Spec
CONSTANTS
  B = 4
  L = 2
  Base = 16
  Mark = 8
  Ipad = 3
  Opad = 5
  XorByte <- MCXor
  Hash <- MCHash
  Keys <- MCKeys
  Messages <- MCMessages
INVARIANT NothingLost
INVARIANT PaddedAsStandard
INVARIANT DigestAsStandard
