SPECIFICATION Spec
CONSTANTS
  Byte = 8
  FLAP_MARK = 5
  Value <- MCValue
  RequestId <- MCRequestId
  Noise <- MCNoise
  MaxCount = 8
INVARIANTS StoresInside GivesBack CountsInside
PROPERTY CountingEnds
