SPECIFICATION FairSpec
CONSTANTS
  a = a
  b = b
  Producers = {a, b}
  Main = Main
  Io = Io
  NoThread = NoThread
  ChangeFile = ChangeFile
  StopPackage = StopPackage
  NoPackage = NoPackage
  Garbled = Garbled
  MaxCalls = 1
  MaxStops = 1
  Retry = 2
  FrameLength <- MCFrameLength
  Oversized <- NoneOversized
  OpensFile = FALSE
  Faulty = TRUE
  ShortWrites = TRUE
  SettableModes <- AllModes
INVARIANTS
  FrameIntact
PROPERTIES
  WedgedForGood
  StopSettles
  AcceptedIsDelivered
