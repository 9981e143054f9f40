SPECIFICATION Spec
CONSTANTS
  a = a
  b = b
  Producers = {a, b}
  Main = Main
  Io = Io
  NoThread = NoThread
  ChangeFile = ChangeFile
  StopPackage = StopPackage
  NoPackage = NoPackage
  Garbled = Garbled
  MaxCalls = 1
  MaxStops = 0
  Retry = 1
  FrameLength <- MCFrameLength
  Oversized <- NoneOversized
  OpensFile = FALSE
  Faulty = FALSE
  ShortWrites = FALSE
  SettableModes <- NoModes
INVARIANTS
  WriteNextMessageUnderLock
