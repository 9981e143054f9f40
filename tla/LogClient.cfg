SPECIFICATION FairSpec
CONSTANTS
  a = a
  b = b
  Producers = {a, b}
  Main = Main
  Io = Io
  NoThread = NoThread
  ChangeFile = ChangeFile
  StopPackage = StopPackage
  NoPackage = NoPackage
  Garbled = Garbled
  MaxCalls = 2
  MaxStops = 2
  Retry = 1
  FrameLength <- MCFrameLength
  Oversized <- SecondOfAOversized
  OpensFile = TRUE
  Faulty = FALSE
  ShortWrites = FALSE
  SettableModes <- NoModes
INVARIANTS
  UnlockedReadsSafe
  NoLostWakeup
  StopLosesAtMostOne
PROPERTIES
  ImplementsChannel
  SecondStopTerminates
