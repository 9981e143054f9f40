SPECIFICATION FairSpec
CONSTANTS
  Main = Main
  Io = Io
  Starters = {Main, Io}
  NoThread = NoThread
  Size <- MCSize
  Settings <- MCSettings
  DefaultSizes <- MCDefault
  NoClient = NoClient
  TheClient = TheClient
  MaxCalls = 3
INVARIANTS OneClient PushFindsClient SettingsApply
PROPERTY ExitGoesOn
CHECK_DEADLOCK FALSE
