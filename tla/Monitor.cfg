SPECIFICATION FairSpec
CONSTANTS
  a = a
  b = b
  Character = {a, b}
  NewLine = NewLine
  Outputs <- MCOutputs
  MaxLength = 2
  MaxCommands = 2
  MaxPosted = 1
  Faulty = TRUE
  ShortWrites = TRUE
INVARIANTS
  TypeOK
  SeenIsSent
PROPERTIES
  BufferStable
  StuckForGood
  ImplementsChannel
  EnterUnlocks
