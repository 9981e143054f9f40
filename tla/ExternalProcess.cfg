SPECIFICATION FairSpec
CONSTANTS
  dir = dir
  x = x
  y = y
  empty = empty
  Cmds = {dir}
  Exit = Exit
  Line <- MCLine
  EmptyLine = empty
  MaxCommands = 1
  MaxLines = 2
  Faulty = TRUE
INVARIANTS
  ShownInOrder
  StoppedMeansGone
PROPERTIES
  StopSettles
