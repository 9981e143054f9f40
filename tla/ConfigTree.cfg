SPECIFICATION Spec
CONSTANTS
  activity = activity
  components = components
  currentSet = currentSet
  application = application
  connection = connection
  console = console
  connections = connections
  consoles = consoles
  plain = plain
  dotted = dotted
  empty = empty
  text = text
  null = null
  object = object
  array = array
  Name <- MCName
  Activity = activity
  Components = components
  CurrentSet = currentSet
  Application = application
  NoName = empty
  Parts <- MCParts
  Kind <- MCKind
  Text = text
  Null = null
  Object = object
  Array = array
  File <- MCFile
INVARIANTS NothingMissing ExtrasBelowMainNames ThrowsForNames RecursionIsBounded
CHECK_DEADLOCK FALSE
