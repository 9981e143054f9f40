SPECIFICATION Spec
CONSTANTS
  activity = activity
  components = components
  currentSet = currentSet
  application = application
  geometry = geometry
  connection = connection
  definitions = definitions
  host = host
  g1 = g1
  g2 = g2
  text = text
  null = null
  object = object
  array = array
  Name <- MCName
  Activity = activity
  Components = components
  CurrentSet = currentSet
  Application = application
  GeometryName = geometry
  Component <- MCComponent
  Definitions <- MCDefinitions
  Scalar <- MCScalar
  Geometry <- MCGeometry
  Null = null
  Object = object
  Array = array
  NoGeometry = NoGeometry
  UserTrees <- MCUserTrees
  Torn = Torn
  Props <- MCProps
  MaxUndo = 1
  Faulty = TRUE
INVARIANTS CloseNeverThrows StartKeepsValues OwnFileIsGood
PROPERTY GeometryComesBack
