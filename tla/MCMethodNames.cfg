SPECIFICATION Spec
CONSTANTS
  Classes = {c1, c2}
  MayFail = {"GetEnv", "AddCapabilities", "SetEventCallbacks", "SetEventNotificationMode", "GetClassMethods", "GetMethodName", "GetMethodDeclaringClass", "GetClassSignature", "NewObjectArray", "NewLongArray"}
  Tables <- MCTables
  Locations <- MCLocations
  MaxEntries = 2
  MaxStart = 1
  MaxQueries = 2
INVARIANTS
  TypeOK
  Primed
  SampledIsNamed
  NothingKept
  LineRight
SYMMETRY Symmetry
CHECK_DEADLOCK FALSE
