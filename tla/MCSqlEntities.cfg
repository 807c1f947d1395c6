SPECIFICATION Spec
CONSTANTS
  Requests = {1, 2}
  Names <- MCNames
  Methods <- AllMethods
  MaxSize = 3
  MaxOperations = 1
CHECK_DEADLOCK FALSE
INVARIANT TypeOK
INVARIANT MaximumIsKept
PROPERTY UpdatesBuildOnTheirRead
PROPERTY OthersKeepTheirSubEntities
