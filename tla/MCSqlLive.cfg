SPECIFICATION Spec
CONSTANTS
  Requests = {1, 2}
  Names <- MCNames
  Methods <- LockingMethods
  MaxSize = 3
  MaxOperations = 1
CHECK_DEADLOCK FALSE
PROPERTY RequestsAreAnswered
