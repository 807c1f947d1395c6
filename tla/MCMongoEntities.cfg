SPECIFICATION Spec
CONSTANTS
  Requests = {r1, r2}
  Ids = {e1, e2}
  n1 = n1
  n2 = n2
  v1 = v1
  v2 = v2
  Names <- MCNames
  Values <- MCValues
  NewValues <- MCNewValues
  Functions <- MCFunctions
  Results <- MCResults
  ResultOf <- MCResultOf
  Evaluated <- MCEvaluated
  FilterLists <- MCFilterLists
  MaxNested = 2
  MaxOperations = 1
CHECK_DEADLOCK FALSE
INVARIANT TypeOK
INVARIANT VersionsAreNotInvented
INVARIANT ErrorsLeaveNothing
INVARIANT FiltersMissNothing
PROPERTY SubEntitiesSurviveRewrites
PROPERTY DeletionsAreFinal
SYMMETRY Symmetry
