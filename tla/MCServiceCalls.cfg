SPECIFICATION Spec
CONSTANTS
  Calls = {1, 2}
  PlainCalls = {1}
  Services <- MCServices
  MaxSteps = 2
  NoVersion = NoVersion
CHECK_DEADLOCK FALSE
INVARIANT TypeOK
INVARIANT UndisturbedEntriesExpire
INVARIANT EffectsAreAudited
