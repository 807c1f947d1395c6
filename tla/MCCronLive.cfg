SPECIFICATION FairSpec
CONSTANTS
    Replicas = {p1, p2}
    NoHolder = NoHolder
    Retries = 1
    LastTick = 3
    MaxFailures = 2
    Punctual = TRUE
PROPERTIES
    UndisturbedTicksExecuted
CHECK_DEADLOCK FALSE
