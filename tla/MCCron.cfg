SPECIFICATION Spec
CONSTANTS
    Replicas = {p1, p2, p3}
    NoHolder = NoHolder
    Retries = 2
    LastTick = 3
    MaxFailures = 2
    Punctual = FALSE
SYMMETRY Symmetry
INVARIANTS
    TypeOK
    AtMostOncePerTick
CHECK_DEADLOCK FALSE
