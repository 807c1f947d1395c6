SPECIFICATION FairSpec
CONSTANTS
    Calls = {c1, c2}
    SimpleCalls = {c2}
    Connections = {k1}
    NoConnection = NoConnection
    MaxOperations = 2
    MaxBlocks = 1
CHECK_DEADLOCK FALSE
INVARIANT TypeOK
INVARIANT ConnectionsAreExclusive
INVARIANT AllOrNothing
INVARIANT ErrorsLeaveNothing
INVARIANT SuccessIsDurable
INVARIANT IdleConnectionsHoldNoWrites
PROPERTY RequestsGetConnections
