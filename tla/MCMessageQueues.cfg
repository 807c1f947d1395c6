SPECIFICATION Spec
CONSTANTS
  Operations = {o1, o2}
  FreeOperations = {o1}
  Resent = {o1}
  Consumers = {k1, k2}
  Nobody = Nobody
  MaxCopies = 1
SYMMETRY Symmetry
CHECK_DEADLOCK FALSE
INVARIANT TypeOK
INVARIANT CommittedOperationsHaveSent
PROPERTY ImplementsMessageDelivery
