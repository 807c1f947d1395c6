SPECIFICATION Spec
CONSTANTS
    Users = {u1}
    SalesItems = {i1}
    Orders = {o1}
    NoUser = NoUser
    RowBatchSize = 500
SYMMETRY Symmetry
INVARIANT SoldItemHasOrder
ACTION_CONSTRAINT NoOrderPlacedWhileCleaning
