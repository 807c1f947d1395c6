SPECIFICATION Spec
CONSTANTS
    Users = {u1, u2}
    SalesItems = {i1, i2}
    Orders = {o1, o2}
    NoUser = NoUser
    RowBatchSize = 500
SYMMETRY Symmetry
INVARIANT TypeOK
INVARIANT NoDoubleSale
INVARIANT OrderItemsStaySold
INVARIANT CleaningWorksOnUnpaidOrders
PROPERTY ReservationNotTakenOver
PROPERTY SaleUndoneOnlyWithItsOrder
PROPERTY ReadOrdersAreReleased
PROPERTY ImplementsOrderBook
