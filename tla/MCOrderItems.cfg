SPECIFICATION Spec
CONSTANTS
    Orders = {o1, o2, o3}
    SalesItems = {i1, i2, i3}
    MaxOrderItems = 2
    NoRow = NoRow
    MaxRows = 4
SYMMETRY Symmetry
INVARIANT TypeOK
INVARIANT RefundsOnlyForPaidOrders
PROPERTY RefundReleasesItem
CHECK_DEADLOCK FALSE
