SPECIFICATION FairSpec
CONSTANTS
    Users = {u1}
    SalesItems = {i1, i2}
    Orders = {o1, o2}
    NoUser = NoUser
    RowBatchSize = 500
PROPERTY UnpaidOrdersEnd
PROPERTY ReservationsEnd
