----------------------------- MODULE OrderItems -----------------------------
(***************************************************************************)
(* Order items from the order to their delivery or return, on the rows of  *)
(* the order item table (OrderServiceImpl on the SQL database managers).   *)
(*                                                                         *)
(* A row has two identities.  Its id is its index in its order, so orders  *)
(* share ids; its _id is an auto-increment key no other row has.  What a   *)
(* handler addresses by which of the two is the point of this module.      *)
(* Every handler reads its order with a lock, so each is one action; carts *)
(* and reservations are Checkout's, and a sales item is sold or not here.  *)
(***************************************************************************)
EXTENDS Naturals, Sequences

CONSTANTS Orders,         \* identities of orders
          SalesItems,     \* identities of sales items
          MaxOrderItems,  \* bound: items in one order
          MaxRows,        \* bound: rows ever inserted
          NoRow           \* what is not in the table

ASSUME BoundsAssumption == MaxOrderItems \in Nat \ {0} /\ MaxRows \in Nat \ {0}

VARIABLES
    status,     \* status[o]: absent, unpaid, paid or ended
    rows,       \* rows[r]: the row whose _id is r, or NoRow
    nextRow,    \* next value of the auto-increment key
    itemState,  \* itemState[i]: sales item i is sold, unsold or deleted
    refunds,    \* item refund messages sent, by <<order, id>>
    orderRefunds, \* refund messages sent for whole orders
    everPaid    \* orders that were paid, for the properties

vars == <<status, rows, nextRow, itemState, refunds, orderRefunds, everPaid>>
refundVars == <<refunds, orderRefunds>>

Ids == 0 .. MaxOrderItems - 1
RowIds == 1 .. MaxRows
OrderItemStates ==
    {"toBeDelivered", "delivering", "delivered", "returning", "returned"}
Row == [order : Orders, id : Ids, item : SalesItems, state : OrderItemStates]
Current == {"unpaid", "paid"}

TypeOK ==
    /\ status \in [Orders -> {"absent", "unpaid", "paid", "ended"}]
    /\ rows \in [RowIds -> Row \cup {NoRow}]
    /\ nextRow \in 1 .. MaxRows + 1
    /\ itemState \in [SalesItems -> {"unsold", "sold", "deleted"}]
    /\ refunds \subseteq Orders \X Ids
    /\ orderRefunds \subseteq Orders
    /\ everPaid \subseteq Orders

Init ==
    /\ status = [o \in Orders |-> "absent"]
    /\ rows = [r \in RowIds |-> NoRow]
    /\ nextRow = 1
    /\ itemState = [i \in SalesItems |-> "unsold"]
    /\ refunds = {}
    /\ orderRefunds = {}
    /\ everPaid = {}

-----------------------------------------------------------------------------
RowsOf(o) == {r \in RowIds : rows[r] # NoRow /\ rows[r].order = o}
RowsWithId(o, id) == {r \in RowsOf(o) : rows[r].id = id}
ItemsOf(R) == {rows[r].item : r \in R}
Visible(I) == {i \in I : itemState[i] # "deleted"}

IsPaidOrAbsent(o) == status[o] # "unpaid"
\* isPaidOrderPreHook.
IsPaid(o) == status[o] = "paid"

HasAnyState(o, id, s) == RowsWithId(o, id) # {}
HasOrderItemState(o, id, s) == \E r \in RowsWithId(o, id) : rows[r].state = s

WithoutRows(R) == [r \in RowIds |-> IF r \in R THEN NoRow ELSE rows[r]]

\* subEntitiesToDelete: the ids of o's items other than the one to update.
Unlisted(o, id) == {rows[r].id : r \in RowsOf(o) \ RowsWithId(o, id)}

\* updateEntity with one order item.  The items it does not list are removed
\* by deleteEntityById of their id, which takes it for an _id; the listed one
\* is updated WHERE id = ..., in whatever order it is.
UpdateOrderItem(o, id, newState) ==
    LET kept == WithoutRows(Unlisted(o, id))
    IN  rows' = [r \in RowIds |->
                    IF kept[r] # NoRow /\ kept[r].id = id
                      THEN [kept[r] EXCEPT !.state = newState] ELSE kept[r]]

MoveItems(I, newState) ==
    itemState' = [i \in SalesItems |-> IF i \in I THEN newState ELSE itemState[i]]

ReleasesNothing(o, id) == UNCHANGED itemState
\* updateSalesItemStateToForSale: fails if the sales item is gone, and does
\* not ask for its current state.
ReleaseItem(o, id) ==
    /\ Visible(ItemsOf(RowsWithId(o, id))) # {}
    /\ MoveItems(ItemsOf(RowsWithId(o, id)), "unsold")

\* Deletes the orders and, by their foreign key, the rows of their items.
EndOrders(O) ==
    /\ status' = [o \in Orders |-> IF o \in O THEN "ended" ELSE status[o]]
    /\ rows' = WithoutRows(UNION {RowsOf(o) : o \in O})
    /\ UNCHANGED nextRow

-----------------------------------------------------------------------------
IdFromOne(k) == k
\* The id of the k-th item of a cart: its index.
IndexId(k) == k - 1

\* placeOrder on a cart with the given items: one row per item.
PlaceOrder(o, cart) ==
    /\ status[o] = "absent"
    /\ \A k \in DOMAIN cart : itemState[cart[k]] = "unsold"
    /\ nextRow + Len(cart) <= MaxRows + 1
    /\ status' = [status EXCEPT ![o] = "unpaid"]
    /\ rows' = [r \in RowIds |->
                    LET k == r - nextRow + 1
                    IN  IF k \in DOMAIN cart
                          THEN [order |-> o, id |-> IndexId(k), item |-> cart[k],
                                state |-> "toBeDelivered"]
                          ELSE rows[r]]
    /\ nextRow' = nextRow + Len(cart)
    /\ MoveItems({cart[k] : k \in DOMAIN cart}, "sold")
    /\ UNCHANGED <<refundVars, everPaid>>

PayOrder(o) ==
    /\ status[o] = "unpaid"
    /\ status' = [status EXCEPT ![o] = "paid"]
    /\ everPaid' = everPaid \cup {o}
    /\ UNCHANGED <<rows, nextRow, itemState, refundVars>>

\* Called for an unpaid order, but asks only that its items are sold.
DiscardUnpaidOrder(o) ==
    LET items == Visible(ItemsOf(RowsOf(o)))
    IN  /\ status[o] \in Current
        /\ \A i \in items : itemState[i] = "sold"
        /\ MoveItems(items, "unsold")
        /\ EndOrders({o})
        /\ UNCHANGED <<refundVars, everPaid>>

DeleteUnpaidOrders(O) ==
    /\ O # {}
    /\ \A o \in O : status[o] = "unpaid"
    /\ MoveItems(Visible(UNION {ItemsOf(RowsOf(o)) : o \in O}), "unsold")
    /\ EndOrders(O)
    /\ UNCHANGED <<refundVars, everPaid>>

DeliverOrderItem(o, id) ==
    /\ IsPaid(o)
    /\ HasOrderItemState(o, id, "toBeDelivered")
    /\ UpdateOrderItem(o, id, "delivering")
    /\ UNCHANGED <<status, nextRow, itemState, refundVars, everPaid>>

ReceiveOrderItem(o, id) ==
    /\ IsPaid(o)
    /\ HasOrderItemState(o, id, "delivering")
    /\ UpdateOrderItem(o, id, "delivered")
    /\ UNCHANGED <<status, nextRow, itemState, refundVars, everPaid>>

ReturnOrderItem(o, id) ==
    /\ IsPaid(o)
    /\ HasOrderItemState(o, id, "delivered")
    /\ UpdateOrderItem(o, id, "returning")
    /\ UNCHANGED <<status, nextRow, itemState, refundVars, everPaid>>

ReceiveReturnedOrderItem(o, id) ==
    /\ IsPaid(o)
    /\ HasOrderItemState(o, id, "returning")
    /\ ReleaseItem(o, id)
    /\ UpdateOrderItem(o, id, "returned")
    /\ refunds' = refunds \cup {<<o, id>>}
    /\ UNCHANGED <<status, nextRow, orderRefunds, everPaid>>

\* The path that selects what to remove compares the id with both keys.
RowsToRemove(o, id) == RowsWithId(o, id) \cup (RowsOf(o) \cap {id})

RemoveUndeliveredOrderItem(o, id) ==
    /\ IsPaid(o)
    /\ HasOrderItemState(o, id, "toBeDelivered")
    /\ ReleaseItem(o, id)
    /\ rows' = WithoutRows(RowsToRemove(o, id))
    /\ refunds' = refunds \cup {<<o, id>>}
    /\ UNCHANGED <<status, nextRow, orderRefunds, everPaid>>

DeleteUndeliveredPaidOrder(o) ==
    /\ IsPaid(o)
    /\ \A r \in RowsOf(o) : rows[r].state = "toBeDelivered"
    /\ MoveItems(Visible(ItemsOf(RowsOf(o))), "unsold")
    /\ EndOrders({o})
    /\ orderRefunds' = orderRefunds \cup {o}
    /\ UNCHANGED <<refunds, everPaid>>

\* The seller deletes the sales item, whatever its state.
DeleteSalesItem(i) ==
    /\ itemState[i] # "deleted"
    /\ itemState' = [itemState EXCEPT ![i] = "deleted"]
    /\ UNCHANGED <<status, rows, nextRow, refundVars, everPaid>>

-----------------------------------------------------------------------------
\* Carts list every item once.
Carts == {c \in UNION {[1 .. n -> SalesItems] : n \in 1 .. MaxOrderItems} :
             \A j, k \in DOMAIN c : c[j] = c[k] => j = k}

Next ==
    \/ \E o \in Orders :
          \/ \E cart \in Carts : PlaceOrder(o, cart)
          \/ PayOrder(o)
          \/ DiscardUnpaidOrder(o)
          \/ DeleteUndeliveredPaidOrder(o)
          \/ \E id \in Ids :
                \/ DeliverOrderItem(o, id)
                \/ ReceiveOrderItem(o, id)
                \/ ReturnOrderItem(o, id)
                \/ ReceiveReturnedOrderItem(o, id)
                \/ RemoveUndeliveredOrderItem(o, id)
    \/ \E O \in SUBSET Orders : DeleteUnpaidOrders(O)
    \/ \E i \in SalesItems : DeleteSalesItem(i)

Spec == Init /\ [][Next]_vars

-----------------------------------------------------------------------------
(* Properties.                                                             *)

\* Rows are only ever those of current orders, and an order has at most one
\* row per id although ids are shared between orders: what HasOrderItemState
\* finds is unambiguous, and no order that ended can still be worked on.
RowsBelongToCurrentOrders ==
    /\ \A r \in RowIds : rows[r] # NoRow => status[rows[r].order] \in Current
    /\ \A o \in Orders, id \in Ids : \A r, s \in RowsWithId(o, id) : r = s

\* Money goes back only for orders that were paid.
RefundsOnlyForPaidOrders ==
    /\ \A m \in refunds : m[1] \in everPaid
    /\ orderRefunds \subseteq everPaid

\* The transaction that refunds an order item makes its sales item available
\* again: no item is refunded and stays sold.
RefundReleasesItem ==
    [][\A o \in Orders, id \in Ids : \A r \in RowsWithId(o, id) :
          <<o, id>> \in refunds' \ refunds
             => itemState'[rows[r].item] = "unsold"]_vars
=============================================================================
