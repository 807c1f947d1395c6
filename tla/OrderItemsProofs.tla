--------------------------- MODULE OrderItemsProofs ---------------------------
(***************************************************************************)
(* OrderItems for any number of orders, sales items and rows.  That rows   *)
(* belong to current orders and are unambiguous is inductive with the      *)
(* types; that refunds follow payments needs that a paid order was paid.   *)
(***************************************************************************)
EXTENDS OrderItems, TLAPS

\* What everPaid has to do with the payment column.
PaidOrdersWerePaid == \A o \in Orders : status[o] = "paid" => o \in everPaid

\* The inductive invariant.
Inv ==
    /\ TypeOK
    /\ RowsBelongToCurrentOrders
    /\ PaidOrdersWerePaid
    /\ RefundsOnlyForPaidOrders

-----------------------------------------------------------------------------
\* The tables are empty at first.
LEMMA InitInv == Init => Inv
  BY BoundsAssumption
  DEF Init, Inv, TypeOK, RowsBelongToCurrentOrders, PaidOrdersWerePaid,
      RefundsOnlyForPaidOrders, RowIds, RowsWithId, RowsOf

\* A cart is a sequence of at most MaxOrderItems items.
LEMMA CartLength ==
    ASSUME NEW cart \in Carts
    PROVE  /\ Len(cart) \in 1 .. MaxOrderItems
           /\ DOMAIN cart = 1 .. Len(cart)
           /\ \A k \in DOMAIN cart : cart[k] \in SalesItems
<1>1. PICK n \in 1 .. MaxOrderItems : cart \in [1 .. n -> SalesItems]
  BY DEF Carts
<1>2. n \in Nat /\ cart \in Seq(SalesItems) /\ Len(cart) = n
  BY <1>1, BoundsAssumption
<1> QED BY <1>1, <1>2

\* Removing rows keeps the table well typed and its rows unambiguous.
LEMMA WithoutRowsTypes ==
    ASSUME TypeOK, RowsBelongToCurrentOrders, NEW R
    PROVE  /\ WithoutRows(R) \in [RowIds -> Row \cup {NoRow}]
           /\ \A r \in RowIds : WithoutRows(R)[r] \in {rows[r], NoRow}
  BY DEF TypeOK, WithoutRows

\* A row of the table after an update of one order item is as it was before,
\* but for its state, or gone.
LEMMA UpdatedRows ==
    ASSUME TypeOK, NEW o \in Orders, NEW id \in Ids,
           NEW s \in OrderItemStates, UpdateOrderItem(o, id, s)
    PROVE  /\ rows' \in [RowIds -> Row \cup {NoRow}]
           /\ \A r \in RowIds : rows'[r] # NoRow =>
                 /\ rows[r] # NoRow
                 /\ rows'[r].order = rows[r].order
                 /\ rows'[r].id = rows[r].id
                 /\ rows'[r].item = rows[r].item
<1> DEFINE kept == WithoutRows(Unlisted(o, id))
<1>1. \A r \in RowIds : kept[r] = NoRow \/ (kept[r] = rows[r] /\ rows[r] \in Row)
  BY DEF WithoutRows, TypeOK
<1>2. rows' = [r \in RowIds |->
                  IF kept[r] # NoRow /\ kept[r].id = id
                    THEN [kept[r] EXCEPT !.state = s] ELSE kept[r]]
  BY DEF UpdateOrderItem
<1> HIDE DEF kept
<1>3. \A r \in RowIds : kept[r] \in Row => [kept[r] EXCEPT !.state = s] \in Row
  BY DEF Row
<1>4. \A r \in RowIds : kept[r] \in Row =>
         /\ [kept[r] EXCEPT !.state = s].order = kept[r].order
         /\ [kept[r] EXCEPT !.state = s].id = kept[r].id
         /\ [kept[r] EXCEPT !.state = s].item = kept[r].item
  BY DEF Row
<1> QED BY <1>1, <1>2, <1>3, <1>4

\* Types, one step per operation.
LEMMA TypeOKStep ==
    ASSUME TypeOK, RowsBelongToCurrentOrders, Next
    PROVE  TypeOK'
<1> USE DEF TypeOK, refundVars
<1>1. ASSUME NEW o \in Orders, NEW cart \in Carts, PlaceOrder(o, cart)
      PROVE  TypeOK'
  <2>1. rows' \in [RowIds -> Row \cup {NoRow}]
    <3> SUFFICES ASSUME NEW r \in RowIds, r - nextRow + 1 \in DOMAIN cart
                 PROVE  rows'[r] \in Row
      BY <1>1 DEF PlaceOrder
    <3>1. r - nextRow + 1 \in 1 .. MaxOrderItems
      BY CartLength, BoundsAssumption
    <3>2. IndexId(r - nextRow + 1) \in Ids
      BY <3>1, BoundsAssumption DEF IndexId, Ids, RowIds
    <3> QED BY <1>1, <3>2, CartLength DEF PlaceOrder, Row, OrderItemStates
  <2>2. nextRow' \in 1 .. MaxRows + 1
    BY <1>1, CartLength, BoundsAssumption DEF PlaceOrder
  <2> QED BY <1>1, <2>1, <2>2 DEF PlaceOrder, MoveItems
<1>2. ASSUME NEW o \in Orders, PayOrder(o) PROVE TypeOK'
  BY <1>2 DEF PayOrder
<1>3. ASSUME NEW o \in Orders, DiscardUnpaidOrder(o) PROVE TypeOK'
  BY <1>3, WithoutRowsTypes DEF DiscardUnpaidOrder, EndOrders, MoveItems
<1>4. ASSUME NEW o \in Orders, DeleteUndeliveredPaidOrder(o) PROVE TypeOK'
  BY <1>4, WithoutRowsTypes DEF DeleteUndeliveredPaidOrder, EndOrders, MoveItems
<1>5. ASSUME NEW o \in Orders, NEW id \in Ids, DeliverOrderItem(o, id)
      PROVE  TypeOK'
  BY <1>5, UpdatedRows DEF DeliverOrderItem, OrderItemStates
<1>6. ASSUME NEW o \in Orders, NEW id \in Ids, ReceiveOrderItem(o, id)
      PROVE  TypeOK'
  BY <1>6, UpdatedRows DEF ReceiveOrderItem, OrderItemStates
<1>7. ASSUME NEW o \in Orders, NEW id \in Ids, ReturnOrderItem(o, id)
      PROVE  TypeOK'
  BY <1>7, UpdatedRows DEF ReturnOrderItem, OrderItemStates
<1>8. ASSUME NEW o \in Orders, NEW id \in Ids, ReceiveReturnedOrderItem(o, id)
      PROVE  TypeOK'
  <2>1. rows' \in [RowIds -> Row \cup {NoRow}]
    BY <1>8, UpdatedRows DEF ReceiveReturnedOrderItem, OrderItemStates
  <2> QED BY <1>8, <2>1 DEF ReceiveReturnedOrderItem, ReleaseItem, MoveItems
<1>9. ASSUME NEW o \in Orders, NEW id \in Ids, RemoveUndeliveredOrderItem(o, id)
      PROVE  TypeOK'
  BY <1>9, WithoutRowsTypes DEF RemoveUndeliveredOrderItem, ReleaseItem, MoveItems
<1>10. ASSUME NEW O \in SUBSET Orders, DeleteUnpaidOrders(O) PROVE TypeOK'
  BY <1>10, WithoutRowsTypes DEF DeleteUnpaidOrders, EndOrders, MoveItems
<1>11. ASSUME NEW i \in SalesItems, DeleteSalesItem(i) PROVE TypeOK'
  BY <1>11 DEF DeleteSalesItem
<1> QED BY <1>1, <1>2, <1>3, <1>4, <1>5, <1>6, <1>7, <1>8, <1>9, <1>10, <1>11
        DEF Next

\* If no row moves to another order or id and no order with rows left ends,
\* rows go on belonging to current orders and being unambiguous.
LEMMA RowsStay ==
    ASSUME RowsBelongToCurrentOrders,
           \A r \in RowIds : rows'[r] # NoRow =>
              /\ rows[r] # NoRow
              /\ rows'[r].order = rows[r].order
              /\ rows'[r].id = rows[r].id
              /\ status'[rows[r].order] \in Current
    PROVE  RowsBelongToCurrentOrders'
  BY DEF RowsBelongToCurrentOrders, RowsWithId, RowsOf

LEMMA RowsStep ==
    ASSUME TypeOK, RowsBelongToCurrentOrders, Next
    PROVE  RowsBelongToCurrentOrders'
<1>1. ASSUME NEW o \in Orders, NEW cart \in Carts, PlaceOrder(o, cart)
      PROVE  RowsBelongToCurrentOrders'
  <2> DEFINE new(r) == r - nextRow + 1 \in DOMAIN cart
  <2>1. \A r \in RowIds :
           IF new(r) THEN rows'[r].order = o /\ rows'[r].id = r - nextRow
                     ELSE rows'[r] = rows[r]
    BY <1>1, CartLength DEF PlaceOrder, IndexId, RowIds, TypeOK
  <2>2. \A r \in RowIds : rows[r] # NoRow => rows[r].order # o
    BY <1>1 DEF PlaceOrder, RowsBelongToCurrentOrders, Current
  <2>3. \A r \in RowIds : rows[r] # NoRow => rows[r].order \in Orders
    BY DEF TypeOK, Row
  <2>4. \A p \in Orders : status'[p] = IF p = o THEN "unpaid" ELSE status[p]
    BY <1>1 DEF PlaceOrder, TypeOK
  <2>5. \A r \in RowIds : rows'[r] # NoRow => status'[rows'[r].order] \in Current
    BY <2>1, <2>3, <2>4 DEF RowsBelongToCurrentOrders, Current
  <2>6. ASSUME NEW r \in RowIds, NEW s \in RowIds,
               rows'[r] # NoRow, rows'[s] # NoRow,
               rows'[r].order = rows'[s].order, rows'[r].id = rows'[s].id
        PROVE  r = s
    <3>1. CASE new(r) /\ new(s)
      BY <2>1, <2>6, <3>1 DEF RowIds, TypeOK
    <3>2. CASE ~new(r) /\ ~new(s)
      BY <2>1, <2>3, <2>6, <3>2
         DEF RowsBelongToCurrentOrders, RowsWithId, RowsOf, TypeOK, Row
    <3>3. CASE new(r) # new(s)
      BY <2>1, <2>2, <2>6, <3>3
    <3> QED BY <3>1, <3>2, <3>3
  <2> QED BY <2>5, <2>6 DEF RowsBelongToCurrentOrders, RowsWithId, RowsOf
<1>2. ASSUME NEW o \in Orders, PayOrder(o) PROVE RowsBelongToCurrentOrders'
  BY <1>2, RowsStay DEF PayOrder, TypeOK, Current, RowsBelongToCurrentOrders
<1>3. ASSUME NEW O \in SUBSET Orders, EndOrders(O)
      PROVE  RowsBelongToCurrentOrders'
  <2>1. \A r \in RowIds : rows'[r] # NoRow =>
           rows'[r] = rows[r] /\ rows[r].order \notin O
    BY <1>3 DEF EndOrders, WithoutRows, RowsOf, TypeOK
  <2>2. \A r \in RowIds : rows[r] # NoRow => rows[r].order \in Orders
    BY DEF TypeOK, Row
  <2> QED BY <1>3, <2>1, <2>2, RowsStay DEF EndOrders, RowsBelongToCurrentOrders
<1>4. ASSUME NEW o \in Orders, NEW id \in Ids, NEW s \in OrderItemStates,
             UpdateOrderItem(o, id, s), UNCHANGED status
      PROVE  RowsBelongToCurrentOrders'
  BY <1>4, UpdatedRows, RowsStay DEF RowsBelongToCurrentOrders
<1>5. ASSUME NEW o \in Orders, NEW id \in Ids, RemoveUndeliveredOrderItem(o, id)
      PROVE  RowsBelongToCurrentOrders'
  <2>1. \A r \in RowIds : rows'[r] \in {rows[r], NoRow}
    BY <1>5, WithoutRowsTypes DEF RemoveUndeliveredOrderItem
  <2> QED BY <1>5, <2>1, RowsStay
          DEF RemoveUndeliveredOrderItem, RowsBelongToCurrentOrders
<1>6. ASSUME UNCHANGED <<status, rows>> PROVE RowsBelongToCurrentOrders'
  BY <1>6 DEF RowsBelongToCurrentOrders, RowsWithId, RowsOf
<1>7. ASSUME NEW o \in Orders,
             DiscardUnpaidOrder(o) \/ DeleteUndeliveredPaidOrder(o)
      PROVE  RowsBelongToCurrentOrders'
  BY <1>3, <1>7 DEF DiscardUnpaidOrder, DeleteUndeliveredPaidOrder
<1>8. ASSUME NEW O \in SUBSET Orders, DeleteUnpaidOrders(O)
      PROVE  RowsBelongToCurrentOrders'
  BY <1>3, <1>8 DEF DeleteUnpaidOrders
<1>9. ASSUME NEW o \in Orders, NEW id \in Ids,
             \/ DeliverOrderItem(o, id) \/ ReceiveOrderItem(o, id)
             \/ ReturnOrderItem(o, id) \/ ReceiveReturnedOrderItem(o, id)
      PROVE  RowsBelongToCurrentOrders'
  BY <1>4, <1>9 DEF DeliverOrderItem, ReceiveOrderItem, ReturnOrderItem,
                    ReceiveReturnedOrderItem, OrderItemStates
<1>10. ASSUME NEW i \in SalesItems, DeleteSalesItem(i)
       PROVE  RowsBelongToCurrentOrders'
  BY <1>6, <1>10 DEF DeleteSalesItem
<1> QED BY <1>1, <1>2, <1>5, <1>7, <1>8, <1>9, <1>10 DEF Next

\* Refunds are sent where isPaidOrderPreHook has been passed, and a payment
\* is never forgotten.
LEMMA RefundsStep ==
    ASSUME TypeOK, PaidOrdersWerePaid, RefundsOnlyForPaidOrders, Next
    PROVE  PaidOrdersWerePaid' /\ RefundsOnlyForPaidOrders'
<1> USE DEF TypeOK, PaidOrdersWerePaid, RefundsOnlyForPaidOrders, refundVars
<1>1. ASSUME NEW o \in Orders, NEW cart \in Carts, PlaceOrder(o, cart)
      PROVE  PaidOrdersWerePaid' /\ RefundsOnlyForPaidOrders'
  BY <1>1 DEF PlaceOrder
<1>2. ASSUME NEW o \in Orders, PayOrder(o)
      PROVE  PaidOrdersWerePaid' /\ RefundsOnlyForPaidOrders'
  BY <1>2 DEF PayOrder
<1>3. ASSUME NEW o \in Orders, DiscardUnpaidOrder(o)
      PROVE  PaidOrdersWerePaid' /\ RefundsOnlyForPaidOrders'
  BY <1>3 DEF DiscardUnpaidOrder, EndOrders
<1>4. ASSUME NEW o \in Orders, DeleteUndeliveredPaidOrder(o)
      PROVE  PaidOrdersWerePaid' /\ RefundsOnlyForPaidOrders'
  BY <1>4 DEF DeleteUndeliveredPaidOrder, EndOrders, IsPaid
<1>5. ASSUME NEW o \in Orders, NEW id \in Ids,
             DeliverOrderItem(o, id) \/ ReceiveOrderItem(o, id)
                \/ ReturnOrderItem(o, id)
      PROVE  PaidOrdersWerePaid' /\ RefundsOnlyForPaidOrders'
  BY <1>5 DEF DeliverOrderItem, ReceiveOrderItem, ReturnOrderItem
<1>6. ASSUME NEW o \in Orders, NEW id \in Ids,
             \/ ReceiveReturnedOrderItem(o, id)
             \/ RemoveUndeliveredOrderItem(o, id)
      PROVE  PaidOrdersWerePaid' /\ RefundsOnlyForPaidOrders'
  BY <1>6 DEF ReceiveReturnedOrderItem, RemoveUndeliveredOrderItem, IsPaid
<1>7. ASSUME NEW O \in SUBSET Orders, DeleteUnpaidOrders(O)
      PROVE  PaidOrdersWerePaid' /\ RefundsOnlyForPaidOrders'
  BY <1>7 DEF DeleteUnpaidOrders, EndOrders
<1>8. ASSUME NEW i \in SalesItems, DeleteSalesItem(i)
      PROVE  PaidOrdersWerePaid' /\ RefundsOnlyForPaidOrders'
  BY <1>8 DEF DeleteSalesItem
<1> QED BY <1>1, <1>2, <1>3, <1>4, <1>5, <1>6, <1>7, <1>8 DEF Next

\* The invariant is inductive.
LEMMA InvStep == Inv /\ [Next]_vars => Inv'
<1> SUFFICES ASSUME Inv, [Next]_vars PROVE Inv'
  OBVIOUS
<1>1. CASE Next
  BY <1>1, TypeOKStep, RowsStep, RefundsStep DEF Inv
<1>2. CASE UNCHANGED vars
  BY <1>2 DEF vars, refundVars, Inv, TypeOK, RowsBelongToCurrentOrders, RowsOf,
              RowsWithId, PaidOrdersWerePaid, RefundsOnlyForPaidOrders
<1> QED BY <1>1, <1>2

-----------------------------------------------------------------------------
\* Every reachable state satisfies the invariant.
THEOREM Invariance == Spec => []Inv
  BY InitInv, InvStep, PTL DEF Spec

\* The tables hold values of their types, whatever the operations and their order.
THEOREM TypeCorrectness == Spec => []TypeOK
<1>1. Inv => TypeOK
  BY DEF Inv
<1> QED BY <1>1, Invariance, PTL

\* No order that ended has rows left, and an id names one row of an order.
THEOREM RowsAreUnambiguous == Spec => []RowsBelongToCurrentOrders
<1>1. Inv => RowsBelongToCurrentOrders
  BY DEF Inv
<1> QED BY <1>1, Invariance, PTL

\* Whatever order the operations come in, only paid orders are refunded.
THEOREM NoRefundWithoutPayment == Spec => []RefundsOnlyForPaidOrders
<1>1. Inv => RefundsOnlyForPaidOrders
  BY DEF Inv
<1> QED BY <1>1, Invariance, PTL

\* The step that refunds an order item.
LEMMA RefundStep ==
    ASSUME TypeOK, Next, NEW o \in Orders, NEW id \in Ids,
           NEW r \in RowsWithId(o, id), <<o, id>> \in refunds' \ refunds
    PROVE  itemState'[rows[r].item] = "unsold"
<1>1. PICK p \in Orders, k \in Ids :
         /\ ReleaseItem(p, k)
         /\ refunds' = refunds \cup {<<p, k>>}
  BY DEF Next, refundVars, PlaceOrder, PayOrder, DiscardUnpaidOrder,
         DeleteUnpaidOrders, DeliverOrderItem, ReceiveOrderItem, ReturnOrderItem,
         ReceiveReturnedOrderItem, RemoveUndeliveredOrderItem,
         DeleteUndeliveredPaidOrder, DeleteSalesItem
<1>2. p = o /\ k = id
  BY <1>1
<1>3. rows[r].item \in SalesItems
  BY DEF RowsWithId, RowsOf, TypeOK, Row
<1> QED BY <1>1, <1>2, <1>3 DEF ReleaseItem, MoveItems, ItemsOf

\* No item is refunded and stays sold.
THEOREM RefundsRelease == Spec => RefundReleasesItem
<1>1. TypeOK /\ [Next]_vars =>
        [\A o \in Orders, id \in Ids : \A r \in RowsWithId(o, id) :
           <<o, id>> \in refunds' \ refunds
             => itemState'[rows[r].item] = "unsold"]_vars
  BY RefundStep DEF vars, refundVars
<1>2. Inv => TypeOK
  BY DEF Inv
<1> QED BY <1>1, <1>2, Invariance, PTL DEF Spec, RefundReleasesItem
=============================================================================
