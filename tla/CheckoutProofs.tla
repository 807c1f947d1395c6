--------------------------- MODULE CheckoutProofs ---------------------------
(***************************************************************************)
(* Checkout for any number of users, sales items and orders: its types,    *)
(* and that an item is sold once at a time.  NoDoubleSale is not inductive *)
(* alone.  placeOrder may only take items that no current order holds; it  *)
(* checks that they are reserved, so the invariant has to say that an item *)
(* of a current order is never reserved, and to keep that across           *)
(* deleteUnpaidOrders it has to say what the job's locks protect.          *)
(* The second part is about single steps, the third about what lies        *)
(* between the two statements of deleteUnpaidOrders.                       *)
(***************************************************************************)
EXTENDS Checkout, TLAPS

\* The inductive invariant.
Inv ==
    /\ TypeOK
    /\ TablesConsistent
    /\ NoDoubleSale
    /\ OrderItemsStaySold
    /\ CleaningWorksOnUnpaidOrders

-----------------------------------------------------------------------------
\* The initial state satisfies the invariant: every table is empty.
LEMMA InitInv == Init => Inv
  BY NoUserAssumption
  DEF Init, Inv, TypeOK, TablesConsistent, NoDoubleSale, OrderItemsStaySold,
      CleaningWorksOnUnpaidOrders, SalesItemStates, Statuses, Current

\* What updateSalesItemState and updateEntitiesByFilters leave well typed.
LEMMA ItemUpdateTypes ==
    ASSUME TypeOK, NEW I \in SUBSET SalesItems,
           NEW s \in {"forSale", "reserved", "sold"},
           NEW b \in Users \cup {NoUser},
           UpdateSalesItemStates(I, s, b) \/ (s = "forSale" /\ PutBackForSale(I))
    PROVE  /\ state' \in [SalesItems -> SalesItemStates]
           /\ buyer' \in [SalesItems -> Users \cup {NoUser}]
           /\ stale' \subseteq {i \in SalesItems : state'[i] = "reserved"}
  BY DEF UpdateSalesItemStates, PutBackForSale, Move, TypeOK, SalesItemStates

\* Types are preserved by every step.
LEMMA TypeOKStep ==
    ASSUME TypeOK, TablesConsistent, Next
    PROVE  TypeOK'
<1> USE DEF TypeOK, itemVars, cartVars, orderVars, jobVars
<1>1. ASSUME NEW i \in SalesItems, CreateSalesItem(i) PROVE TypeOK'
  BY <1>1 DEF CreateSalesItem, SalesItemStates
<1>2. ASSUME NEW i \in SalesItems, DeleteSalesItem(i) PROVE TypeOK'
  BY <1>2 DEF DeleteSalesItem, DeleteItems, Move, SalesItemStates
<1>3. ASSUME NEW i \in SalesItems, TouchSalesItem(i) PROVE TypeOK'
  BY <1>3 DEF TouchSalesItem
<1>4. ASSUME NEW i \in SalesItems, ReservationBecomesStale(i) PROVE TypeOK'
  BY <1>4 DEF ReservationBecomesStale
<1>5. ASSUME NEW u \in Users, GetShoppingCart(u) PROVE TypeOK'
  BY <1>5 DEF GetShoppingCart, Unexpired, HeldBy
<1>6. ASSUME NEW u \in Users, EmptyShoppingCart(u) PROVE TypeOK'
  <2>1. ReleasedByEmptying(u) \in SUBSET SalesItems
    BY DEF ReleasedByEmptying, HeldBy
  <2>2. PutBackForSale(ReleasedByEmptying(u))
    BY <1>6 DEF EmptyShoppingCart
  <2> QED BY <1>6, <2>1, <2>2, ItemUpdateTypes DEF EmptyShoppingCart,
                                                   DeleteCart
<1>7. ASSUME NEW u \in Users, PlaceOrderRead(u) PROVE TypeOK'
  BY <1>7 DEF PlaceOrderRead, Unexpired, HeldBy
<1>8. ASSUME NEW u \in Users, PlaceOrderAbort(u) PROVE TypeOK'
  BY <1>8 DEF PlaceOrderAbort
<1>9. ASSUME NEW u \in Users, NEW i \in SalesItems, AddToShoppingCart(u, i)
      PROVE  TypeOK'
  <2>1. UpdateSalesItemStates({i}, "reserved", u)
    BY <1>9 DEF AddToShoppingCart
  <2> QED BY <1>9, <2>1, ItemUpdateTypes DEF AddToShoppingCart
<1>10. ASSUME NEW u \in Users, NEW i \in SalesItems, RemoveFromShoppingCart(u, i)
       PROVE  TypeOK'
  <2>1. PutBackForSale({i} \cap HeldBy(u)) /\ {i} \cap HeldBy(u) \in SUBSET SalesItems
    BY <1>10 DEF RemoveFromShoppingCart
  <2> QED BY <1>10, <2>1, ItemUpdateTypes DEF RemoveFromShoppingCart
<1>11. ASSUME NEW u \in Users, NEW o \in Orders, PlaceOrderCommit(u, o)
       PROVE  TypeOK'
  <2>1. UpdateSalesItemStates(placing[u], "sold", u) /\ placing[u] \in SUBSET SalesItems
    BY <1>11 DEF PlaceOrderCommit
  <2>2. u \in cartOwners
    BY <1>11 DEF PlaceOrderCommit, TablesConsistent
  <2> QED BY <1>11, <2>1, <2>2, ItemUpdateTypes
          DEF PlaceOrderCommit, Statuses, Current
<1>12. ASSUME NEW o \in Orders, PayOrder(o) PROVE TypeOK'
  BY <1>12 DEF PayOrder, DeleteCart, Statuses, Current
<1>13. ASSUME NEW o \in Orders, DiscardUnpaidOrder(o) PROVE TypeOK'
  <2>1. /\ UpdateSalesItemStates(VisibleItems(o), "reserved", customer[o])
        /\ VisibleItems(o) \in SUBSET SalesItems
    BY <1>13 DEF DiscardUnpaidOrder, VisibleItems
  <2> QED BY <1>13, <2>1, ItemUpdateTypes
          DEF DiscardUnpaidOrder, EndOrders, Statuses
<1>14. ASSUME NEW o \in Orders, DeleteUndeliveredPaidOrder(o) PROVE TypeOK'
  <2>1. /\ UpdateSalesItemStates(VisibleItems(o), "forSale", NoUser)
        /\ VisibleItems(o) \in SUBSET SalesItems
    BY <1>14 DEF DeleteUndeliveredPaidOrder, VisibleItems
  <2> QED BY <1>14, <2>1, ItemUpdateTypes
          DEF DeleteUndeliveredPaidOrder, EndOrders, Statuses
<1>15. ASSUME NEW o \in Orders, OrderBecomesOverdue(o) PROVE TypeOK'
  BY <1>15 DEF OrderBecomesOverdue
<1>16. CASE ChangeExpiredReservedSalesItemStatesToForSale
  <2>1. /\ UpdateSalesItemStates(ExpiredReservations, "forSale", NoUser)
        /\ ExpiredReservations \in SUBSET SalesItems
    BY <1>16 DEF ChangeExpiredReservedSalesItemStatesToForSale,
                 ExpiredReservations
  <2> QED BY <1>16, <2>1, ItemUpdateTypes
          DEF ChangeExpiredReservedSalesItemStatesToForSale
<1>17. ASSUME NEW I \in SUBSET SalesItems, DeleteOldUnsoldSalesItemsDaily(I)
       PROVE  TypeOK'
  BY <1>17 DEF DeleteOldUnsoldSalesItemsDaily, DeleteItems, Move,
               SalesItemStates
<1>18. CASE DeleteUnpaidOrdersSelect
  <2>1. ItemsRead(UnpaidOrderFilter) \subseteq SalesItems
    BY DEF ItemsRead, VisibleItems, UnpaidOrderFilter
  <2> QED BY <1>18, <2>1 DEF DeleteUnpaidOrdersSelect, UnpaidOrderFilter
<1>19. CASE DeleteUnpaidOrdersCommit
  <2>1. PutBackForSale(releasing) /\ releasing \in SUBSET SalesItems
    BY <1>19 DEF DeleteUnpaidOrdersCommit
  <2> QED BY <1>19, <2>1, ItemUpdateTypes
          DEF DeleteUnpaidOrdersCommit, EndOrders, FinishCleaning, Statuses
<1>20. CASE DeleteUnpaidOrdersAbort
  BY <1>20 DEF DeleteUnpaidOrdersAbort, FinishCleaning
<1> QED
  BY <1>1, <1>2, <1>3, <1>4, <1>5, <1>6, <1>7, <1>8, <1>9, <1>10, <1>11, <1>12,
     <1>13, <1>14, <1>15, <1>16, <1>17, <1>18, <1>19, <1>20 DEF Next, RequestsAndTime

\* The tables go on agreeing with one another.
LEMMA TablesStep ==
    ASSUME TypeOK, TablesConsistent, Next
    PROVE  TablesConsistent'
<1> USE DEF TypeOK, TablesConsistent, itemVars, cartVars, orderVars, jobVars
<1>1. ASSUME NEW i \in SalesItems, CreateSalesItem(i) PROVE TablesConsistent'
  BY <1>1 DEF CreateSalesItem, Current
<1>2. ASSUME NEW i \in SalesItems, DeleteSalesItem(i) PROVE TablesConsistent'
  BY <1>2 DEF DeleteSalesItem, Current
<1>3. ASSUME NEW i \in SalesItems, TouchSalesItem(i) PROVE TablesConsistent'
  BY <1>3 DEF TouchSalesItem, Current
<1>4. ASSUME NEW i \in SalesItems, ReservationBecomesStale(i)
      PROVE  TablesConsistent'
  BY <1>4 DEF ReservationBecomesStale, Current
<1>5. ASSUME NEW u \in Users, GetShoppingCart(u) PROVE TablesConsistent'
  BY <1>5 DEF GetShoppingCart, Current
<1>6. ASSUME NEW u \in Users, EmptyShoppingCart(u) PROVE TablesConsistent'
  BY <1>6 DEF EmptyShoppingCart, Current, DeleteCart, PutBackForSale, Move,
              CartFree
<1>7. ASSUME NEW u \in Users, PlaceOrderRead(u) PROVE TablesConsistent'
  BY <1>7 DEF PlaceOrderRead, Current, Unexpired, HeldBy
<1>8. ASSUME NEW u \in Users, PlaceOrderAbort(u) PROVE TablesConsistent'
  BY <1>8 DEF PlaceOrderAbort, Current
<1>9. ASSUME NEW u \in Users, NEW i \in SalesItems, AddToShoppingCart(u, i)
      PROVE  TablesConsistent'
  BY <1>9 DEF AddToShoppingCart, Current, UpdateSalesItemStates, Move
<1>10. ASSUME NEW u \in Users, NEW i \in SalesItems, RemoveFromShoppingCart(u, i)
       PROVE  TablesConsistent'
  BY <1>10 DEF RemoveFromShoppingCart, Current, PutBackForSale, Move
<1>11. ASSUME NEW u \in Users, NEW o \in Orders, PlaceOrderCommit(u, o)
       PROVE  TablesConsistent'
  BY <1>11 DEF PlaceOrderCommit, Current, UpdateSalesItemStates, Move, Sellable
<1>12. ASSUME NEW o \in Orders, PayOrder(o) PROVE TablesConsistent'
  BY <1>12 DEF PayOrder, Current, Payable, DeleteCart, CartFree, OrderFree
<1>13. ASSUME NEW o \in Orders, DiscardUnpaidOrder(o) PROVE TablesConsistent'
  BY <1>13 DEF DiscardUnpaidOrder, Current, EndOrders, UpdateSalesItemStates,
               Move, VisibleItems, Exists, OrderFree
<1>14. ASSUME NEW o \in Orders, DeleteUndeliveredPaidOrder(o)
       PROVE  TablesConsistent'
  BY <1>14 DEF DeleteUndeliveredPaidOrder, Current, EndOrders,
               UpdateSalesItemStates, Move, VisibleItems, Exists, OrderFree
<1>15. ASSUME NEW o \in Orders, OrderBecomesOverdue(o) PROVE TablesConsistent'
  BY <1>15 DEF OrderBecomesOverdue, Current
<1>16. CASE ChangeExpiredReservedSalesItemStatesToForSale
  BY <1>16 DEF ChangeExpiredReservedSalesItemStatesToForSale, Current,
               UpdateSalesItemStates, Move, ExpiredReservations
<1>17. ASSUME NEW I \in SUBSET SalesItems, DeleteOldUnsoldSalesItemsDaily(I)
       PROVE  TablesConsistent'
  BY <1>17 DEF DeleteOldUnsoldSalesItemsDaily, Current
<1>18. CASE DeleteUnpaidOrdersSelect
  BY <1>18 DEF DeleteUnpaidOrdersSelect, Current, UnpaidOrderFilter
<1>19. CASE DeleteUnpaidOrdersCommit
  BY <1>19 DEF DeleteUnpaidOrdersCommit, Current, EndOrders, PutBackForSale,
               Move, FinishCleaning, UnpaidOrderFilter
<1>20. CASE DeleteUnpaidOrdersAbort
  BY <1>20 DEF DeleteUnpaidOrdersAbort, Current, FinishCleaning
<1> QED
  BY <1>1, <1>2, <1>3, <1>4, <1>5, <1>6, <1>7, <1>8, <1>9, <1>10,
     <1>11, <1>12, <1>13, <1>14, <1>15, <1>16, <1>17, <1>18, <1>19, <1>20 DEF Next, RequestsAndTime

\* No step puts an item into a second current order.
LEMMA NoDoubleSaleStep ==
    ASSUME Inv, Next
    PROVE  NoDoubleSale'
<1> USE DEF Inv, NoDoubleSale, orderVars
<1>1. ASSUME NEW i \in SalesItems, CreateSalesItem(i) PROVE NoDoubleSale'
  BY <1>1 DEF CreateSalesItem
<1>2. ASSUME NEW i \in SalesItems, DeleteSalesItem(i) PROVE NoDoubleSale'
  BY <1>2 DEF DeleteSalesItem
<1>3. ASSUME NEW i \in SalesItems, TouchSalesItem(i) PROVE NoDoubleSale'
  BY <1>3 DEF TouchSalesItem
<1>4. ASSUME NEW i \in SalesItems, ReservationBecomesStale(i)
      PROVE  NoDoubleSale'
  BY <1>4 DEF ReservationBecomesStale
<1>5. ASSUME NEW u \in Users, GetShoppingCart(u) PROVE NoDoubleSale'
  BY <1>5 DEF GetShoppingCart
<1>6. ASSUME NEW u \in Users, EmptyShoppingCart(u) PROVE NoDoubleSale'
  BY <1>6 DEF EmptyShoppingCart
<1>7. ASSUME NEW u \in Users, PlaceOrderRead(u) PROVE NoDoubleSale'
  BY <1>7 DEF PlaceOrderRead
<1>8. ASSUME NEW u \in Users, PlaceOrderAbort(u) PROVE NoDoubleSale'
  BY <1>8 DEF PlaceOrderAbort
<1>9. ASSUME NEW u \in Users, NEW i \in SalesItems, AddToShoppingCart(u, i)
      PROVE  NoDoubleSale'
  BY <1>9 DEF AddToShoppingCart
<1>10. ASSUME NEW u \in Users, NEW i \in SalesItems, RemoveFromShoppingCart(u, i)
       PROVE  NoDoubleSale'
  BY <1>10 DEF RemoveFromShoppingCart
<1>11. ASSUME NEW u \in Users, NEW o \in Orders, PlaceOrderCommit(u, o)
       PROVE  NoDoubleSale'
  BY <1>11 DEF PlaceOrderCommit, Sellable, OrderItemsStaySold, TypeOK
<1>12. ASSUME NEW o \in Orders, PayOrder(o) PROVE NoDoubleSale'
  BY <1>12 DEF PayOrder
<1>13. ASSUME NEW o \in Orders, DiscardUnpaidOrder(o) PROVE NoDoubleSale'
  BY <1>13 DEF DiscardUnpaidOrder, EndOrders
<1>14. ASSUME NEW o \in Orders, DeleteUndeliveredPaidOrder(o)
       PROVE  NoDoubleSale'
  BY <1>14 DEF DeleteUndeliveredPaidOrder, EndOrders
<1>15. ASSUME NEW o \in Orders, OrderBecomesOverdue(o) PROVE NoDoubleSale'
  BY <1>15 DEF OrderBecomesOverdue
<1>16. CASE ChangeExpiredReservedSalesItemStatesToForSale
  BY <1>16 DEF ChangeExpiredReservedSalesItemStatesToForSale
<1>17. ASSUME NEW I \in SUBSET SalesItems, DeleteOldUnsoldSalesItemsDaily(I)
       PROVE  NoDoubleSale'
  BY <1>17 DEF DeleteOldUnsoldSalesItemsDaily
<1>18. CASE DeleteUnpaidOrdersSelect
  BY <1>18 DEF DeleteUnpaidOrdersSelect
<1>19. CASE DeleteUnpaidOrdersCommit
  BY <1>19 DEF DeleteUnpaidOrdersCommit, EndOrders
<1>20. CASE DeleteUnpaidOrdersAbort
  BY <1>20 DEF DeleteUnpaidOrdersAbort
<1> QED
  BY <1>1, <1>2, <1>3, <1>4, <1>5, <1>6, <1>7, <1>8, <1>9, <1>10,
     <1>11, <1>12, <1>13, <1>14, <1>15, <1>16, <1>17, <1>18, <1>19, <1>20 DEF Next, RequestsAndTime

\* No step takes an item away from an order that stays current.
LEMMA OrderItemsStep ==
    ASSUME Inv, Next
    PROVE  OrderItemsStaySold'
<1> USE DEF Inv, OrderItemsStaySold, NoDoubleSale, TypeOK, itemVars, orderVars
<1>1. ASSUME NEW i \in SalesItems, CreateSalesItem(i) PROVE OrderItemsStaySold'
  BY <1>1 DEF CreateSalesItem
<1>2. ASSUME NEW i \in SalesItems, DeleteSalesItem(i) PROVE OrderItemsStaySold'
  BY <1>2 DEF DeleteSalesItem, DeleteItems, Move
<1>3. ASSUME NEW i \in SalesItems, TouchSalesItem(i) PROVE OrderItemsStaySold'
  BY <1>3 DEF TouchSalesItem
<1>4. ASSUME NEW i \in SalesItems, ReservationBecomesStale(i)
      PROVE  OrderItemsStaySold'
  BY <1>4 DEF ReservationBecomesStale
<1>5. ASSUME NEW u \in Users, GetShoppingCart(u) PROVE OrderItemsStaySold'
  BY <1>5 DEF GetShoppingCart
<1>6. ASSUME NEW u \in Users, EmptyShoppingCart(u) PROVE OrderItemsStaySold'
  BY <1>6 DEF EmptyShoppingCart, DeleteCart, PutBackForSale, Move, HeldBy,
              ReleasedByEmptying
<1>7. ASSUME NEW u \in Users, PlaceOrderRead(u) PROVE OrderItemsStaySold'
  BY <1>7 DEF PlaceOrderRead, Unexpired, HeldBy
<1>8. ASSUME NEW u \in Users, PlaceOrderAbort(u) PROVE OrderItemsStaySold'
  BY <1>8 DEF PlaceOrderAbort
<1>9. ASSUME NEW u \in Users, NEW i \in SalesItems, AddToShoppingCart(u, i)
      PROVE  OrderItemsStaySold'
  BY <1>9 DEF AddToShoppingCart, UpdateSalesItemStates, Move, Addable
<1>10. ASSUME NEW u \in Users, NEW i \in SalesItems, RemoveFromShoppingCart(u, i)
       PROVE  OrderItemsStaySold'
  BY <1>10 DEF RemoveFromShoppingCart, PutBackForSale, Move, HeldBy
<1>11. ASSUME NEW u \in Users, NEW o \in Orders, PlaceOrderCommit(u, o)
       PROVE  OrderItemsStaySold'
  BY <1>11 DEF PlaceOrderCommit, UpdateSalesItemStates, Move, Sellable
<1>12. ASSUME NEW o \in Orders, PayOrder(o) PROVE OrderItemsStaySold'
  BY <1>12 DEF PayOrder, Payable, DeleteCart, CartFree, OrderFree
<1>13. ASSUME NEW o \in Orders, DiscardUnpaidOrder(o) PROVE OrderItemsStaySold'
  BY <1>13 DEF DiscardUnpaidOrder, EndOrders, UpdateSalesItemStates, Move,
               VisibleItems, Exists, OrderFree
<1>14. ASSUME NEW o \in Orders, DeleteUndeliveredPaidOrder(o)
       PROVE  OrderItemsStaySold'
  BY <1>14 DEF DeleteUndeliveredPaidOrder, EndOrders, UpdateSalesItemStates,
               Move, VisibleItems, Exists, OrderFree
<1>15. ASSUME NEW o \in Orders, OrderBecomesOverdue(o)
       PROVE  OrderItemsStaySold'
  BY <1>15 DEF OrderBecomesOverdue
<1>16. CASE ChangeExpiredReservedSalesItemStatesToForSale
  BY <1>16 DEF ChangeExpiredReservedSalesItemStatesToForSale,
               UpdateSalesItemStates, Move, ExpiredReservations
<1>17. ASSUME NEW I \in SUBSET SalesItems, DeleteOldUnsoldSalesItemsDaily(I)
       PROVE  OrderItemsStaySold'
  BY <1>17 DEF DeleteOldUnsoldSalesItemsDaily, DeleteItems, Move
<1>18. CASE DeleteUnpaidOrdersSelect
  BY <1>18 DEF DeleteUnpaidOrdersSelect, UnpaidOrderFilter
<1>19. CASE DeleteUnpaidOrdersCommit
  BY <1>19 DEF DeleteUnpaidOrdersCommit, EndOrders, PutBackForSale, Move,
               FinishCleaning, UnpaidOrderFilter, CleaningWorksOnUnpaidOrders,
               TablesConsistent
<1>20. CASE DeleteUnpaidOrdersAbort
  BY <1>20 DEF DeleteUnpaidOrdersAbort, FinishCleaning
<1> QED
  BY <1>1, <1>2, <1>3, <1>4, <1>5, <1>6, <1>7, <1>8, <1>9, <1>10,
     <1>11, <1>12, <1>13, <1>14, <1>15, <1>16, <1>17, <1>18, <1>19, <1>20 DEF Next, RequestsAndTime

\* The orders the job has locked stay unpaid and overdue until it is done.
LEMMA CleaningStep ==
    ASSUME Inv, Next
    PROVE  CleaningWorksOnUnpaidOrders'
<1> USE DEF Inv, TypeOK, CleaningWorksOnUnpaidOrders, UnpaidOrderFilter,
            itemVars, orderVars, jobVars
<1>1. ASSUME NEW i \in SalesItems, CreateSalesItem(i)
      PROVE  CleaningWorksOnUnpaidOrders'
  BY <1>1 DEF CreateSalesItem
<1>2. ASSUME NEW i \in SalesItems, DeleteSalesItem(i)
      PROVE  CleaningWorksOnUnpaidOrders'
  BY <1>2 DEF DeleteSalesItem
<1>3. ASSUME NEW i \in SalesItems, TouchSalesItem(i)
      PROVE  CleaningWorksOnUnpaidOrders'
  BY <1>3 DEF TouchSalesItem
<1>4. ASSUME NEW i \in SalesItems, ReservationBecomesStale(i)
      PROVE  CleaningWorksOnUnpaidOrders'
  BY <1>4 DEF ReservationBecomesStale
<1>5. ASSUME NEW u \in Users, GetShoppingCart(u)
      PROVE  CleaningWorksOnUnpaidOrders'
  BY <1>5 DEF GetShoppingCart
<1>6. ASSUME NEW u \in Users, EmptyShoppingCart(u)
      PROVE  CleaningWorksOnUnpaidOrders'
  BY <1>6 DEF EmptyShoppingCart
<1>7. ASSUME NEW u \in Users, PlaceOrderRead(u)
      PROVE  CleaningWorksOnUnpaidOrders'
  BY <1>7 DEF PlaceOrderRead
<1>8. ASSUME NEW u \in Users, PlaceOrderAbort(u)
      PROVE  CleaningWorksOnUnpaidOrders'
  BY <1>8 DEF PlaceOrderAbort
<1>9. ASSUME NEW u \in Users, NEW i \in SalesItems, AddToShoppingCart(u, i)
      PROVE  CleaningWorksOnUnpaidOrders'
  BY <1>9 DEF AddToShoppingCart
<1>10. ASSUME NEW u \in Users, NEW i \in SalesItems, RemoveFromShoppingCart(u, i)
       PROVE  CleaningWorksOnUnpaidOrders'
  BY <1>10 DEF RemoveFromShoppingCart
<1>11. ASSUME NEW u \in Users, NEW o \in Orders, PlaceOrderCommit(u, o)
       PROVE  CleaningWorksOnUnpaidOrders'
  BY <1>11 DEF PlaceOrderCommit, TablesConsistent, Current
<1>12. ASSUME NEW o \in Orders, PayOrder(o) PROVE CleaningWorksOnUnpaidOrders'
  BY <1>12 DEF PayOrder, Payable, DeleteCart, CartFree, OrderFree
<1>13. ASSUME NEW o \in Orders, DiscardUnpaidOrder(o)
       PROVE  CleaningWorksOnUnpaidOrders'
  BY <1>13 DEF DiscardUnpaidOrder, EndOrders, UpdateSalesItemStates, Move,
               VisibleItems, Exists, OrderFree
<1>14. ASSUME NEW o \in Orders, DeleteUndeliveredPaidOrder(o)
       PROVE  CleaningWorksOnUnpaidOrders'
  BY <1>14 DEF DeleteUndeliveredPaidOrder, EndOrders, UpdateSalesItemStates,
               Move, VisibleItems, Exists, OrderFree
<1>15. ASSUME NEW o \in Orders, OrderBecomesOverdue(o)
       PROVE  CleaningWorksOnUnpaidOrders'
  BY <1>15 DEF OrderBecomesOverdue, TablesConsistent, Current
<1>16. CASE ChangeExpiredReservedSalesItemStatesToForSale
  BY <1>16 DEF ChangeExpiredReservedSalesItemStatesToForSale
<1>17. ASSUME NEW I \in SUBSET SalesItems, DeleteOldUnsoldSalesItemsDaily(I)
       PROVE  CleaningWorksOnUnpaidOrders'
  BY <1>17 DEF DeleteOldUnsoldSalesItemsDaily
<1>18. CASE DeleteUnpaidOrdersSelect
  BY <1>18 DEF DeleteUnpaidOrdersSelect, UnpaidOrderFilter, ItemsRead,
               VisibleItems
<1>19. CASE DeleteUnpaidOrdersCommit
  BY <1>19 DEF DeleteUnpaidOrdersCommit, EndOrders, PutBackForSale, Move,
               FinishCleaning, UnpaidOrderFilter
<1>20. CASE DeleteUnpaidOrdersAbort
  BY <1>20 DEF DeleteUnpaidOrdersAbort, FinishCleaning
<1> QED
  BY <1>1, <1>2, <1>3, <1>4, <1>5, <1>6, <1>7, <1>8, <1>9, <1>10,
     <1>11, <1>12, <1>13, <1>14, <1>15, <1>16, <1>17, <1>18, <1>19, <1>20 DEF Next, RequestsAndTime

\* The invariant is inductive.
LEMMA InvStep == Inv /\ [Next]_vars => Inv'
<1> SUFFICES ASSUME Inv, [Next]_vars PROVE Inv'
  OBVIOUS
<1>1. CASE Next
  BY <1>1, TypeOKStep, TablesStep, NoDoubleSaleStep, OrderItemsStep, CleaningStep DEF Inv
<1>2. CASE UNCHANGED vars
  BY <1>2 DEF Inv, TypeOK, TablesConsistent, NoDoubleSale, OrderItemsStaySold,
             CleaningWorksOnUnpaidOrders, UnpaidOrderFilter, vars, itemVars,
             cartVars, orderVars, jobVars
<1> QED BY <1>1, <1>2

-----------------------------------------------------------------------------
\* Every reachable state satisfies the invariant.
THEOREM Invariance == Spec => []Inv
  BY InitInv, InvStep, PTL DEF Spec

\* The tables hold values of their types.
THEOREM TypeCorrectness == Spec => []TypeOK
<1>1. Inv => TypeOK
  BY DEF Inv
<1> QED BY <1>1, Invariance, PTL

\* placeOrder never sells an item that a current order already holds, in
\* any number of concurrent requests and whatever the jobs do meanwhile.
THEOREM NoItemSoldTwice == Spec => []NoDoubleSale
<1>1. Inv => NoDoubleSale
  BY DEF Inv
<1> QED BY <1>1, Invariance, PTL

\* The items of a current order stay sold to its customer.
THEOREM OrdersKeepTheirItems == Spec => []OrderItemsStaySold
<1>1. Inv => OrderItemsStaySold
  BY DEF Inv
<1> QED BY <1>1, Invariance, PTL

\* deleteUnpaidOrders deletes and releases only what is unpaid and overdue.
THEOREM CleaningIsSafe == Spec => []CleaningWorksOnUnpaidOrders
<1>1. Inv => CleaningWorksOnUnpaidOrders
  BY DEF Inv
<1> QED BY <1>1, Invariance, PTL

-----------------------------------------------------------------------------
(* What single steps may and may not do: Checkout implements the order     *)
(* book, a reservation is not taken over, and a sale is undone with its    *)
(* order only.  The proofs are by the invariant and a case per step.       *)

\* The mapped phase of an order, by the columns of its row.
LEMMA PhaseOfStatus ==
    ASSUME TypeOK, NEW o \in Orders
    PROVE  /\ Phase[o] = "fresh"   <=> status[o] = "absent"
           /\ Phase[o] = "open"    <=> status[o] = "unpaid"
           /\ Phase[o] = "settled" <=> status[o] = "paid"
           /\ Phase[o] = "closed"  <=> status[o] \in {"expired", "discarded", "refunded"}
  BY DEF Phase, TypeOK, Statuses, Current

\* The orders that hold items are the current ones, and they hold them sold.
LEMMA HeldItems ==
    ASSUME Inv
    PROVE  /\ Book!Current = {o \in Orders : status[o] \in Current}
           /\ \A i \in Book!Held : state[i] \in {"sold", "deleted"}
<1>1. Book!Current = {o \in Orders : status[o] \in Current}
  BY PhaseOfStatus DEF Inv, Book!Current, Current
<1> QED BY <1>1 DEF Book!Held, Inv, OrderItemsStaySold

\* The initial tables are an empty order book.
LEMMA InitBook == Init => Book!Init
  BY DEF Init, Book!Init, Phase

\* A step that leaves the orders alone is a stutter of the book, and one that
\* ends them is a Cancel or a ClearOut.
LEMMA UnchangedOrders ==
    ASSUME UNCHANGED <<status, contents>>
    PROVE  UNCHANGED Book!vars
  BY DEF Phase, Book!vars

\* placeOrder places an order for items no current order holds.
LEMMA PlaceOrderPlaces ==
    ASSUME Inv, NEW u \in Users, NEW o \in Orders, PlaceOrderCommit(u, o)
    PROVE  Book!Place(o, placing[u])
<1> USE DEF PlaceOrderCommit
<1>1. Phase[o] = "fresh"
  BY PhaseOfStatus DEF Inv
<1>2. placing[u] \cap Book!Held = {}
  BY HeldItems DEF Sellable
<1>3. Phase' = [Phase EXCEPT ![o] = "open"]
  BY DEF Phase, Inv, TypeOK
<1> QED BY <1>1, <1>2, <1>3 DEF Book!Place

\* Ending one current order cancels it.
LEMMA EndingOneCancels ==
    ASSUME Inv, NEW o \in Orders, status[o] \in Current,
           NEW how \in {"expired", "discarded", "refunded"}, EndOrders({o}, how)
    PROVE  Book!Cancel(o)
<1>1. Phase' = [Phase EXCEPT ![o] = "closed"]
  BY DEF Phase, EndOrders, Inv, TypeOK
<1>2. contents' = [contents EXCEPT ![o] = {}]
  BY DEF EndOrders, Inv, TypeOK
<1> QED BY <1>1, <1>2, HeldItems DEF Book!Cancel

\* deleteUnpaidOrders clears out orders that are open, if any.
LEMMA CleaningClearsOut ==
    ASSUME Inv, DeleteUnpaidOrdersCommit
    PROVE  Book!ClearOut(UnpaidOrderFilter) \/ UNCHANGED Book!vars
<1> DEFINE O == UnpaidOrderFilter
<1>1. EndOrders(O, "expired")
  BY DEF DeleteUnpaidOrdersCommit
<1>2. \A o \in O : o \in Orders /\ Phase[o] = "open"
  BY PhaseOfStatus DEF UnpaidOrderFilter, Inv, TypeOK
<1>3. CASE O = {}
  <2>1. status' = status /\ contents' = contents
    BY <1>1, <1>3 DEF EndOrders, Inv, TypeOK
  <2> QED BY <2>1, UnchangedOrders
<1>4. CASE O # {}
  <2>1. Phase' = [o \in Orders |-> IF o \in O THEN "closed" ELSE Phase[o]]
    BY <1>1 DEF EndOrders, Phase
  <2>2. contents' = [o \in Orders |-> IF o \in O THEN {} ELSE contents[o]]
    BY <1>1 DEF EndOrders
  <2> QED BY <1>2, <1>4, <2>1, <2>2 DEF Book!ClearOut
<1> QED BY <1>3, <1>4

\* Every step of Checkout is a step of the order book or a stutter.
LEMMA StepBook == Inv /\ [Next]_vars => [Book!Next]_Book!vars
<1> SUFFICES ASSUME Inv, Next PROVE [Book!Next]_Book!vars
  BY UnchangedOrders DEF vars, orderVars
<1>1. ASSUME NEW u \in Users, NEW o \in Orders, PlaceOrderCommit(u, o)
      PROVE  Book!Next
  BY <1>1, PlaceOrderPlaces DEF Book!Next, Inv, TypeOK
<1>2. ASSUME NEW o \in Orders, PayOrder(o)
      PROVE  Book!Next
  <2>1. Phase[o] = "open"
    BY <1>2, PhaseOfStatus DEF PayOrder, Payable, Inv
  <2>2. Phase' = [Phase EXCEPT ![o] = "settled"]
    BY <1>2 DEF PayOrder, Phase, Inv, TypeOK
  <2> QED BY <1>2, <2>1, <2>2 DEF PayOrder, Book!Settle, Book!Next
<1>3. ASSUME NEW o \in Orders, DiscardUnpaidOrder(o)
      PROVE  Book!Next
  BY <1>3, EndingOneCancels DEF DiscardUnpaidOrder, Book!Next
<1>4. ASSUME NEW o \in Orders, DeleteUndeliveredPaidOrder(o)
      PROVE  Book!Next
  BY <1>4, EndingOneCancels DEF DeleteUndeliveredPaidOrder, Current, Book!Next
<1>5. CASE DeleteUnpaidOrdersCommit
  BY <1>5, CleaningClearsOut DEF Book!Next, UnpaidOrderFilter, Inv, TypeOK
<1>6. CASE UNCHANGED <<status, contents>>
  BY <1>6, UnchangedOrders
<1>7. \/ UNCHANGED <<status, contents>>
      \/ \E u \in Users, o \in Orders : PlaceOrderCommit(u, o)
      \/ \E o \in Orders : \/ PayOrder(o)
                           \/ DiscardUnpaidOrder(o)
                           \/ DeleteUndeliveredPaidOrder(o)
      \/ DeleteUnpaidOrdersCommit
  BY DEF Next, RequestsAndTime, orderVars, CreateSalesItem, DeleteSalesItem, TouchSalesItem,
         ReservationBecomesStale, GetShoppingCart, EmptyShoppingCart,
         PlaceOrderRead, PlaceOrderAbort, AddToShoppingCart,
         RemoveFromShoppingCart, OrderBecomesOverdue,
         ChangeExpiredReservedSalesItemStatesToForSale,
         DeleteOldUnsoldSalesItemsDaily, DeleteUnpaidOrdersSelect,
         DeleteUnpaidOrdersAbort
<1> QED BY <1>1, <1>2, <1>3, <1>4, <1>5, <1>6, <1>7

\* Checkout implements the order book: what customers see of orders is as if
\* there were no carts, locks, two-step functions or jobs.
THEOREM Refinement == Spec => ImplementsOrderBook
  BY InitBook, StepBook, Invariance, PTL DEF Spec, ImplementsOrderBook, Book!Spec

-----------------------------------------------------------------------------
\* The update helpers, pointwise: what becomes of one item.
LEMMA UpdatedItem ==
    ASSUME TypeOK, NEW i \in SalesItems, NEW I, NEW s, NEW b,
           UpdateSalesItemStates(I, s, b)
    PROVE  IF i \in I THEN state'[i] = s /\ buyer'[i] = b
                      ELSE state'[i] = state[i] /\ buyer'[i] = buyer[i]
  BY DEF UpdateSalesItemStates, Move, TypeOK

LEMMA PutBackItem ==
    ASSUME TypeOK, NEW i \in SalesItems, NEW I, PutBackForSale(I)
    PROVE  /\ state'[i] = IF i \in I THEN "forSale" ELSE state[i]
           /\ buyer'[i] = buyer[i]
  BY DEF PutBackForSale, Move, TypeOK

LEMMA DeletedItem ==
    ASSUME TypeOK, NEW i \in SalesItems, NEW I, DeleteItems(I)
    PROVE  /\ state'[i] = IF i \in I THEN "deleted" ELSE state[i]
           /\ buyer'[i] = buyer[i]
  BY DEF DeleteItems, Move, TypeOK

\* Steps that write no column of a sales item but its timestamp.
LEMMA OtherSteps ==
    ASSUME Next
    PROVE  \/ UNCHANGED <<state, buyer>>
           \/ \E i \in SalesItems : CreateSalesItem(i) \/ DeleteSalesItem(i)
           \/ \E u \in Users : EmptyShoppingCart(u)
           \/ \E u \in Users, i \in SalesItems :
                 AddToShoppingCart(u, i) \/ RemoveFromShoppingCart(u, i)
           \/ \E u \in Users, o \in Orders : PlaceOrderCommit(u, o)
           \/ \E o \in Orders :
                 DiscardUnpaidOrder(o) \/ DeleteUndeliveredPaidOrder(o)
           \/ ChangeExpiredReservedSalesItemStatesToForSale
           \/ \E I \in SUBSET SalesItems : DeleteOldUnsoldSalesItemsDaily(I)
           \/ DeleteUnpaidOrdersCommit
  BY DEF Next, RequestsAndTime, itemVars, TouchSalesItem, ReservationBecomesStale,
         GetShoppingCart, PlaceOrderRead, PlaceOrderAbort, PayOrder,
         OrderBecomesOverdue, DeleteUnpaidOrdersSelect, DeleteUnpaidOrdersAbort

\* A step that leaves an item reserved leaves it with the same user.
LEMMA ReservationStep ==
    ASSUME TypeOK, Next, NEW i \in SalesItems,
           state[i] = "reserved", state'[i] = "reserved"
    PROVE  buyer'[i] = buyer[i]
<1>1. ASSUME NEW j \in SalesItems, CreateSalesItem(j) PROVE buyer'[i] = buyer[i]
  BY <1>1 DEF CreateSalesItem
<1>2. ASSUME NEW j \in SalesItems, DeleteSalesItem(j) PROVE buyer'[i] = buyer[i]
  BY <1>2, DeletedItem DEF DeleteSalesItem
<1>3. ASSUME NEW u \in Users, EmptyShoppingCart(u) PROVE buyer'[i] = buyer[i]
  BY <1>3, PutBackItem DEF EmptyShoppingCart
<1>4. ASSUME NEW u \in Users, NEW j \in SalesItems, AddToShoppingCart(u, j)
      PROVE  buyer'[i] = buyer[i]
  <2>1. state[j] = "forSale" /\ UpdateSalesItemStates({j}, "reserved", u)
    BY <1>4 DEF AddToShoppingCart, Addable
  <2> QED BY <2>1, UpdatedItem
<1>5. ASSUME NEW u \in Users, NEW j \in SalesItems, RemoveFromShoppingCart(u, j)
      PROVE  buyer'[i] = buyer[i]
  BY <1>5, PutBackItem DEF RemoveFromShoppingCart
<1>6. ASSUME NEW u \in Users, NEW o \in Orders, PlaceOrderCommit(u, o)
      PROVE  buyer'[i] = buyer[i]
  <2>1. UpdateSalesItemStates(placing[u], "sold", u)
    BY <1>6 DEF PlaceOrderCommit
  <2> QED BY <2>1, UpdatedItem
<1>7. ASSUME NEW o \in Orders, DiscardUnpaidOrder(o) PROVE buyer'[i] = buyer[i]
  <2>1. /\ \A j \in VisibleItems(o) : state[j] = "sold"
        /\ UpdateSalesItemStates(VisibleItems(o), "reserved", customer[o])
    BY <1>7 DEF DiscardUnpaidOrder
  <2> QED BY <2>1, UpdatedItem
<1>8. ASSUME NEW o \in Orders, DeleteUndeliveredPaidOrder(o)
      PROVE  buyer'[i] = buyer[i]
  <2>1. UpdateSalesItemStates(VisibleItems(o), "forSale", NoUser)
    BY <1>8 DEF DeleteUndeliveredPaidOrder
  <2> QED BY <2>1, UpdatedItem
<1>9. CASE ChangeExpiredReservedSalesItemStatesToForSale
  <2>1. UpdateSalesItemStates(ExpiredReservations, "forSale", NoUser)
    BY <1>9 DEF ChangeExpiredReservedSalesItemStatesToForSale
  <2> QED BY <2>1, UpdatedItem
<1>10. ASSUME NEW I \in SUBSET SalesItems, DeleteOldUnsoldSalesItemsDaily(I)
       PROVE  buyer'[i] = buyer[i]
  BY <1>10, DeletedItem DEF DeleteOldUnsoldSalesItemsDaily
<1>11. CASE DeleteUnpaidOrdersCommit
  BY <1>11, PutBackItem DEF DeleteUnpaidOrdersCommit
<1> QED BY <1>1, <1>2, <1>3, <1>4, <1>5, <1>6, <1>7, <1>8, <1>9, <1>10, <1>11,
           OtherSteps

\* No user loses a reservation to another one.
THEOREM ReservationsAreKept == Spec => ReservationNotTakenOver
<1>1. TypeOK /\ [Next]_vars =>
        [\A i \in SalesItems :
           state[i] = "reserved" /\ state'[i] = "reserved"
             => buyer'[i] = buyer[i]]_vars
  BY ReservationStep DEF vars, itemVars
<1> QED BY <1>1, TypeCorrectness, PTL DEF Spec, ReservationNotTakenOver

-----------------------------------------------------------------------------
\* A step that makes an item of a current order available ends the order.
LEMMA SaleStep ==
    ASSUME Inv, Next, NEW o \in Orders, NEW i \in contents[o],
           state[i] = "sold", state'[i] \notin {"sold", "deleted"}
    PROVE  status'[o] \notin Current
<1> i \in SalesItems /\ buyer[i] = customer[o] /\ TypeOK
  BY DEF Inv, TypeOK, OrderItemsStaySold
<1>1. ASSUME NEW j \in SalesItems, CreateSalesItem(j) PROVE FALSE
  BY <1>1 DEF CreateSalesItem, TypeOK
<1>2. ASSUME NEW j \in SalesItems, DeleteSalesItem(j) PROVE FALSE
  BY <1>2, DeletedItem DEF DeleteSalesItem
<1>3. ASSUME NEW u \in Users, EmptyShoppingCart(u) PROVE FALSE
  <2>1. i \notin ReleasedByEmptying(u)
    BY DEF ReleasedByEmptying, HeldBy
  <2> QED BY <1>3, <2>1, PutBackItem DEF EmptyShoppingCart
<1>4. ASSUME NEW u \in Users, NEW j \in SalesItems, AddToShoppingCart(u, j)
      PROVE  FALSE
  <2>1. state[j] = "forSale" /\ UpdateSalesItemStates({j}, "reserved", u)
    BY <1>4 DEF AddToShoppingCart, Addable
  <2> QED BY <2>1, UpdatedItem
<1>5. ASSUME NEW u \in Users, NEW j \in SalesItems, RemoveFromShoppingCart(u, j)
      PROVE  FALSE
  <2>1. i \notin {j} \cap HeldBy(u)
    BY DEF HeldBy
  <2> QED BY <1>5, <2>1, PutBackItem DEF RemoveFromShoppingCart
<1>6. ASSUME NEW u \in Users, NEW p \in Orders, PlaceOrderCommit(u, p)
      PROVE  FALSE
  <2>1. UpdateSalesItemStates(placing[u], "sold", u)
    BY <1>6 DEF PlaceOrderCommit
  <2> QED BY <2>1, UpdatedItem
<1>7. ASSUME NEW p \in Orders,
             \/ UpdateSalesItemStates(VisibleItems(p), "reserved", customer[p])
             \/ UpdateSalesItemStates(VisibleItems(p), "forSale", NoUser)
      PROVE  p = o
  <2>1. i \in contents[p]
    BY <1>7, UpdatedItem DEF VisibleItems
  <2> QED BY <2>1 DEF Inv, NoDoubleSale
<1>8. ASSUME NEW p \in Orders, DiscardUnpaidOrder(p)
      PROVE  status'[o] \notin Current
  BY <1>7, <1>8 DEF DiscardUnpaidOrder, EndOrders, Current
<1>9. ASSUME NEW p \in Orders, DeleteUndeliveredPaidOrder(p)
      PROVE  status'[o] \notin Current
  BY <1>7, <1>9 DEF DeleteUndeliveredPaidOrder, EndOrders, Current
<1>10. CASE ChangeExpiredReservedSalesItemStatesToForSale
  <2>1. /\ UpdateSalesItemStates(ExpiredReservations, "forSale", NoUser)
        /\ i \notin ExpiredReservations
    BY <1>10 DEF ChangeExpiredReservedSalesItemStatesToForSale,
                 ExpiredReservations, TypeOK
  <2> QED BY <2>1, UpdatedItem
<1>11. ASSUME NEW I \in SUBSET SalesItems, DeleteOldUnsoldSalesItemsDaily(I)
       PROVE  FALSE
  BY <1>11, DeletedItem DEF DeleteOldUnsoldSalesItemsDaily
<1>12. CASE DeleteUnpaidOrdersCommit
  <2>1. PutBackForSale(releasing) /\ EndOrders(UnpaidOrderFilter, "expired")
    BY <1>12 DEF DeleteUnpaidOrdersCommit
  <2>2. PICK p \in selected : i \in contents[p]
    BY <2>1, PutBackItem DEF Inv, CleaningWorksOnUnpaidOrders
  <2>3. p = o /\ p \in UnpaidOrderFilter
    BY <2>2 DEF Inv, NoDoubleSale, CleaningWorksOnUnpaidOrders, TypeOK
  <2> QED BY <2>1, <2>3 DEF EndOrders, Current
<1> QED BY <1>1, <1>2, <1>3, <1>4, <1>5, <1>6, <1>8, <1>9, <1>10, <1>11, <1>12,
           OtherSteps

\* A sold item comes back on the market only with the order that sold it.
THEOREM SalesAreKept == Spec => SaleUndoneOnlyWithItsOrder
<1>1. Inv /\ [Next]_vars =>
        [\A o \in Orders : \A i \in contents[o] :
           state[i] = "sold" /\ state'[i] \notin {"sold", "deleted"}
             => status'[o] \notin Current]_vars
  BY SaleStep DEF vars, itemVars
<1> QED BY <1>1, Invariance, PTL DEF Spec, SaleUndoneOnlyWithItsOrder

-----------------------------------------------------------------------------
(* What deleteUnpaidOrders reads stays what it has to release.             *)

\* The rows that deleteUnpaidOrders finds fit in a batch.  When they do not,
\* the items come with callbacks after the caller has gone on without them.
RowsFitBatch == ~ (Cardinality(JoinedRows(UnpaidOrderFilter)) > RowBatchSize)

\* Items of the orders that were read are being released, unless deleted before.
ItemsAreReleasing ==
    \A o \in selected : \A i \in contents[o] : i \in releasing \/ state[i] = "deleted"

\* Only deleteUnpaidOrders may put back what was deleted, and it does not.
LEMMA DeletedItemsStay ==
    ASSUME Inv, Next, ~ DeleteUnpaidOrdersCommit, NEW i \in SalesItems, state[i] = "deleted"
    PROVE  state'[i] = "deleted"
<1> TypeOK
  BY DEF Inv
<1>1. ASSUME NEW j \in SalesItems, CreateSalesItem(j) PROVE state'[i] = "deleted"
  BY <1>1 DEF CreateSalesItem, TypeOK
<1>2. ASSUME NEW j \in SalesItems, DeleteSalesItem(j) PROVE state'[i] = "deleted"
  BY <1>2, DeletedItem DEF DeleteSalesItem
<1>3. ASSUME NEW u \in Users, EmptyShoppingCart(u) PROVE state'[i] = "deleted"
  <2>1. i \notin ReleasedByEmptying(u)
    BY DEF ReleasedByEmptying, HeldBy
  <2> QED BY <1>3, <2>1, PutBackItem DEF EmptyShoppingCart
<1>4. ASSUME NEW u \in Users, NEW j \in SalesItems, AddToShoppingCart(u, j)
      PROVE  state'[i] = "deleted"
  <2>1. state[j] = "forSale" /\ UpdateSalesItemStates({j}, "reserved", u)
    BY <1>4 DEF AddToShoppingCart, Addable
  <2> QED BY <2>1, UpdatedItem
<1>5. ASSUME NEW u \in Users, NEW j \in SalesItems, RemoveFromShoppingCart(u, j)
      PROVE  state'[i] = "deleted"
  <2>1. i \notin {j} \cap HeldBy(u)
    BY DEF HeldBy
  <2> QED BY <1>5, <2>1, PutBackItem DEF RemoveFromShoppingCart
<1>6. ASSUME NEW u \in Users, NEW o \in Orders, PlaceOrderCommit(u, o)
      PROVE  state'[i] = "deleted"
  <2>1. i \notin placing[u] /\ UpdateSalesItemStates(placing[u], "sold", u)
    BY <1>6 DEF PlaceOrderCommit, Sellable
  <2> QED BY <2>1, UpdatedItem
<1>7. ASSUME NEW o \in Orders, DiscardUnpaidOrder(o) \/ DeleteUndeliveredPaidOrder(o)
      PROVE  state'[i] = "deleted"
  <2>1. \/ UpdateSalesItemStates(VisibleItems(o), "reserved", customer[o])
        \/ UpdateSalesItemStates(VisibleItems(o), "forSale", NoUser)
    BY <1>7 DEF DiscardUnpaidOrder, DeleteUndeliveredPaidOrder
  <2>2. i \notin VisibleItems(o)
    BY DEF VisibleItems, Exists
  <2> QED BY <2>1, <2>2, UpdatedItem
<1>8. CASE ChangeExpiredReservedSalesItemStatesToForSale
  <2>1. /\ UpdateSalesItemStates(ExpiredReservations, "forSale", NoUser)
        /\ i \notin ExpiredReservations
    BY <1>8 DEF ChangeExpiredReservedSalesItemStatesToForSale, ExpiredReservations, TypeOK
  <2> QED BY <2>1, UpdatedItem
<1>9. ASSUME NEW I \in SUBSET SalesItems, DeleteOldUnsoldSalesItemsDaily(I)
      PROVE  state'[i] = "deleted"
  BY <1>9, DeletedItem DEF DeleteOldUnsoldSalesItemsDaily
<1> QED BY <1>1, <1>2, <1>3, <1>4, <1>5, <1>6, <1>7, <1>8, <1>9, OtherSteps

\* Between the two statements of the job, no step changes its orders.
LEMMA SelectedOrdersStay ==
    ASSUME Inv, Next, ~ DeleteUnpaidOrdersSelect, NEW o \in selected', NEW i \in contents'[o]
    PROVE  /\ ~ DeleteUnpaidOrdersCommit
           /\ o \in selected /\ i \in contents[o] /\ releasing' = releasing
<1>1. ~ DeleteUnpaidOrdersCommit /\ ~ DeleteUnpaidOrdersAbort
  BY DEF DeleteUnpaidOrdersCommit, DeleteUnpaidOrdersAbort, FinishCleaning
<1>2. selected' = selected /\ releasing' = releasing
  BY <1>1 DEF Next, RequestsAndTime, jobVars, CreateSalesItem, DeleteSalesItem, TouchSalesItem,
         ReservationBecomesStale, GetShoppingCart, EmptyShoppingCart, PlaceOrderRead,
         PlaceOrderAbort, AddToShoppingCart, RemoveFromShoppingCart, PlaceOrderCommit,
         PayOrder, DiscardUnpaidOrder, DeleteUndeliveredPaidOrder, OrderBecomesOverdue,
         ChangeExpiredReservedSalesItemStatesToForSale, DeleteOldUnsoldSalesItemsDaily
<1>3. o \in Orders /\ status[o] = "unpaid"
  BY <1>2 DEF Inv, TypeOK, CleaningWorksOnUnpaidOrders, UnpaidOrderFilter
<1>4. \/ contents' = contents
      \/ \E u \in Users, p \in Orders : PlaceOrderCommit(u, p)
      \/ \E p \in Orders : DiscardUnpaidOrder(p) \/ DeleteUndeliveredPaidOrder(p)
  BY <1>1 DEF Next, RequestsAndTime, orderVars, CreateSalesItem, DeleteSalesItem, TouchSalesItem,
         ReservationBecomesStale, GetShoppingCart, EmptyShoppingCart, PlaceOrderRead,
         PlaceOrderAbort, AddToShoppingCart, RemoveFromShoppingCart, PayOrder,
         OrderBecomesOverdue, ChangeExpiredReservedSalesItemStatesToForSale,
         DeleteOldUnsoldSalesItemsDaily
<1>5. ASSUME NEW u \in Users, NEW p \in Orders, PlaceOrderCommit(u, p)
      PROVE  contents'[o] = contents[o]
  BY <1>3, <1>5 DEF PlaceOrderCommit, Inv, TypeOK
<1>6. ASSUME NEW p \in Orders, DiscardUnpaidOrder(p) \/ DeleteUndeliveredPaidOrder(p)
      PROVE  contents'[o] = contents[o]
  BY <1>2, <1>3, <1>6 DEF DiscardUnpaidOrder, DeleteUndeliveredPaidOrder, OrderFree, EndOrders
<1> QED BY <1>1, <1>2, <1>4, <1>5, <1>6

LEMMA ReleasingStep ==
    ASSUME Inv, ItemsAreReleasing, RowsFitBatch, [Next]_vars
    PROVE  ItemsAreReleasing'
<1>1. CASE DeleteUnpaidOrdersSelect
  <2> SUFFICES ASSUME NEW o \in selected', NEW i \in contents'[o], i \notin releasing'
               PROVE  state'[i] = "deleted"
    BY DEF ItemsAreReleasing
  <2>1. /\ o \in UnpaidOrderFilter /\ contents' = contents /\ state' = state
        /\ releasing' = ItemsRead(UnpaidOrderFilter)
    BY <1>1 DEF DeleteUnpaidOrdersSelect, itemVars, orderVars
  <2>2. releasing' = UNION {VisibleItems(p) : p \in UnpaidOrderFilter}
    BY <2>1 DEF ItemsRead, RowsFitBatch
  <2>3. i \notin VisibleItems(o)
    BY <2>1, <2>2
  <2>4. o \in Orders /\ o \in overdue
    BY <2>1 DEF UnpaidOrderFilter, Inv, TypeOK
  <2>5. state[i] \in {"sold", "deleted"}
    BY <2>1, <2>4 DEF Inv, OrderItemsStaySold
  <2> QED BY <2>1, <2>3, <2>5 DEF VisibleItems, Exists
<1>2. CASE Next /\ ~ DeleteUnpaidOrdersSelect
  <2> SUFFICES ASSUME NEW o \in selected', NEW i \in contents'[o]
               PROVE  i \in releasing' \/ state'[i] = "deleted"
    BY DEF ItemsAreReleasing
  <2>1. /\ ~ DeleteUnpaidOrdersCommit
        /\ o \in selected /\ i \in contents[o] /\ releasing' = releasing
    BY <1>2, SelectedOrdersStay
  <2>2. i \in SalesItems
    BY <2>1 DEF Inv, TypeOK
  <2> QED BY <1>2, <2>1, <2>2, DeletedItemsStay DEF ItemsAreReleasing
<1>3. CASE UNCHANGED vars
  BY <1>3 DEF ItemsAreReleasing, vars, itemVars, orderVars, jobVars
<1> QED BY <1>1, <1>2, <1>3

\* Expiring a read order puts back what is being released.
LEMMA ExpiringReleases ==
    ASSUME Inv, ItemsAreReleasing, Next, NEW o \in selected, status'[o] = "expired",
           NEW i \in contents[o]
    PROVE  state'[i] \in {"forSale", "deleted"}
<1>1. o \in Orders /\ i \in SalesItems /\ TypeOK /\ status[o] = "unpaid"
  BY DEF Inv, TypeOK, CleaningWorksOnUnpaidOrders, UnpaidOrderFilter
<1>2. CASE DeleteUnpaidOrdersCommit
  BY <1>1, <1>2, PutBackItem DEF DeleteUnpaidOrdersCommit, ItemsAreReleasing
<1>3. CASE ~ DeleteUnpaidOrdersCommit
  <2>1. \/ status' = status
        \/ \E u \in Users, p \in Orders : PlaceOrderCommit(u, p)
        \/ \E p \in Orders : \/ PayOrder(p) \/ DiscardUnpaidOrder(p)
                             \/ DeleteUndeliveredPaidOrder(p)
    BY <1>3 DEF Next, RequestsAndTime, orderVars, CreateSalesItem, DeleteSalesItem, TouchSalesItem,
         ReservationBecomesStale, GetShoppingCart, EmptyShoppingCart, PlaceOrderRead,
         PlaceOrderAbort, AddToShoppingCart, RemoveFromShoppingCart,
         OrderBecomesOverdue, ChangeExpiredReservedSalesItemStatesToForSale,
         DeleteOldUnsoldSalesItemsDaily, DeleteUnpaidOrdersSelect, DeleteUnpaidOrdersAbort
  <2>2. ASSUME NEW p \in Orders, \/ PayOrder(p) \/ DiscardUnpaidOrder(p)
                                  \/ DeleteUndeliveredPaidOrder(p)
        PROVE  status'[o] = status[o]
    BY <1>1, <2>2 DEF PayOrder, DiscardUnpaidOrder, DeleteUndeliveredPaidOrder, OrderFree,
         EndOrders, TypeOK
  <2>3. ASSUME NEW u \in Users, NEW p \in Orders, PlaceOrderCommit(u, p)
        PROVE  status'[o] # "expired"
    BY <1>1, <2>3 DEF PlaceOrderCommit, TypeOK
  <2> QED BY <1>1, <2>1, <2>2, <2>3
<1> QED BY <1>2, <1>3

\* As long as the rows that deleteUnpaidOrders finds fit in a batch, every
\* order it has read gets all its items back in the transaction that deletes
\* the order, whatever users, sellers and payments do between its statements.
THEOREM ExpiredOrdersReleaseTheirItems ==
    Spec /\ []RowsFitBatch => ReadOrdersAreReleased
<1>1. Init => ItemsAreReleasing
  BY DEF Init, ItemsAreReleasing
<1>2. Inv /\ ItemsAreReleasing /\ RowsFitBatch /\ [Next]_vars => ItemsAreReleasing'
  BY ReleasingStep
<1>3. Inv /\ ItemsAreReleasing /\ [Next]_vars =>
        [\A o \in selected : status'[o] = "expired" =>
            \A i \in contents[o] : state'[i] \in {"forSale", "deleted"}]_vars
  BY ExpiringReleases
<1> QED BY <1>1, <1>2, <1>3, Invariance, PTL DEF Spec, ReadOrdersAreReleased
=============================================================================
