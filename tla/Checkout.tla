------------------------------ MODULE Checkout ------------------------------
(***************************************************************************)
(* Sales items on their way from a seller to a customer: the state column  *)
(* of the sales items, the shopping carts that reserve them and the orders *)
(* that sell them, under concurrent requests and the periodic jobs         *)
(* (SalesItemServiceImpl, ShoppingCartServiceImpl, OrderServiceImpl).      *)
(*                                                                         *)
(* A service function whose reads all lock what they read is one action.   *)
(* Two functions take two: placeOrder, whose joined sales items are read   *)
(* without a lock, and deleteUnpaidOrders, whose two statements evaluate   *)
(* the expiry condition at two instants.  A row lock is held from the step *)
(* that takes it to the step that ends the transaction.                    *)
(*                                                                         *)
(* An operator defined right above another one of the same parameters and  *)
(* used nowhere is the other one with a plausible mistake in it; README.md *)
(* says which property tells the two apart.                                *)
(***************************************************************************)
EXTENDS Naturals, FiniteSets

CONSTANTS Users,         \* user accounts that buy
          SalesItems,    \* identities of sales items
          Orders,        \* identities of orders
          NoUser,        \* the null of buyerUserAccountId
          RowBatchSize   \* ROW_PROCESSING_BATCH_SIZE: rows mapped at once

ASSUME NoUserAssumption == NoUser \notin Users
ASSUME BatchAssumption  == RowBatchSize \in Nat

VARIABLES
    state,       \* state[i]: column state of sales item i, or its absence
    buyer,       \* buyer[i]: column buyerUserAccountId
    stale,       \* reserved items not modified for the maximum reservation time
    carts,       \* carts[u]: the sales items u's shopping cart refers to
    cartOwners,  \* users that have a shopping cart
    status,      \* status[o]: absent, current, or how the order ended
    customer,    \* customer[o]: userAccountId of a current order
    contents,    \* contents[o]: the sales items of a current order
    overdue,     \* current orders not modified for the time an unpaid one lives
    placing,     \* placing[u]: cart read by u's running placeOrder, {} if none
    cleaning,    \* deleteUnpaidOrders is between its two statements
    selected,    \* orders its first statement read and locked
    releasing    \* sales items its first statement is putting back for sale

itemVars  == <<state, buyer, stale>>
cartVars  == <<carts, cartOwners>>
orderVars == <<status, customer, contents, overdue>>
jobVars   == <<cleaning, selected, releasing>>
vars == <<itemVars, cartVars, orderVars, placing, jobVars>>

-----------------------------------------------------------------------------
SalesItemStates == {"absent", "forSale", "reserved", "sold", "deleted"}
Current  == {"unpaid", "paid"}
Statuses == Current \cup {"absent", "expired", "discarded", "refunded"}

TypeOK ==
    /\ state \in [SalesItems -> SalesItemStates]
    /\ buyer \in [SalesItems -> Users \cup {NoUser}]
    /\ stale \subseteq {i \in SalesItems : state[i] = "reserved"}
    /\ cartOwners \subseteq Users
    /\ carts \in [Users -> SUBSET SalesItems]
    /\ \A u \in Users \ cartOwners : carts[u] = {}
    /\ status \in [Orders -> Statuses]
    /\ customer \in [Orders -> Users \cup {NoUser}]
    /\ contents \in [Orders -> SUBSET SalesItems]
    /\ overdue \subseteq Orders
    /\ placing \in [Users -> SUBSET SalesItems]
    /\ cleaning \in BOOLEAN
    /\ selected \subseteq Orders
    /\ releasing \subseteq SalesItems

Init ==
    /\ state = [i \in SalesItems |-> "absent"]
    /\ buyer = [i \in SalesItems |-> NoUser]
    /\ stale = {}
    /\ carts = [u \in Users |-> {}]
    /\ cartOwners = {}
    /\ status = [o \in Orders |-> "absent"]
    /\ customer = [o \in Orders |-> NoUser]
    /\ contents = [o \in Orders |-> {}]
    /\ overdue = {}
    /\ placing = [u \in Users |-> {}]
    /\ cleaning = FALSE
    /\ selected = {}
    /\ releasing = {}

-----------------------------------------------------------------------------
(* Row locks, and what the joined reads of a cart or an order return.      *)

CartFree(u)  == placing[u] = {}
OrderNeverLocked(o) == o \in Orders
OrderFree(o) == o \notin selected
ItemFree(i)  == i \notin releasing
Exists(i)    == state[i] \notin {"absent", "deleted"}

\* Deleting a sales item takes its association rows along (ON DELETE CASCADE);
\* contents and carts keep its name, which no reader of the code sees.
VisibleItems(o) == {i \in contents[o] : Exists(i)}

BoughtOrHeldBy(u) == {i \in SalesItems : Exists(i) /\ buyer[i] = u}
HeldBy(u) == {i \in SalesItems : state[i] = "reserved" /\ buyer[i] = u}

\* What removeExpiredSalesItemsFromShoppingCart leaves in the cart.
Unexpired(u) == carts[u] \cap HeldBy(u)

Move(I, newState) ==
    state' = [i \in SalesItems |-> IF i \in I THEN newState ELSE state[i]]

\* updateSalesItemState on the items of I: a new state and a new buyer.
UpdateSalesItemStates(I, newState, newBuyer) ==
    /\ Move(I, newState)
    /\ buyer' = [i \in SalesItems |-> IF i \in I THEN newBuyer ELSE buyer[i]]
    /\ stale' = stale \ I

\* updateEntitiesByFilters with {state: 'forSale'}: the buyer stays in the row.
PutBackForSale(I) ==
    /\ Move(I, "forSale")
    /\ stale' = stale \ I
    /\ UNCHANGED buyer

\* The rows of the items go, with their association rows; orders and carts stay.
DeleteItems(I) ==
    /\ Move(I, "deleted")
    /\ stale' = stale \ I
    /\ UNCHANGED buyer

EndOrders(O, how) ==
    /\ status' = [o \in Orders |-> IF o \in O THEN how ELSE status[o]]
    /\ customer' = [o \in Orders |-> IF o \in O THEN NoUser ELSE customer[o]]
    /\ contents' = [o \in Orders |-> IF o \in O THEN {} ELSE contents[o]]
    /\ overdue' = overdue \ O

-----------------------------------------------------------------------------
(* Sellers.                                                                *)

CreateSalesItem(i) ==
    /\ state[i] = "absent"
    /\ state' = [state EXCEPT ![i] = "forSale"]
    /\ UNCHANGED <<buyer, stale, cartVars, orderVars, placing, jobVars>>

\* No condition on the state of the item: a reserved or sold one goes too.
DeleteSalesItem(i) ==
    /\ Exists(i)
    /\ ItemFree(i)
    /\ DeleteItems({i})
    /\ UNCHANGED <<cartVars, orderVars, placing, jobVars>>

\* A like or a follower bumps lastModifiedTimestamp.
TouchSalesItem(i) ==
    /\ i \in stale
    /\ stale' = stale \ {i}
    /\ UNCHANGED <<state, buyer, cartVars, orderVars, placing, jobVars>>

-----------------------------------------------------------------------------
(* Shopping carts.                                                         *)

GetShoppingCart(u) ==
    /\ CartFree(u)
    /\ carts' = [carts EXCEPT ![u] = Unexpired(u)]
    /\ cartOwners' = cartOwners \cup {u}
    /\ UNCHANGED <<itemVars, orderVars, placing, jobVars>>

AddableWithoutStateCheck(u, i) == Exists(i) /\ i \notin carts[u]
\* The required current state of the item, and the key of the cart's rows.
Addable(u, i) == state[i] = "forSale" /\ i \notin carts[u]

AddToShoppingCart(u, i) ==
    /\ CartFree(u)
    /\ ItemFree(i)
    /\ Addable(u, i)
    /\ UpdateSalesItemStates({i}, "reserved", u)
    /\ carts' = [carts EXCEPT ![u] = @ \cup {i}]
    /\ cartOwners' = cartOwners \cup {u}
    /\ UNCHANGED <<orderVars, placing, jobVars>>

\* Releases the item whenever u holds it, even if it is not in the cart.
RemoveFromShoppingCart(u, i) ==
    /\ u \in cartOwners
    /\ CartFree(u)
    /\ PutBackForSale({i} \cap HeldBy(u))
    /\ carts' = [carts EXCEPT ![u] = @ \ {i}]
    /\ UNCHANGED <<cartOwners, orderVars, placing, jobVars>>

\* The filter on ids is dropped when there is none: all that u holds goes.
ReleasedByEmptying(u) ==
    LET ids == {i \in carts[u] : Exists(i)}
    IN  IF ids = {} THEN HeldBy(u) ELSE ids \cap HeldBy(u)

DeleteCartLeavingItsRows(u) ==
    /\ cartOwners' = cartOwners \ {u}
    /\ UNCHANGED carts
\* The cart's row and its association rows.
DeleteCart(u) ==
    /\ cartOwners' = cartOwners \ {u}
    /\ carts' = [carts EXCEPT ![u] = {}]

EmptyShoppingCart(u) ==
    /\ u \in cartOwners
    /\ CartFree(u)
    /\ PutBackForSale(ReleasedByEmptying(u))
    /\ DeleteCart(u)
    /\ UNCHANGED <<orderVars, placing, jobVars>>

-----------------------------------------------------------------------------
(* Orders.                                                                 *)

\* getShoppingCartOrErrorIfEmpty: the cart is locked, its items are not.
PlaceOrderRead(u) ==
    /\ CartFree(u)
    /\ Unexpired(u) # {}
    /\ placing' = [placing EXCEPT ![u] = Unexpired(u)]
    /\ UNCHANGED <<itemVars, cartVars, orderVars, jobVars>>

SellableUnlessGone(I, u) == \A i \in I : Exists(i)
\* The pre-hooks of updateSalesItemState for 'sold'.  The second one compares
\* the buyer of the row with itself, so it says nothing of the buyer.
Sellable(I, u) == \A i \in I : state[i] = "reserved"

PlaceOrderCommit(u, o) ==
    /\ placing[u] # {}
    /\ status[o] = "absent"
    /\ Sellable(placing[u], u)
    /\ UpdateSalesItemStates(placing[u], "sold", u)
    /\ status' = [status EXCEPT ![o] = "unpaid"]
    /\ customer' = [customer EXCEPT ![o] = u]
    /\ contents' = [contents EXCEPT ![o] = placing[u]]
    /\ carts' = [carts EXCEPT ![u] = placing[u]]
    /\ placing' = [placing EXCEPT ![u] = {}]
    /\ UNCHANGED <<cartOwners, overdue, jobVars>>

\* A pre-hook or a statement failed and the transaction was rolled back.
PlaceOrderAbort(u) ==
    /\ placing[u] # {}
    /\ placing' = [placing EXCEPT ![u] = {}]
    /\ UNCHANGED <<itemVars, cartVars, orderVars, jobVars>>

PayableUnlessEnded(o) == status[o] \in Current
Payable(o) == status[o] = "unpaid"

\* Paying deletes the customer's cart, whatever was put in it since.
PayOrder(o) ==
    /\ OrderFree(o)
    /\ Payable(o)
    /\ CartFree(customer[o])
    /\ status' = [status EXCEPT ![o] = "paid"]
    /\ overdue' = overdue \ {o}
    /\ DeleteCart(customer[o])
    /\ UNCHANGED <<itemVars, customer, contents, placing, jobVars>>

\* Nothing asks whether the order is paid.
DiscardUnpaidOrder(o) ==
    /\ OrderFree(o)
    /\ status[o] \in Current
    /\ \A i \in VisibleItems(o) : state[i] = "sold"
    /\ UpdateSalesItemStates(VisibleItems(o), "reserved", customer[o])
    /\ EndOrders({o}, "discarded")
    /\ UNCHANGED <<cartVars, placing, jobVars>>

\* None of its items is delivered here; OrderItems is the delivery.
DeleteUndeliveredPaidOrder(o) ==
    /\ OrderFree(o)
    /\ status[o] = "paid"
    /\ UpdateSalesItemStates(VisibleItems(o), "forSale", NoUser)
    /\ EndOrders({o}, "refunded")
    /\ UNCHANGED <<cartVars, placing, jobVars>>

-----------------------------------------------------------------------------
(* The periodic jobs, and the time that drives them.                       *)

ReservationBecomesStale(i) ==
    /\ state[i] = "reserved"
    /\ i \notin stale
    /\ stale' = stale \cup {i}
    /\ UNCHANGED <<state, buyer, cartVars, orderVars, placing, jobVars>>

OrderBecomesOverdue(o) ==
    /\ status[o] \in Current
    /\ o \notin overdue
    /\ overdue' = overdue \cup {o}
    /\ UNCHANGED <<itemVars, cartVars, status, customer, contents, placing, jobVars>>

ExpiredInSomeCart == {i \in stale : \E u \in Users : i \in carts[u]}
ExpiredReservations == stale

ChangeExpiredReservedSalesItemStatesToForSale ==
    /\ ExpiredReservations # {}
    /\ UpdateSalesItemStates(ExpiredReservations, "forSale", NoUser)
    /\ UNCHANGED <<cartVars, orderVars, placing, jobVars>>

DeleteOldUnsoldSalesItemsDaily(I) ==
    /\ I # {}
    /\ \A i \in I : state[i] = "forSale"
    /\ DeleteItems(I)
    /\ UNCHANGED <<cartVars, orderVars, placing, jobVars>>

OverdueOrders == overdue
UnpaidOrderFilter == {o \in overdue : status[o] = "unpaid"}

\* One row per order item.  More rows than a batch are mapped by callbacks
\* that run after the result has been returned: the caller gets none.
JoinedRows(O) == {r \in O \X SalesItems : r[2] \in contents[r[1]]}
ItemsOfOneOrder(O) ==
    IF O = {} THEN {} ELSE VisibleItems(CHOOSE o \in O : TRUE)
ItemsRead(O) ==
    IF Cardinality(JoinedRows(O)) > RowBatchSize
      THEN {} ELSE UNION {VisibleItems(o) : o \in O}

DeleteUnpaidOrdersSelect ==
    /\ ~cleaning
    /\ cleaning' = TRUE
    /\ selected' = UnpaidOrderFilter
    /\ releasing' = ItemsRead(UnpaidOrderFilter)
    /\ UNCHANGED <<itemVars, cartVars, orderVars, placing>>

FinishCleaning ==
    /\ cleaning' = FALSE
    /\ selected' = {}
    /\ releasing' = {}

CommittableIfItemsReleased == releasing # {}
Committable == cleaning

\* The delete evaluates the filter again, at its own current_timestamp.
DeleteUnpaidOrdersCommit ==
    /\ cleaning
    /\ Committable
    /\ PutBackForSale(releasing)
    /\ EndOrders(UnpaidOrderFilter, "expired")
    /\ FinishCleaning
    /\ UNCHANGED <<cartVars, placing>>

DeleteUnpaidOrdersAbort ==
    /\ cleaning
    /\ FinishCleaning
    /\ UNCHANGED <<itemVars, cartVars, orderVars, placing>>

-----------------------------------------------------------------------------
\* What users, sellers and the gateway do, and the passing of time.
RequestsAndTime ==
    \/ \E i \in SalesItems :
          \/ CreateSalesItem(i)
          \/ DeleteSalesItem(i)
          \/ TouchSalesItem(i)
          \/ ReservationBecomesStale(i)
    \/ \E u \in Users :
          \/ GetShoppingCart(u)
          \/ EmptyShoppingCart(u)
          \/ PlaceOrderRead(u)
          \/ PlaceOrderAbort(u)
          \/ \E i \in SalesItems :
                AddToShoppingCart(u, i) \/ RemoveFromShoppingCart(u, i)
          \/ \E o \in Orders : PlaceOrderCommit(u, o)
    \/ \E o \in Orders :
          \/ PayOrder(o)
          \/ DiscardUnpaidOrder(o)
          \/ DeleteUndeliveredPaidOrder(o)
          \/ OrderBecomesOverdue(o)

Next ==
    \/ RequestsAndTime
    \/ ChangeExpiredReservedSalesItemStatesToForSale
    \/ \E I \in SUBSET SalesItems : DeleteOldUnsoldSalesItemsDaily(I)
    \/ DeleteUnpaidOrdersSelect
    \/ DeleteUnpaidOrdersCommit
    \/ DeleteUnpaidOrdersAbort

Spec == Init /\ [][Next]_vars

-----------------------------------------------------------------------------
(* Properties.                                                             *)

\* No sales item is in two current orders: whatever the interleaving of
\* placeOrder calls, jobs and releases, an item is sold once at a time.
NoDoubleSale ==
    \A o, p \in Orders : o # p => contents[o] \cap contents[p] = {}

\* While an order is current its items stay sold to its customer (or were
\* deleted by their seller): no cart operation, reservation job or other
\* order takes an item out of a current order.
OrderItemsStaySold ==
    \A o \in Orders : \A i \in contents[o] :
        \/ state[i] = "deleted"
        \/ state[i] = "sold" /\ buyer[i] = customer[o]

\* The orders deleteUnpaidOrders has read are still unpaid and overdue when
\* it deletes, and what it releases is theirs: a payment cannot slip in.
CleaningWorksOnUnpaidOrders ==
    /\ selected \subseteq UnpaidOrderFilter
    /\ releasing \subseteq UNION {contents[o] : o \in selected}

\* The tables agree with one another: only current orders have rows, a cart
\* being ordered still exists, and no lock outlives deleteUnpaidOrders.
TablesConsistent ==
    /\ \A o \in Orders : IF status[o] \in Current THEN customer[o] \in Users
                         ELSE contents[o] = {} /\ o \notin overdue
    /\ \A u \in Users : placing[u] # {} => u \in cartOwners
    /\ ~cleaning => selected = {} /\ releasing = {}

\* A reservation does not pass from one user to another: an item somebody
\* holds goes back for sale before somebody else can hold it.
ReservationNotTakenOver ==
    [][\A i \in SalesItems :
          state[i] = "reserved" /\ state'[i] = "reserved" => buyer'[i] = buyer[i]]_vars

\* An item of a current order stops being sold only in the step that ends
\* that order, or by its deletion.
SaleUndoneOnlyWithItsOrder ==
    [][\A o \in Orders : \A i \in contents[o] :
          state[i] = "sold" /\ state'[i] \notin {"sold", "deleted"}
             => status'[o] \notin Current]_vars

\* Every order deleteUnpaidOrders has read gets all its items back for sale
\* in the transaction that deletes it.
ReadOrdersAreReleased ==
    [][\A o \in selected : status'[o] = "expired" =>
          \A i \in contents[o] : state'[i] \in {"forSale", "deleted"}]_vars

\* Checkout implements the order book: what carts, locks, the two-step
\* functions and the jobs do amounts to placing, settling and ending orders.
Phase == [o \in Orders |-> CASE status[o] = "absent" -> "fresh"
                             [] status[o] = "unpaid" -> "open"
                             [] status[o] = "paid"   -> "settled"
                             [] OTHER -> "closed"]
Book == INSTANCE OrderBook
            WITH Items <- SalesItems, phase <- Phase, entries <- contents
ImplementsOrderBook == Book!Spec

-----------------------------------------------------------------------------
(* What a test says of the program and the model refutes.                  *)

\* A sold item is in some current order; deleting unpaid orders makes their
\* items for sale again.
SoldItemHasOrder ==
    \A i \in SalesItems :
        state[i] = "sold" => \E o \in Orders : i \in contents[o]
=============================================================================
