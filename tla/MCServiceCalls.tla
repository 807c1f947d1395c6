--------------------------- MODULE MCServiceCalls ---------------------------
(***************************************************************************)
(* Two requests to one service function, of several kinds: one reads with  *)
(* GET, the other is any request.                                          *)
(***************************************************************************)
EXTENDS ServiceCalls

Flags == {"accounts", "cached", "development", "noTransaction", "noDistributedTransaction",
          "textVersions", "generatesHeaders"}

\* A service function with the access and the flags it has.
Service(access, flags) ==
    [f \in Flags \cup {"access"} |-> IF f = "access" THEN access ELSE f \in flags]

MCServices ==
    {Service({"everyUser"}, {"cached"}),                               \* getSalesItems
     Service({"userRole", "self"}, {"accounts"}),                      \* updateUserAccount
     Service({"self"}, {"generatesHeaders"}),                          \* placeOrder
     Service({"clusterInternal"}, {}),                                 \* deleteUnpaidOrders
     Service({"tests"}, {"accounts", "development", "noTransaction", "noDistributedTransaction",
                         "textVersions"})}
=============================================================================
