-------------------------- MODULE ScheduledCheckout --------------------------
(***************************************************************************)
(* Checkout with its two cleaning jobs under the scheduler: a job is       *)
(* started at its ticks as long as its row of __Backk__CronJobScheduling   *)
(* names a coming tick and a connection can be had.  A tick that no        *)
(* replica executed leaves the row at a time that has passed, and every    *)
(* attempt keeps a connection: in either case the job stops in all         *)
(* replicas, until one of them is started again and initialises the rows   *)
(* (scheduleCronJobsForExecution, tryInitializeCronJobSchedulingTable;     *)
(* CronScheduling has what happens at a tick).                             *)
(***************************************************************************)
EXTENDS Checkout

VARIABLE scheduled   \* the jobs that will be started again

allVars == <<vars, scheduled>>

Jobs == {"changeExpiredReservedSalesItemStatesToForSale", "deleteUnpaidOrders"}

ScheduledInit ==
    /\ Init
    /\ scheduled = Jobs

\* What the function of a job does first when it is called.
Start(job) ==
    \/ /\ job = "changeExpiredReservedSalesItemStatesToForSale"
       /\ ChangeExpiredReservedSalesItemStatesToForSale
    \/ /\ job = "deleteUnpaidOrders"
       /\ DeleteUnpaidOrdersSelect

JobStarts(job) ==
    /\ job \in scheduled
    /\ Start(job)
    /\ UNCHANGED scheduled

JobCommits ==
    /\ DeleteUnpaidOrdersCommit
    /\ UNCHANGED scheduled

\* Unless another replica has yet to try, the tick is one nobody executed.
JobFails ==
    /\ DeleteUnpaidOrdersAbort
    /\ scheduled' \in {scheduled, scheduled \ {"deleteUnpaidOrders"}}

\* A tick is missed by all replicas, or no connection is left for an attempt.
JobStops(job) ==
    /\ job \in scheduled
    /\ scheduled' = scheduled \ {job}
    /\ UNCHANGED vars

\* A starting replica makes the row of every job name its next tick.
RestartReplica ==
    /\ scheduled # Jobs
    /\ scheduled' = Jobs
    /\ UNCHANGED vars

ScheduledNext ==
    \/ /\ RequestsAndTime \/ \E I \in SUBSET SalesItems : DeleteOldUnsoldSalesItemsDaily(I)
       /\ UNCHANGED scheduled
    \/ \E job \in Jobs : JobStarts(job) \/ JobStops(job)
    \/ JobCommits
    \/ JobFails
    \/ RestartReplica

ScheduledSpec == ScheduledInit /\ [][ScheduledNext]_allVars

\* Time passes, and a job is started as long as it is scheduled.  Its executions
\* do not fail for ever while it stays scheduled: the tick at which no replica's
\* attempt succeeds is a JobStops.  Nobody has to restart a replica.
Fairness ==
    /\ \A o \in Orders : WF_allVars(OrderBecomesOverdue(o) /\ UNCHANGED scheduled)
    /\ \A i \in SalesItems : WF_allVars(ReservationBecomesStale(i) /\ UNCHANGED scheduled)
    /\ \A job \in Jobs : WF_allVars(JobStarts(job))
    /\ SF_allVars(JobCommits)

FairSpec == ScheduledSpec /\ Fairness

-----------------------------------------------------------------------------
(* Properties.                                                             *)

\* An unpaid order is paid, discarded or cleaned up, unless deleteUnpaidOrders
\* stops meanwhile: as long as the job is scheduled, neither the requests nor
\* its own rollbacks can keep an order from its end.
UnpaidOrdersEnd ==
    \A o \in Orders :
        status[o] = "unpaid"
            ~> status[o] # "unpaid" \/ "deleteUnpaidOrders" \notin scheduled

\* A reservation ends, in a sale or by expiry, unless the item keeps being
\* liked or followed or the expiry job stops.
ReservationsEnd ==
    \A i \in SalesItems :
        <>[][~TouchSalesItem(i)]_allVars
            => (state[i] = "reserved" ~>
                   \/ state[i] # "reserved"
                   \/ "changeExpiredReservedSalesItemStatesToForSale" \notin scheduled)
=============================================================================
