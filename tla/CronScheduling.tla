--------------------------- MODULE CronScheduling ---------------------------
(***************************************************************************)
(* One cron job of a service that runs in several replicas.  Every replica *)
(* starts a callback at every tick of the job's schedule, and the row of   *)
(* __Backk__CronJobScheduling decides which of them executes the job:      *)
(* whoever locks the row within half a second of the tick it names         *)
(* (scheduleCronJobsForExecution, tryInitializeCronJobSchedulingTable).    *)
(*                                                                         *)
(* Ticks are numbered; time is the last tick that has passed and the tick, *)
(* if any, that is less than half a second away.  Retries wait for at      *)
(* least a second and for up to minutes, so they, and first attempts that  *)
(* wait for a connection, may come at the time of a later tick: such an    *)
(* attempt is late.  An attempt is two steps: the transaction's locked read *)
(* of the row with its pre-hook, and the end of the transaction with the   *)
(* job in it; the lock is held between them.                               *)
(***************************************************************************)
EXTENDS Naturals

CONSTANTS Replicas,       \* instances of the service
          NoHolder,       \* nobody has locked the row
          Retries,        \* number of retry intervals of the job
          LastTick,       \* bound: ticks that pass
          MaxFailures,    \* bound: failing attempts and crashes
          Punctual        \* attempts and executions keep to their tick's time

ASSUME HolderAssumption == NoHolder \notin Replicas \X (1 .. LastTick)
ASSUME BoundsAssumption == Retries \in Nat /\ LastTick \in Nat /\ MaxFailures \in Nat
ASSUME TimingAssumption == Punctual \in BOOLEAN

VARIABLES
    tick,        \* the last tick that has passed
    near,        \* the tick that is within half a second, or 0
    next,        \* nextScheduledTimestamp of the committed row
    up,          \* replicas that run
    holder,      \* <<p, t>>: p's callback of tick t has locked the row
    callback,    \* callback[p][t]: how far p's callback of tick t is
    attempts,    \* attempts[p][t]: attempts it has made
    advances,    \* advances[p][t]: calls of interval.next() it has made
    failures,    \* attempts that failed and crashes so far
    executions,  \* executions[t]: committed executions for tick t
    late,        \* ticks that a late attempt has executed, for the properties
    soundFrom    \* first tick after the last disturbance, for the properties

timeVars == <<tick, near>>
callVars == <<callback, attempts, advances>>
pastVars == <<executions, late, soundFrom>>
vars == <<timeVars, next, up, holder, callVars, failures, pastVars>>

Ticks == 1 .. LastTick
Never == LastTick + 2   \* later than any tick

TypeOK ==
    /\ tick \in 0 .. LastTick
    /\ near \in {0, tick, tick + 1} \cap 0 .. LastTick
    /\ next \in Nat \ {0}
    /\ up \subseteq Replicas
    /\ holder \in (Replicas \X Ticks) \cup {NoHolder}
    /\ callback \in
          [Replicas -> [Ticks -> {"none", "pending", "executing", "ended"}]]
    /\ attempts \in [Replicas -> [Ticks -> 0 .. Retries + 1]]
    /\ advances \in [Replicas -> [Ticks -> Nat]]
    /\ failures \in 0 .. MaxFailures
    /\ executions \in [Ticks -> Nat]
    /\ late \subseteq Nat
    /\ soundFrom \in 1 .. Never

\* All replicas run and the first of them has initialised the row.
Init ==
    /\ tick = 0
    /\ near = 0
    /\ next = 1
    /\ up = Replicas
    /\ holder = NoHolder
    /\ callback = [p \in Replicas |-> [t \in Ticks |-> "none"]]
    /\ attempts = [p \in Replicas |-> [t \in Ticks |-> 0]]
    /\ advances = [p \in Replicas |-> [t \in Ticks |-> 0]]
    /\ failures = 0
    /\ executions = [t \in Ticks |-> 0]
    /\ late = {}
    /\ soundFrom = 1

-----------------------------------------------------------------------------
(* Time.                                                                   *)

\* A punctual execution is over before the next tick.
Approach ==
    /\ near = 0
    /\ tick < LastTick
    /\ Punctual => holder = NoHolder
    /\ near' = tick + 1
    /\ UNCHANGED <<tick, next, up, holder, callVars, failures, pastVars>>

\* Every running replica starts its callback, whatever the last one is doing.
Fire ==
    /\ near = tick + 1
    /\ tick' = near
    /\ callback' = [p \in Replicas |-> [t \in Ticks |->
                       IF p \in up /\ t = near THEN "pending" ELSE callback[p][t]]]
    /\ UNCHANGED <<near, next, up, holder, attempts, advances, failures, pastVars>>

\* A punctual first attempt has not waited for anything but the lock.
Depart ==
    /\ near = tick
    /\ near # 0
    /\ Punctual => \/ holder # NoHolder
                   \/ \A p \in Replicas :
                         ~(callback[p][tick] = "pending" /\ attempts[p][tick] = 0)
    /\ near' = 0
    /\ UNCHANGED <<tick, next, up, holder, callVars, failures, pastVars>>

-----------------------------------------------------------------------------
(* Attempts of the callback that replica p started at tick t.              *)

\* The first is made at once, if there is a connection; a retry, a second later
\* or more, misses the time of tick t, but not that of every later tick.
CanAttempt(p, t) ==
    /\ callback[p][t] = "pending"
    /\ attempts[p][t] > 0 => near # t
    /\ Punctual => near \in {0, t}

TimedAnyhow == next \in Ticks
\* The entity pre-hook of the row: now is within half a second of next.
Timed == near = next

SetCall(f, p, t, v) == [f EXCEPT ![p][t] = v]

\* The result of an attempt was an error: retry, if there is an interval left.
RetryOrGiveUp(p, t, made) ==
    callback' = SetCall(callback, p, t, IF made <= Retries THEN "pending" ELSE "ended")

Disturb ==
    /\ failures < MaxFailures
    /\ failures' = failures + 1
    /\ soundFrom' = Never

\* No connection, no transaction, no lock in time, or no commit.  The call of
\* interval.next() may have been made or not.
AttemptFails(p, t) ==
    /\ CanAttempt(p, t)
    /\ Disturb
    /\ attempts' = SetCall(attempts, p, t, attempts[p][t] + 1)
    /\ \E made \in {0, 1} : advances' = SetCall(advances, p, t, advances[p][t] + made)
    /\ RetryOrGiveUp(p, t, attempts[p][t] + 1)
    /\ UNCHANGED <<timeVars, next, up, holder, executions, late>>

\* The pre-hook's failure is a BAD_REQUEST, which counts as a success.
SkipExecution(p, t) ==
    /\ CanAttempt(p, t)
    /\ holder = NoHolder
    /\ ~Timed
    /\ callback' = SetCall(callback, p, t, "ended")
    /\ UNCHANGED <<timeVars, next, up, holder, attempts, advances, failures, pastVars>>

StartExecution(p, t) ==
    /\ CanAttempt(p, t)
    /\ holder = NoHolder
    /\ Timed
    /\ holder' = <<p, t>>
    /\ callback' = SetCall(callback, p, t, "executing")
    /\ attempts' = SetCall(attempts, p, t, attempts[p][t] + 1)
    /\ advances' = SetCall(advances, p, t, advances[p][t] + 1)
    /\ UNCHANGED <<timeVars, next, up, failures, pastVars>>

AdvancedOncePerAttempt(p, t) == t + attempts[p][t] + 1
\* What interval.next() last returned: it was parsed at tick t and goes on
\* by one tick each time it is called.
Advanced(p, t) == t + advances[p][t]

FinishExecution(p, t) ==
    /\ callback[p][t] = "executing"
    /\ executions' = [executions EXCEPT ![next] = @ + 1]
    /\ late' = IF t = next THEN late ELSE late \cup {next}
    /\ next' = Advanced(p, t)
    /\ holder' = NoHolder
    /\ callback' = SetCall(callback, p, t, "ended")
    /\ UNCHANGED <<timeVars, up, attempts, advances, failures, soundFrom>>

\* The job returned an error: the row is rolled back with it.
FailExecution(p, t) ==
    /\ callback[p][t] = "executing"
    /\ Disturb
    /\ holder' = NoHolder
    /\ RetryOrGiveUp(p, t, attempts[p][t])
    /\ UNCHANGED <<timeVars, next, up, attempts, advances, executions, late>>

-----------------------------------------------------------------------------
(* Replicas.                                                               *)

\* Its callbacks are gone and its transaction is rolled back.
Crash(p) ==
    /\ p \in up
    /\ Disturb
    /\ up' = up \ {p}
    /\ holder' = IF \E t \in Ticks : holder = <<p, t>> THEN NoHolder ELSE holder
    /\ callback' = [callback EXCEPT ![p] =
          [t \in Ticks |-> IF callback[p][t] = "none" THEN "none" ELSE "ended"]]
    /\ UNCHANGED <<timeVars, next, attempts, advances, executions, late>>

ThisTick == tick
NextTick == tick + 1

\* tryInitializeCronJobSchedulingTable locks the row, whatever is in it, and
\* makes it name the next tick.
Restart(p) ==
    /\ p \notin up
    /\ holder = NoHolder
    /\ up' = up \cup {p}
    /\ next' = NextTick
    /\ soundFrom' = tick + 1
    /\ UNCHANGED <<timeVars, holder, callVars, failures, executions, late>>

-----------------------------------------------------------------------------
Attempt(p, t) == SkipExecution(p, t) \/ StartExecution(p, t)

Next ==
    \/ Approach
    \/ Fire
    \/ Depart
    \/ \E p \in Replicas, t \in Ticks :
          \/ AttemptFails(p, t)
          \/ Attempt(p, t)
          \/ FinishExecution(p, t)
          \/ FailExecution(p, t)
    \/ \E p \in Replicas : Crash(p) \/ Restart(p)

Spec == Init /\ [][Next]_vars

\* Time passes, timers go off and transactions end.  Nobody has to restart a
\* replica, and nothing has to fail.
FairSpec ==
    /\ Spec
    /\ WF_vars(Approach) /\ WF_vars(Fire) /\ WF_vars(Depart)
    /\ \A p \in Replicas, t \in Ticks :
          WF_vars(Attempt(p, t)) /\ WF_vars(FinishExecution(p, t))

-----------------------------------------------------------------------------
(* Properties.                                                             *)

\* However many replicas try, whatever fails or restarts meanwhile and however
\* far late attempts have moved the row, the job is executed at most once for a
\* tick, unless a late attempt is among those that have executed that tick: what
\* it commits goes on from its own tick, not from the one it has executed.
AtMostOncePerTick == \A t \in Ticks : executions[t] <= 1 \/ t \in late

\* The job is being executed by an attempt that started at another tick.
LateExecution ==
    \E p \in Replicas, t \in Ticks : callback[p][t] = "executing" /\ t # next

\* The tick the row names never goes back: neither an execution nor a restarted
\* replica undoes what another replica has committed, except a late execution
\* and the initialisation of a row that such an execution has moved too far.
ScheduleNeverGoesBack ==
    [][~LateExecution /\ next <= tick + 1 => next' >= next]_vars

\* The callbacks of the replicas do not depend on one another: if nothing has
\* failed since the row was last initialised, every tick is executed.
UndisturbedTicksExecuted ==
    \A t \in Ticks :
        tick = t /\ soundFrom <= t ~> executions[t] = 1 \/ soundFrom > t

=============================================================================
