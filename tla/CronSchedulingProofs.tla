------------------------ MODULE CronSchedulingProofs ------------------------
(***************************************************************************)
(* Proofs about CronScheduling, for any number of replicas, ticks,         *)
(* retries, failures and restarts: a tick is executed twice only if a late *)
(* attempt is among those that execute it, and the row goes back only by a *)
(* late execution or when a row that such an execution has moved too far   *)
(* is initialised again.                                                   *)
(*                                                                         *)
(* Why it holds: an attempt that finds the time right at its own tick is   *)
(* the first, for the retries come too late for that; it has then called   *)
(* interval.next() once, so what it commits is the tick after its own,     *)
(* which is the one it executed.  A late execution may take the row back,  *)
(* but the ticks before the one it executes are over by then: nobody finds *)
(* the time of one of them right again.                                    *)
(***************************************************************************)
EXTENDS CronScheduling, TLAPS

\* A callback that has not been started has made no attempt, and one that may
\* make another has an interval left for it.
AttemptsLeft ==
    \A p \in Replicas, t \in Ticks :
        /\ callback[p][t] = "none" => attempts[p][t] = 0
        /\ callback[p][t] = "pending" => attempts[p][t] <= Retries

CallStates == {"none", "pending", "executing", "ended"}

\* Setting an entry of a table of callbacks leaves the other entries alone.
LEMMA SetCallback ==
    ASSUME TypeOK, NEW p \in Replicas, NEW t \in Ticks, NEW v \in CallStates,
           callback' = SetCall(callback, p, t, v)
    PROVE  /\ callback' \in [Replicas -> [Ticks -> CallStates]]
           /\ \A q \in Replicas, s \in Ticks :
                callback'[q][s] = IF q = p /\ s = t THEN v ELSE callback[q][s]
  BY DEF TypeOK, SetCall, CallStates

LEMMA SetAttempts ==
    ASSUME TypeOK, NEW p \in Replicas, NEW t \in Ticks, NEW n \in 0 .. Retries + 1,
           attempts' = SetCall(attempts, p, t, n)
    PROVE  /\ attempts' \in [Replicas -> [Ticks -> 0 .. Retries + 1]]
           /\ \A q \in Replicas, s \in Ticks :
                attempts'[q][s] = IF q = p /\ s = t THEN n ELSE attempts[q][s]
  BY DEF TypeOK, SetCall

LEMMA SetAdvances ==
    ASSUME TypeOK, NEW p \in Replicas, NEW t \in Ticks, NEW n \in Nat,
           advances' = SetCall(advances, p, t, n)
    PROVE  /\ advances' \in [Replicas -> [Ticks -> Nat]]
           /\ \A q \in Replicas, s \in Ticks :
                advances'[q][s] = IF q = p /\ s = t THEN n ELSE advances[q][s]
  BY DEF TypeOK, SetCall

\* The ticks that callbacks were started at have come.
StartedTicksHaveCome ==
    \A p \in Replicas, t \in Ticks : callback[p][t] # "none" => t <= tick

TypeInv == TypeOK /\ AttemptsLeft /\ StartedTicksHaveCome

\* No attempt is made beyond the last retry, however late the attempts are: the
\* types need no assumption about their times.
LEMMA TypeInvStep ==
    ASSUME TypeInv, [Next]_vars
    PROVE  TypeInv'
<1>1. TypeOK /\ AttemptsLeft /\ StartedTicksHaveCome
  BY DEF TypeInv
<1>2. CASE Approach \/ Fire \/ Depart
  <2>1. CASE Approach \/ Depart
    <3>1. /\ UNCHANGED <<tick, next, up, holder, callback, attempts, advances>>
          /\ UNCHANGED <<failures, executions, late, soundFrom>>
          /\ near' = 0 \/ (near' = tick + 1 /\ tick < LastTick)
      BY <2>1 DEF Approach, Depart, callVars, pastVars
    <3>2. TypeOK'
      BY <1>1, <3>1, BoundsAssumption DEF TypeOK
    <3> QED
      BY <1>1, <3>1, <3>2 DEF TypeInv, AttemptsLeft, StartedTicksHaveCome
  <2>2. CASE Fire
    <3>1. /\ tick \in Nat /\ tick' = tick + 1 /\ near = tick + 1 /\ near' = near
          /\ near \in Ticks
      BY <1>1, <2>2, BoundsAssumption DEF Fire, TypeOK, Ticks
    <3>2. /\ callback' \in [Replicas -> [Ticks -> CallStates]]
          /\ \A p \in Replicas, t \in Ticks :
                callback'[p][t] = IF p \in up /\ t = near THEN "pending" ELSE callback[p][t]
      BY <1>1, <2>2 DEF Fire, TypeOK, CallStates
    <3>3. TypeOK'
      BY <1>1, <2>2, <3>1, <3>2, BoundsAssumption
      DEF Fire, TypeOK, pastVars, CallStates, Ticks
    <3>4. \A p \in Replicas : callback[p][near] = "none" /\ attempts[p][near] = 0
      BY <1>1, <3>1 DEF StartedTicksHaveCome, AttemptsLeft
    <3>5. AttemptsLeft'
      BY <1>1, <2>2, <3>2, <3>4, BoundsAssumption DEF Fire, AttemptsLeft
    <3>6. StartedTicksHaveCome'
      BY <1>1, <3>1, <3>2 DEF StartedTicksHaveCome, Ticks
    <3> QED BY <3>3, <3>5, <3>6 DEF TypeInv
  <2> QED BY <1>2, <2>1, <2>2
<1>3. ASSUME NEW p \in Replicas, NEW t \in Ticks, NEW v \in CallStates \ {"none"},
             NEW n \in Nat, NEW m \in Nat,
             callback[p][t] # "none",
             v = "pending" => n <= Retries, n <= Retries + 1,
             callback' = SetCall(callback, p, t, v),
             attempts' = SetCall(attempts, p, t, n),
             advances' = SetCall(advances, p, t, m),
             UNCHANGED <<tick, near, up>>, next' \in Nat \ {0},
             holder' \in (Replicas \X Ticks) \cup {NoHolder},
             failures' \in 0 .. MaxFailures, executions' \in [Ticks -> Nat],
             late' \subseteq Nat, soundFrom' \in 1 .. Never
      PROVE  TypeInv'
  <2>1. /\ n \in 0 .. Retries + 1 /\ v \in CallStates
        /\ tick \in Nat /\ t \in Nat
    BY <1>1, <1>3, BoundsAssumption DEF TypeOK, Ticks
  <2>2. /\ callback' \in [Replicas -> [Ticks -> CallStates]]
        /\ \A q \in Replicas, s \in Ticks :
              callback'[q][s] = IF q = p /\ s = t THEN v ELSE callback[q][s]
    <3>1. callback' = SetCall(callback, p, t, v)
      BY <1>3
    <3> QED BY <1>1, <2>1, <3>1, SetCallback
  <2>3. /\ attempts' \in [Replicas -> [Ticks -> 0 .. Retries + 1]]
        /\ \A q \in Replicas, s \in Ticks :
              attempts'[q][s] = IF q = p /\ s = t THEN n ELSE attempts[q][s]
    BY <1>1, <1>3, <2>1, SetAttempts
  <2>4. advances' \in [Replicas -> [Ticks -> Nat]]
    BY <1>1, <1>3, SetAdvances
  <2>5. TypeOK'
    BY <1>1, <1>3, <2>2, <2>3, <2>4 DEF TypeOK, CallStates
  <2>6. AttemptsLeft'
    BY <1>1, <1>3, <2>2, <2>3 DEF AttemptsLeft
  <2>7. StartedTicksHaveCome'
    BY <1>1, <1>3, <2>2 DEF StartedTicksHaveCome
  <2> QED BY <2>5, <2>6, <2>7 DEF TypeInv
<1>4. ASSUME NEW p \in Replicas, NEW t \in Ticks,
             AttemptFails(p, t) \/ Attempt(p, t) \/ FinishExecution(p, t)
               \/ FailExecution(p, t)
      PROVE  TypeInv'
  <2>1. /\ attempts[p][t] \in 0 .. Retries + 1 /\ advances[p][t] \in Nat
        /\ callback[p][t] = "pending" => attempts[p][t] <= Retries
        /\ attempts = SetCall(attempts, p, t, attempts[p][t])
        /\ advances = SetCall(advances, p, t, advances[p][t])
        /\ Retries \in Nat /\ t \in Nat \ {0} /\ Never \in 1 .. Never
    BY <1>1, BoundsAssumption DEF TypeOK, AttemptsLeft, SetCall, Ticks, Never
  <2>2. CASE AttemptFails(p, t)
    <3>1. PICK made \in {0, 1} :
             advances' = SetCall(advances, p, t, advances[p][t] + made)
      BY <2>2 DEF AttemptFails
    <3>2. attempts[p][t] + 1 \in Nat /\ advances[p][t] + made \in Nat
      BY <2>1
    <3>3. /\ callback[p][t] = "pending" /\ attempts[p][t] + 1 <= Retries + 1
      BY <2>1, <2>2 DEF AttemptFails, CanAttempt
    <3>4. /\ failures' \in 0 .. MaxFailures /\ soundFrom' \in 1 .. Never
          /\ UNCHANGED <<next, holder, executions, late>>
          /\ UNCHANGED <<tick, near, up>>
          /\ attempts' = SetCall(attempts, p, t, attempts[p][t] + 1)
      BY <1>1, <2>1, <2>2, BoundsAssumption DEF AttemptFails, Disturb, timeVars, TypeOK
    <3>5. PICK v \in CallStates \ {"none"} :
             /\ v = "pending" => attempts[p][t] + 1 <= Retries
             /\ callback' = SetCall(callback, p, t, v)
      BY <2>2 DEF AttemptFails, RetryOrGiveUp, CallStates
    <3>6. /\ next' \in Nat \ {0} /\ holder' \in (Replicas \X Ticks) \cup {NoHolder}
          /\ executions' \in [Ticks -> Nat] /\ late' \subseteq Nat
          /\ callback[p][t] # "none"
      BY <1>1, <3>3, <3>4 DEF TypeOK
    <3> QED BY <1>3, <3>1, <3>2, <3>3, <3>4, <3>5, <3>6
  <2>3. CASE SkipExecution(p, t)
    BY <1>1, <1>3, <2>1, <2>3
    DEF SkipExecution, CanAttempt, timeVars, pastVars, TypeOK, CallStates
  <2>4. CASE StartExecution(p, t)
    <3>1. attempts[p][t] + 1 \in Nat /\ advances[p][t] + 1 \in Nat
      BY <2>1
    <3> QED
      BY <1>1, <1>3, <2>1, <2>4, <3>1
      DEF StartExecution, CanAttempt, timeVars, pastVars, TypeOK, CallStates
  <2>5. CASE FinishExecution(p, t)
    <3>1. executions' \in [Ticks -> Nat]
      <4>1. executions' = [executions EXCEPT ![next] = executions[next] + 1]
        BY <2>5 DEF FinishExecution
      <4>2. CASE next \in Ticks
        BY <1>1, <4>1, <4>2 DEF TypeOK
      <4>3. CASE next \notin Ticks
        BY <1>1, <4>1, <4>3 DEF TypeOK
      <4> QED BY <4>2, <4>3
    <3>2. next' \in Nat \ {0} /\ late' \subseteq Nat
      BY <1>1, <2>1, <2>5 DEF FinishExecution, Advanced, TypeOK
    <3>3. /\ callback[p][t] = "executing"
          /\ callback' = SetCall(callback, p, t, "ended")
          /\ UNCHANGED <<tick, near, up, attempts, advances, failures, soundFrom>>
      BY <2>5 DEF FinishExecution, timeVars
    <3>4. /\ holder' \in (Replicas \X Ticks) \cup {NoHolder}
          /\ failures' \in 0 .. MaxFailures /\ soundFrom' \in 1 .. Never
      BY <1>1, <2>5, <3>3 DEF FinishExecution, TypeOK
    <3>5. "ended" \in CallStates \ {"none"} /\ attempts[p][t] \in Nat
      BY <2>1, BoundsAssumption DEF CallStates
    <3> QED BY <1>3, <2>1, <3>1, <3>2, <3>3, <3>4, <3>5
  <2>6. CASE FailExecution(p, t)
    <3>1. /\ failures' \in 0 .. MaxFailures /\ soundFrom' \in 1 .. Never
          /\ holder' = NoHolder /\ UNCHANGED <<next, executions, late>>
          /\ UNCHANGED <<tick, near, up, attempts, advances>>
          /\ callback[p][t] = "executing"
      BY <1>1, <2>1, <2>6, BoundsAssumption DEF FailExecution, Disturb, timeVars, TypeOK
    <3>2. PICK v \in CallStates \ {"none"} :
             /\ v = "pending" => attempts[p][t] <= Retries
             /\ callback' = SetCall(callback, p, t, v)
      BY <2>6 DEF FailExecution, RetryOrGiveUp, CallStates
    <3>3. /\ next' \in Nat \ {0} /\ holder' \in (Replicas \X Ticks) \cup {NoHolder}
          /\ executions' \in [Ticks -> Nat] /\ late' \subseteq Nat
          /\ attempts[p][t] \in Nat /\ attempts[p][t] <= Retries + 1
          /\ callback[p][t] # "none"
      BY <1>1, <2>1, <3>1 DEF TypeOK
    <3>4. /\ attempts' = SetCall(attempts, p, t, attempts[p][t])
          /\ advances' = SetCall(advances, p, t, advances[p][t])
      BY <2>1, <3>1
    <3> QED BY <1>3, <2>1, <3>1, <3>2, <3>3, <3>4
  <2> QED BY <1>4, <2>2, <2>3, <2>4, <2>5, <2>6 DEF Attempt
<1>5. ASSUME NEW p \in Replicas, Crash(p) \/ Restart(p)
      PROVE  TypeInv'
  <2>1. CASE Crash(p)
    <3>1. /\ callback' \in [Replicas -> [Ticks -> CallStates]]
          /\ \A q \in Replicas, s \in Ticks : callback'[q][s] =
                IF q = p THEN IF callback[q][s] = "none" THEN "none" ELSE "ended"
                ELSE callback[q][s]
      BY <1>1, <2>1 DEF Crash, TypeOK, CallStates
    <3>2. TypeOK'
      BY <1>1, <2>1, <3>1, BoundsAssumption
      DEF Crash, Disturb, timeVars, TypeOK, CallStates, Never
    <3> QED
      BY <1>1, <2>1, <3>1, <3>2
      DEF TypeInv, AttemptsLeft, StartedTicksHaveCome, Crash, timeVars
  <2>2. CASE Restart(p)
    <3>1. UNCHANGED <<tick, callback, attempts>>
      BY <2>2 DEF Restart, timeVars, callVars
    <3>2. TypeOK'
      BY <1>1, <2>2, BoundsAssumption
      DEF Restart, NextTick, timeVars, callVars, TypeOK, Never
    <3> QED
      BY <1>1, <3>1, <3>2 DEF TypeInv, AttemptsLeft, StartedTicksHaveCome
  <2> QED BY <1>5, <2>1, <2>2
<1>6. CASE UNCHANGED vars
  BY <1>1, <1>6
  DEF vars, timeVars, callVars, pastVars, TypeInv, TypeOK, AttemptsLeft,
      StartedTicksHaveCome
<1> QED BY <1>2, <1>4, <1>5, <1>6 DEF Next

\* The variables keep their types in every behaviour, and no callback makes more
\* attempts than its first and one per retry, also when attempts come late.
THEOREM TypeCorrectness == Spec => []TypeOK
<1>1. Init => TypeInv
  BY BoundsAssumption
  DEF Init, TypeInv, TypeOK, AttemptsLeft, StartedTicksHaveCome, Ticks, Never
<1>2. TypeInv /\ [Next]_vars => TypeInv'
  BY TypeInvStep
<1>3. TypeInv => TypeOK
  BY DEF TypeInv
<1> QED BY <1>1, <1>2, <1>3, PTL DEF Spec

-----------------------------------------------------------------------------
(* The executions.                                                         *)

\* interval.next() is called in an attempt.
NoCallWithoutAttempt ==
    \A p \in Replicas, t \in Ticks : attempts[p][t] = 0 => advances[p][t] = 0

\* Who executes holds the row.  It names a tick that is not before the callback's
\* own and whose time has come, and that only late attempts have executed; the
\* callback's own tick is executed in its first attempt.
ExecutorHoldsRow ==
    \A p \in Replicas, t \in Ticks :
        callback[p][t] = "executing" =>
            /\ holder = <<p, t>>
            /\ next \in Ticks /\ t <= next
            /\ next <= tick \/ near = next
            /\ t = next => advances[p][t] = 1
            /\ executions[next] = 0 \/ next \in late

\* The time of tick s is over.
Over(s) == s < tick \/ (s = tick /\ near # tick)

\* A tick that no late attempt has executed has been executed at most once, and
\* then the row is behind it or its time is over.
ExecutedTicksArePast ==
    \A s \in Ticks :
        \/ executions[s] = 0
        \/ s \in late
        \/ executions[s] = 1 /\ s <= tick /\ (s < next \/ Over(s))

Inv == /\ TypeInv
       /\ NoCallWithoutAttempt
       /\ ExecutorHoldsRow
       /\ ExecutedTicksArePast

\* An attempt that finds the time right at its own tick is the first one.
LEMMA TimedAttemptIsFirst ==
    ASSUME Inv, NEW p \in Replicas, NEW t \in Ticks, CanAttempt(p, t), Timed
    PROVE  /\ next \in Ticks /\ t <= next
           /\ next <= tick \/ near = next
           /\ t = next => advances[p][t] = 0
           /\ executions[next] = 0 \/ next \in late
<1>1. /\ tick \in 0 .. LastTick /\ near \in {0, tick, tick + 1} \cap 0 .. LastTick
      /\ next = near /\ next \in Nat \ {0} /\ t <= tick /\ t \in Nat
      /\ attempts[p][t] \in Nat
  BY BoundsAssumption
  DEF Inv, TypeInv, TypeOK, StartedTicksHaveCome, Timed, CanAttempt, Ticks
<1>2. next \in Ticks /\ t <= next /\ near = next
  BY <1>1, BoundsAssumption DEF Ticks
<1>3. t = next => advances[p][t] = 0
  BY <1>1 DEF CanAttempt, Inv, NoCallWithoutAttempt
<1>4. ~(executions[next] = 1 /\ next <= tick /\ (next < next \/ Over(next)))
  BY <1>1, BoundsAssumption DEF Over
<1> QED
  BY <1>2, <1>3, <1>4 DEF Inv, ExecutedTicksArePast

\* Nobody else executes when p's callback of tick t does.
LEMMA OneExecutor ==
    ASSUME Inv, NEW p \in Replicas, NEW t \in Ticks, callback[p][t] = "executing"
    PROVE  \A q \in Replicas, s \in Ticks :
              callback[q][s] = "executing" => q = p /\ s = t
  BY DEF Inv, ExecutorHoldsRow

\* What is over stays over.
LEMMA TimeInv ==
    ASSUME Inv, Approach \/ Fire \/ Depart
    PROVE  NoCallWithoutAttempt' /\ ExecutorHoldsRow' /\ ExecutedTicksArePast'
<1>1. /\ UNCHANGED <<next, holder, attempts, advances, executions, late>>
      /\ \A q \in Replicas, s \in Ticks :
            callback'[q][s] = "executing" => callback[q][s] = "executing"
  BY DEF Approach, Fire, Depart, callVars, pastVars, Inv, TypeInv, TypeOK
<1>2. /\ tick \in Nat /\ near \in Nat /\ next \in Nat
      /\ near \in {0, tick, tick + 1}
  BY BoundsAssumption DEF Inv, TypeInv, TypeOK
<1>3. \/ tick' = tick /\ near = 0 /\ near' = tick + 1
      \/ tick' = tick + 1 /\ near = tick + 1 /\ near' = near
      \/ tick' = tick /\ near = tick /\ near # 0 /\ near' = 0
  BY DEF Approach, Fire, Depart
<1>4. NoCallWithoutAttempt'
  BY <1>1 DEF Inv, NoCallWithoutAttempt
<1>5. next <= tick \/ near = next => next <= tick' \/ near' = next
  BY <1>2, <1>3
<1>6. ExecutorHoldsRow'
  BY <1>1, <1>5 DEF Inv, ExecutorHoldsRow
<1>7. \A s \in Ticks : s <= tick => s <= tick' /\ (Over(s) => Over(s)')
  BY <1>2, <1>3 DEF Over, Ticks
<1>8. ExecutedTicksArePast'
  BY <1>1, <1>7 DEF Inv, ExecutedTicksArePast
<1> QED
  BY <1>4, <1>6, <1>8

LEMMA AttemptFailsInv ==
    ASSUME Inv, NEW p \in Replicas, NEW t \in Ticks, AttemptFails(p, t)
    PROVE  NoCallWithoutAttempt' /\ ExecutorHoldsRow' /\ ExecutedTicksArePast'
<1> DEFINE made == attempts[p][t] + 1
           after == IF made <= Retries THEN "pending" ELSE "ended"
<1>1. /\ TypeOK
      /\ callback[p][t] = "pending"
      /\ made \in 0 .. Retries + 1
      /\ made # 0
  BY BoundsAssumption DEF Inv, TypeInv, TypeOK, AttemptsLeft, AttemptFails, CanAttempt
<1>2. PICK called \in {0, 1} : advances' = SetCall(advances, p, t, advances[p][t] + called)
  BY DEF AttemptFails
<1>3. /\ callback' = SetCall(callback, p, t, after)
      /\ attempts' = SetCall(attempts, p, t, made)
      /\ UNCHANGED <<tick, near, next, holder, executions, late>>
  BY DEF AttemptFails, RetryOrGiveUp, timeVars
<1>4. \A q \in Replicas, s \in Ticks :
          callback'[q][s] = IF q = p /\ s = t THEN after ELSE callback[q][s]
  BY <1>1, <1>3, SetCallback DEF CallStates
<1>5. \A q \in Replicas, s \in Ticks :
          attempts'[q][s] = IF q = p /\ s = t THEN made ELSE attempts[q][s]
  BY <1>1, <1>3, SetAttempts
<1>6. advances[p][t] + called \in Nat
  BY <1>1 DEF TypeOK
<1>7. \A q \in Replicas, s \in Ticks : advances'[q][s] =
          IF q = p /\ s = t THEN advances[p][t] + called ELSE advances[q][s]
  BY <1>1, <1>2, <1>6, SetAdvances
<1>8. NoCallWithoutAttempt'
  BY <1>1, <1>5, <1>7 DEF Inv, NoCallWithoutAttempt
<1>9. ExecutorHoldsRow'
  BY <1>1, <1>3, <1>4, <1>7 DEF Inv, ExecutorHoldsRow
<1>10. ExecutedTicksArePast'
  BY <1>3 DEF Inv, ExecutedTicksArePast, Over
<1> QED
  BY <1>8, <1>9, <1>10

LEMMA SkipExecutionInv ==
    ASSUME Inv, NEW p \in Replicas, NEW t \in Ticks, SkipExecution(p, t)
    PROVE  NoCallWithoutAttempt' /\ ExecutorHoldsRow' /\ ExecutedTicksArePast'
<1>1. /\ TypeOK
      /\ callback' = SetCall(callback, p, t, "ended")
      /\ UNCHANGED <<tick, near, next, holder, attempts, advances, executions, late>>
  BY DEF SkipExecution, timeVars, pastVars, Inv, TypeInv
<1>2. \A q \in Replicas, s \in Ticks :
          callback'[q][s] = IF q = p /\ s = t THEN "ended" ELSE callback[q][s]
  BY <1>1, SetCallback DEF CallStates
<1>3. ExecutorHoldsRow'
  BY <1>1, <1>2 DEF Inv, ExecutorHoldsRow
<1> QED
  BY <1>1, <1>3 DEF Inv, NoCallWithoutAttempt, ExecutedTicksArePast, Over

LEMMA StartExecutionInv ==
    ASSUME Inv, NEW p \in Replicas, NEW t \in Ticks, StartExecution(p, t)
    PROVE  NoCallWithoutAttempt' /\ ExecutorHoldsRow' /\ ExecutedTicksArePast'
<1> DEFINE made == attempts[p][t] + 1
           called == advances[p][t] + 1
<1>1. /\ next \in Ticks /\ t <= next
      /\ next <= tick \/ near = next
      /\ t = next => called = 1
      /\ executions[next] = 0 \/ next \in late
  BY TimedAttemptIsFirst DEF StartExecution
<1>2. /\ TypeOK
      /\ holder = NoHolder
      /\ holder' = <<p, t>>
      /\ callback' = SetCall(callback, p, t, "executing")
      /\ attempts' = SetCall(attempts, p, t, made)
      /\ advances' = SetCall(advances, p, t, called)
      /\ UNCHANGED <<tick, near, next, executions, late>>
  BY DEF StartExecution, timeVars, pastVars, Inv, TypeInv
<1>3. made \in 0 .. Retries + 1 /\ made # 0 /\ called \in Nat
  BY BoundsAssumption
  DEF Inv, TypeInv, TypeOK, AttemptsLeft, StartExecution, CanAttempt
<1>4. \A q \in Replicas, s \in Ticks :
          callback'[q][s] = IF q = p /\ s = t THEN "executing" ELSE callback[q][s]
  BY <1>2, SetCallback DEF CallStates
<1>5. \A q \in Replicas, s \in Ticks :
          attempts'[q][s] = IF q = p /\ s = t THEN made ELSE attempts[q][s]
  BY <1>2, <1>3, SetAttempts
<1>6. \A q \in Replicas, s \in Ticks :
          advances'[q][s] = IF q = p /\ s = t THEN called ELSE advances[q][s]
  BY <1>2, <1>3, SetAdvances
<1>7. \A q \in Replicas, s \in Ticks : callback[q][s] # "executing"
  BY <1>2, HolderAssumption DEF Inv, ExecutorHoldsRow, Ticks
<1>8. NoCallWithoutAttempt'
  BY <1>3, <1>5, <1>6 DEF Inv, NoCallWithoutAttempt
<1>9. ExecutorHoldsRow'
  BY <1>1, <1>2, <1>4, <1>6, <1>7 DEF ExecutorHoldsRow
<1> QED
  BY <1>2, <1>8, <1>9 DEF Inv, ExecutedTicksArePast, Over

\* The tick executed becomes one that a late attempt has executed, or the row
\* goes on to the tick after it; the ticks before it are over if the row goes back.
LEMMA FinishExecutionInv ==
    ASSUME Inv, NEW p \in Replicas, NEW t \in Ticks, FinishExecution(p, t)
    PROVE  /\ NoCallWithoutAttempt' /\ ExecutorHoldsRow' /\ ExecutedTicksArePast'
           /\ t = next => next' = next + 1
<1>1. /\ callback[p][t] = "executing"
      /\ callback' = SetCall(callback, p, t, "ended")
      /\ executions' = [executions EXCEPT ![next] = @ + 1]
      /\ late' = IF t = next THEN late ELSE late \cup {next}
      /\ next' = t + advances[p][t]
      /\ UNCHANGED <<tick, near, attempts, advances>>
  BY DEF FinishExecution, Advanced, timeVars
<1>2. /\ next \in Ticks /\ t <= next
      /\ next <= tick \/ near = next
      /\ t = next => advances[p][t] = 1
      /\ executions[next] = 0 \/ next \in late
  BY <1>1 DEF Inv, ExecutorHoldsRow
<1>3. /\ TypeOK /\ t \in Nat /\ next \in Nat /\ tick \in Nat
      /\ near \in {0, tick, tick + 1} /\ Ticks \subseteq Nat
      /\ executions \in [Ticks -> Nat]
  BY BoundsAssumption DEF Inv, TypeInv, TypeOK, Ticks
<1>4. t <= tick
  <2>1. callback[p][t] # "none"
    BY <1>1
  <2> QED BY <2>1 DEF Inv, TypeInv, StartedTicksHaveCome
<1>5. t = next => next' = next + 1
  BY <1>1, <1>2, <1>3
<1>6. ExecutorHoldsRow'
  <2>1. \A q \in Replicas, s \in Ticks :
            callback'[q][s] = IF q = p /\ s = t THEN "ended" ELSE callback[q][s]
    BY <1>1, <1>3, SetCallback DEF CallStates
  <2> QED
    BY <1>1, <2>1, OneExecutor DEF ExecutorHoldsRow
<1>7. ASSUME NEW s \in Ticks
      PROVE  \/ executions'[s] = 0
             \/ s \in late'
             \/ executions'[s] = 1 /\ s <= tick' /\ (s < next' \/ Over(s)')
  <2>1. CASE s = next
    <3>1. executions'[s] = executions[next] + 1
      BY <1>1, <1>2, <1>3, <2>1
    <3>2. CASE t = next
      BY <1>1, <1>2, <1>3, <1>5, <1>4, <2>1, <3>1, <3>2
    <3> QED
      BY <1>1, <2>1, <3>2
  <2>2. CASE s # next
    <3>1. executions'[s] = executions[s] /\ (s \in late => s \in late')
      BY <1>1, <1>3, <2>2
    <3>2. s <= tick /\ s < next => s <= tick' /\ Over(s)'
      <4>1. s \in Nat /\ next \in Nat /\ tick \in Nat /\ tick' = tick /\ near' = near
        BY <1>1, <1>3
      <4>2. s <= tick /\ s < next => s < tick \/ (s = tick /\ near # tick)
        BY <1>2, <1>3, <4>1
      <4> QED BY <4>1, <4>2 DEF Over
    <3>3. Over(s) => Over(s)'
      BY <1>1 DEF Over
    <3> QED
      BY <1>1, <3>1, <3>2, <3>3 DEF Inv, ExecutedTicksArePast
  <2> QED
    BY <2>1, <2>2
<1>8. ExecutedTicksArePast'
  BY <1>7 DEF ExecutedTicksArePast
<1>9. NoCallWithoutAttempt'
  BY <1>1 DEF Inv, NoCallWithoutAttempt
<1> QED
  BY <1>5, <1>6, <1>8, <1>9

LEMMA FailExecutionInv ==
    ASSUME Inv, NEW p \in Replicas, NEW t \in Ticks, FailExecution(p, t)
    PROVE  NoCallWithoutAttempt' /\ ExecutorHoldsRow' /\ ExecutedTicksArePast'
<1> DEFINE after == IF attempts[p][t] <= Retries THEN "pending" ELSE "ended"
<1>1. /\ TypeOK
      /\ callback[p][t] = "executing"
      /\ callback' = SetCall(callback, p, t, after)
      /\ UNCHANGED <<tick, near, next, attempts, advances, executions, late>>
  BY DEF FailExecution, RetryOrGiveUp, timeVars, Inv, TypeInv
<1>2. \A q \in Replicas, s \in Ticks :
          callback'[q][s] = IF q = p /\ s = t THEN after ELSE callback[q][s]
  BY <1>1, SetCallback DEF CallStates
<1>3. ExecutorHoldsRow'
  BY <1>1, <1>2, OneExecutor DEF ExecutorHoldsRow
<1> QED
  BY <1>1, <1>3 DEF Inv, NoCallWithoutAttempt, ExecutedTicksArePast, Over

LEMMA CrashInv ==
    ASSUME Inv, NEW p \in Replicas, Crash(p)
    PROVE  NoCallWithoutAttempt' /\ ExecutorHoldsRow' /\ ExecutedTicksArePast'
<1>1. /\ UNCHANGED <<tick, near, next, attempts, advances, executions, late>>
      /\ holder' = IF \E t \in Ticks : holder = <<p, t>> THEN NoHolder ELSE holder
  BY DEF Crash, timeVars
<1>2. \A q \in Replicas, s \in Ticks : callback'[q][s] =
          IF q = p THEN IF callback[q][s] = "none" THEN "none" ELSE "ended"
          ELSE callback[q][s]
  BY DEF Crash, Inv, TypeInv, TypeOK
<1>3. ExecutorHoldsRow'
  BY <1>1, <1>2 DEF Inv, ExecutorHoldsRow
<1> QED
  BY <1>1, <1>3 DEF Inv, NoCallWithoutAttempt, ExecutedTicksArePast, Over

\* Every executed tick has come, so the tick after the last one is behind none.
LEMMA RestartInv ==
    ASSUME Inv, NEW p \in Replicas, Restart(p)
    PROVE  NoCallWithoutAttempt' /\ ExecutorHoldsRow' /\ ExecutedTicksArePast'
<1>1. /\ UNCHANGED <<tick, near, callback, attempts, advances, executions, late>>
      /\ holder = NoHolder
      /\ next' = tick + 1
  BY DEF Restart, NextTick, timeVars, callVars
<1>2. \A q \in Replicas, s \in Ticks : callback[q][s] # "executing"
  BY <1>1, HolderAssumption DEF Inv, ExecutorHoldsRow, Ticks
<1>3. tick \in Nat /\ Ticks \subseteq Nat
  BY BoundsAssumption DEF Inv, TypeInv, TypeOK, Ticks
<1>4. ExecutedTicksArePast'
  <2>1. \A s \in Ticks : s <= tick => s < next'
    BY <1>1, <1>3
  <2> QED
    BY <1>1, <2>1 DEF Inv, ExecutedTicksArePast, Over
<1> QED
  BY <1>1, <1>2, <1>4 DEF Inv, NoCallWithoutAttempt, ExecutorHoldsRow

-----------------------------------------------------------------------------
LEMMA Step ==
    ASSUME Inv, [Next]_vars
    PROVE  Inv'
<1>1. TypeInv'
  BY TypeInvStep DEF Inv
<1>2. CASE Approach \/ Fire \/ Depart
  BY <1>1, <1>2, TimeInv DEF Inv
<1>3. ASSUME NEW p \in Replicas, NEW t \in Ticks,
             AttemptFails(p, t) \/ Attempt(p, t) \/ FinishExecution(p, t)
               \/ FailExecution(p, t)
      PROVE  Inv'
  BY <1>1, <1>3, AttemptFailsInv, SkipExecutionInv, StartExecutionInv,
     FinishExecutionInv, FailExecutionInv DEF Attempt, Inv
<1>4. ASSUME NEW p \in Replicas, Crash(p) \/ Restart(p)
      PROVE  Inv'
  BY <1>1, <1>4, CrashInv, RestartInv DEF Inv
<1>5. CASE UNCHANGED vars
  BY <1>1, <1>5
  DEF vars, timeVars, callVars, pastVars, Inv, NoCallWithoutAttempt,
      ExecutorHoldsRow, ExecutedTicksArePast, Over
<1> QED
  BY <1>2, <1>3, <1>4, <1>5 DEF Next

\* The invariant holds in every behaviour, whenever attempts come.
THEOREM Invariance == Spec => []Inv
<1>1. Init => Inv
  BY BoundsAssumption
  DEF Init, Inv, TypeInv, TypeOK, AttemptsLeft, StartedTicksHaveCome,
      NoCallWithoutAttempt, ExecutorHoldsRow, ExecutedTicksArePast, Ticks, Never
<1>2. Inv /\ [Next]_vars => Inv'
  BY Step
<1> QED
  BY <1>1, <1>2, PTL DEF Spec

\* The job is executed at most once for a tick, unless one of the executions is
\* a late attempt's, however many replicas try and whatever fails or restarts.
THEOREM ExecutedAtMostOnce == Spec => []AtMostOncePerTick
<1>1. Inv => AtMostOncePerTick
  BY DEF Inv, TypeInv, TypeOK, ExecutedTicksArePast, AtMostOncePerTick
<1>2. Spec => []Inv
  BY Invariance
<1> QED
  BY <1>1, <1>2, PTL

\* The row of the job goes back to an earlier tick only by a late execution, or
\* when such an execution has moved it beyond the next tick.
THEOREM RowGoesBackOnlyByLateAttempts == Spec => ScheduleNeverGoesBack
<1>1. ASSUME Inv, [Next]_vars, ~LateExecution, next <= tick + 1
      PROVE  next' >= next
  <2>1. next \in Nat /\ tick \in Nat
    BY <1>1, BoundsAssumption DEF Inv, TypeInv, TypeOK
  <2>2. ASSUME NEW p \in Replicas, NEW t \in Ticks, FinishExecution(p, t)
        PROVE  next' >= next
    <3>1. t = next
      BY <1>1, <2>2 DEF FinishExecution, LateExecution
    <3> QED
      BY <1>1, <2>1, <2>2, <3>1, FinishExecutionInv
  <2>3. ASSUME NEW p \in Replicas, Restart(p)
        PROVE  next' >= next
    BY <1>1, <2>1, <2>3 DEF Restart, NextTick
  <2>4. CASE next' = next
    BY <2>1, <2>4
  <2> QED
    BY <1>1, <2>2, <2>3, <2>4
    DEF Next, vars, Approach, Fire, Depart, AttemptFails, Attempt, SkipExecution,
        StartExecution, FailExecution, Crash
<1>2. Inv /\ [Next]_vars => [~LateExecution /\ next <= tick + 1 => next' >= next]_vars
  BY <1>1
<1>3. Spec => []Inv
  BY Invariance
<1> QED
  BY <1>2, <1>3, PTL DEF Spec, ScheduleNeverGoesBack
=============================================================================
