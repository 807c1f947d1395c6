------------------------- MODULE ServiceCallsProofs -------------------------
(***************************************************************************)
(* Proofs about ServiceCalls, for any number of requests and any service   *)
(* functions: what was committed is in the audit log, and the response     *)
(* cache keeps no entry for ever while nothing fails.                      *)
(***************************************************************************)
EXTENDS ServiceCalls, TLAPS

\* Stages before the service function runs, and before the catch block.
Early == {"none", "received", "handedOn", "authorize", "validate", "lookUp", "reserve"}
Underway == Early \cup {"run", "fetch", "check", "ttl", "set", "expire", "answer"}

\* The counters of a function count its steps, which are bounded.
CountersOK ==
    \A c \in Calls :
        /\ Steps(c) <= MaxSteps
        /\ call[c].postHookCalls <= call[c].localTransactions
        /\ call[c].stage \in Early => call[c].localTransactions = 0

\* An error that comes after a commit is an HttpException, unless the headers of the
\* answer fail, and what the caller was told agrees with it.
ErrorsOK ==
    \A c \in Calls :
        /\ call[c].stage \in Underway => call[c].error = "none" /\ call[c].answer = "none"
        /\ call[c].localTransactions > 0 /\ ~HeadersFail(c)
              => call[c].error \in {"none", "HttpException"}
        /\ call[c].error = "none" => call[c].answer # "error" /\ ~call[c].thrown
        /\ call[c].error # "none" => call[c].answer # "success"

\* The entry of the audit log is written once, from the stored error.
AuditOK ==
    \A c \in Calls :
        /\ call[c].audit # "none" => call[c].stage = "done"
        /\ call[c].audit = "success" => call[c].error = "none"
        /\ call[c].audit = "failure" => call[c].error # "none"
        /\ At(c, "done") /\ IsAudited(c) /\ call[c].localTransactions > 0 /\ ~HeadersFail(c)
              => call[c].audit # "none"

\* While nothing fails one request at most has missed and may store, and until it
\* does there is no entry; so it finds no expiry and sets one.
CacheOK ==
    /\ \A c \in Calls : call[c].stage \in {"ttl", "set", "expire"} => UsesCache(c)
    /\ undisturbed =>
          /\ \A c, d \in Calls : Storing(c) /\ Storing(d) => c = d
          /\ \A c \in Calls : Storing(c) /\ ~At(c, "expire") => cache = NoEntry
          /\ \A c \in Calls : At(c, "set") => call[c].withoutExpiry
          /\ UndisturbedEntriesExpire

Inv == TypeOK /\ CountersOK /\ ErrorsOK /\ AuditOK /\ CacheOK

-----------------------------------------------------------------------------
\* Nothing has happened at first.
LEMMA InitInv == Init => Inv
<1> SUFFICES ASSUME Init PROVE Inv
  OBVIOUS
<1> USE DEF Init, NoEntry, NotReceived, Request, At
<1>1. TypeOK
  BY NoVersionAssumption, MaxStepsAssumption
  DEF TypeOK, Progress, Stages, Versions, Callers, Errors
<1>2. CountersOK
  BY MaxStepsAssumption DEF CountersOK, Steps
<1>3. ErrorsOK
  BY DEF ErrorsOK
<1>4. AuditOK
  BY DEF AuditOK
<1>5. CacheOK
  BY DEF CacheOK, Storing, UsesCache, UndisturbedEntriesExpire
<1> QED BY <1>1, <1>2, <1>3, <1>4, <1>5 DEF Inv

\* The type of what is asked for.
RequestTypes ==
    [name : Names \cup {"none"}, get : BOOLEAN, caller : Callers,
     user : {"userName", "userId", "nobody"}, etag : Versions, replies : BOOLEAN]

\* Everything that can be asked for is a request.
LEMMA RequestsTypes == \A c \in Calls : RequestsOf(c) \subseteq RequestTypes
<1> DEFINE Users == {"userName", "userId", "nobody"}
<1>1. "serviceFunction" \in Names
  BY DEF Names
<1>2. ASSUME NEW n \in Names, NEW get \in BOOLEAN, NEW x \in Callers, NEW u \in Users,
             NEW e \in Versions, NEW b \in BOOLEAN
      PROVE  Request(n, get, x, u, e, b) \in RequestTypes
  BY DEF Request, RequestTypes
<1>3. /\ "inside" \in Callers /\ "owner" \in Callers
      /\ "nobody" \in Users /\ "userName" \in Users
      /\ NoVersion \in Versions /\ 0 \in Versions
  BY DEF Callers, Versions
<1>4. OddRequests \subseteq RequestTypes
  <2> SUFFICES ASSUME NEW n \in Names, NEW b \in BOOLEAN
               PROVE  Request(n, n \in {"notAllowedForGet", "unparsableArgument"}, "inside",
                              "nobody", NoVersion, b) \in RequestTypes
    BY DEF OddRequests
  <2> DEFINE get == n \in {"notAllowedForGet", "unparsableArgument"}
  <2>1. get \in BOOLEAN
    OBVIOUS
  <2> HIDE DEF get
  <2>2. Request(n, get, "inside", "nobody", NoVersion, b) \in RequestTypes
    BY <1>2, <1>3, <2>1
  <2> QED BY <2>2 DEF get
<1>5. PlainRequests \subseteq RequestTypes
  BY <1>1, <1>2, <1>3 DEF PlainRequests
<1>6. FunctionRequests \subseteq RequestTypes
  <2> DEFINE Answered == {Request("serviceFunction", get, x, u, NoVersion, TRUE) :
                             get \in BOOLEAN, x \in Callers, u \in Users}
             job == Request("serviceFunction", FALSE, "inside", "nobody", NoVersion, FALSE)
  <2>1. FunctionRequests = Answered \cup {job}
    BY DEF FunctionRequests
  <2>2. ASSUME NEW r \in Answered
        PROVE  r \in RequestTypes
    <3> HIDE DEF Users
    <3>1. \E get \in BOOLEAN, x \in Callers, u \in Users :
             r = Request("serviceFunction", get, x, u, NoVersion, TRUE)
      BY <2>2 DEF Request
    <3> QED BY <1>1, <1>3, <3>1 DEF Request, RequestTypes, Users
  <2>3. job \in RequestTypes
    BY <1>1, <1>2, <1>3
  <2> HIDE DEF Answered, job
  <2> QED BY <2>1, <2>2, <2>3
<1> QED BY <1>4, <1>5, <1>6 DEF RequestsOf

\* The progress of a request is still one after a well-typed field has changed.
LEMMA ProgressChanges ==
    ASSUME NEW p \in Progress
    PROVE  /\ \A s \in Stages : [p EXCEPT !.stage = s] \in Progress
           /\ \A r \in RequestTypes : [p EXCEPT !.request = r] \in Progress
           /\ \A b \in BOOLEAN : [p EXCEPT !.userName = b] \in Progress
           /\ \A v \in Versions : [p EXCEPT !.response = v] \in Progress
           /\ \A b \in BOOLEAN : [p EXCEPT !.withoutExpiry = b] \in Progress
           /\ \A e \in Errors : [p EXCEPT !.error = e] \in Progress
           /\ \A a \in {"none", "success", "error"} : [p EXCEPT !.answer = a] \in Progress
           /\ \A b \in BOOLEAN : [p EXCEPT !.thrown = b] \in Progress
           /\ \A a \in {"none", "success", "failure"} : [p EXCEPT !.audit = a] \in Progress
<1>1. \A s \in Stages : [p EXCEPT !.stage = s] \in Progress
  BY DEF Progress
<1>2. \A b \in BOOLEAN : [p EXCEPT !.userName = b] \in Progress
  BY DEF Progress
<1>3. \A v \in Versions : [p EXCEPT !.response = v] \in Progress
  BY DEF Progress
<1>4. \A b \in BOOLEAN : [p EXCEPT !.withoutExpiry = b] \in Progress
  BY DEF Progress
<1>5. \A e \in Errors : [p EXCEPT !.error = e] \in Progress
  BY DEF Progress
<1>6. \A a \in {"none", "success", "error"} : [p EXCEPT !.answer = a] \in Progress
  BY DEF Progress
<1>7. \A b \in BOOLEAN : [p EXCEPT !.thrown = b] \in Progress
  BY DEF Progress
<1>8. \A a \in {"none", "success", "failure"} : [p EXCEPT !.audit = a] \in Progress
  BY DEF Progress
<1>9. \A r \in RequestTypes : [p EXCEPT !.request = r] \in Progress
  BY DEF Progress, RequestTypes
<1> QED BY <1>1, <1>2, <1>3, <1>4, <1>5, <1>6, <1>7, <1>8, <1>9

\* A request that changes stays one among requests.
LEMMA OneCallChanges ==
    ASSUME call \in [Calls -> Progress], NEW c \in Calls, NEW p \in Progress,
           call' = [call EXCEPT ![c] = p]
    PROVE  call' \in [Calls -> Progress]
  OBVIOUS

\* The three ways in which several handlers change a request keep its type: it goes
\* on to a stage of which there is one.
LEMMA GoToTypes ==
    ASSUME call \in [Calls -> Progress], NEW c \in Calls, NEW s \in Stages, GoTo(c, s)
    PROVE  call' \in [Calls -> Progress]
<1>1. call' = [call EXCEPT ![c] = [call[c] EXCEPT !.stage = s]]
  BY DEF GoTo
<1> QED BY <1>1, ProgressChanges, OneCallChanges

\* The catch block.
LEMMA FailTypes ==
    ASSUME call \in [Calls -> Progress], NEW c \in Calls, NEW e \in Errors, Fail(c, e)
    PROVE  call' \in [Calls -> Progress]
<1>1. PICK a \in {"none", "success", "error"}, t \in BOOLEAN :
         call' = [call EXCEPT ![c].stage = "finally", ![c].error = e, ![c].answer = a,
                              ![c].thrown = t]
  BY Zenon DEF Fail
<1> DEFINE p == [call[c] EXCEPT !.stage = "finally", !.error = e, !.answer = a, !.thrown = t]
<1>2. p \in Progress
  BY ProgressChanges DEF Stages
<1>3. call' = [call EXCEPT ![c] = p]
  BY <1>1
<1> HIDE DEF p
<1> QED BY <1>2, <1>3, OneCallChanges

\* The response, for its answer.
LEMMA PrepareTypes ==
    ASSUME call \in [Calls -> Progress], NEW c \in Calls, Prepare(c)
    PROVE  call' \in [Calls -> Progress]
  BY GoToTypes, FailTypes DEF Prepare, Stages, Errors

\* What a request keeps when it goes on to a stage.
LEMMA GoToFacts ==
    ASSUME call \in [Calls -> Progress], NEW c \in Calls, NEW s, GoTo(c, s)
    PROVE  /\ call'[c] = [call[c] EXCEPT !.stage = s]
           /\ \A d \in Calls \ {c} : call'[d] = call[d]
  BY DEF GoTo

\* What it keeps when it fails.
LEMMA FailFacts ==
    ASSUME call \in [Calls -> Progress], NEW c \in Calls, NEW e, Fail(c, e)
    PROVE  /\ \E a \in {"none", "error"}, t \in BOOLEAN :
                 call'[c] = [call[c] EXCEPT !.stage = "finally", !.error = e, !.answer = a,
                                            !.thrown = t]
           /\ \A d \in Calls \ {c} : call'[d] = call[d]
  BY DEF Fail

\* What it keeps when its response is prepared.
LEMMA PrepareFacts ==
    ASSUME call \in [Calls -> Progress], NEW c \in Calls, Prepare(c)
    PROVE  /\ call'[c].stage \in {"answer", "finally"}
           /\ call'[c].request = call[c].request
           /\ \A d \in Calls \ {c} : call'[d] = call[d]
<1>1. CASE GoTo(c, "answer")
  <2>1. /\ call'[c] = [call[c] EXCEPT !.stage = "answer"] /\ call[c] \in Progress
        /\ \A d \in Calls \ {c} : call'[d] = call[d]
    BY <1>1, GoToFacts
  <2> QED BY <2>1 DEF Progress
<1>2. CASE Fail(c, "Error")
  <2>1. PICK a \in {"none", "error"}, t \in BOOLEAN :
           call'[c] = [call[c] EXCEPT !.stage = "finally", !.error = "Error", !.answer = a,
                                      !.thrown = t]
    BY <1>2, FailFacts
  <2>2. \A d \in Calls \ {c} : call'[d] = call[d]
    BY <1>2, FailFacts
  <2> QED BY <2>1, <2>2 DEF Progress
<1> QED BY <1>1, <1>2 DEF Prepare

\* What a local transaction and a remote call change.
LEMMA StepFacts ==
    ASSUME call \in [Calls -> Progress], version \in Nat, NEW c \in Calls
    PROVE  /\ ExecuteLocalTransaction(c) =>
                 \E n \in {0, 1}, v \in Nat, b \in BOOLEAN :
                    /\ call'[c] = [call[c] EXCEPT
                          !.response = v,
                          !.localTransactions = call[c].localTransactions + 1,
                          !.postHookCalls = call[c].postHookCalls + n,
                          !.operationAfterRemoteCall = b]
                    /\ call' = [call EXCEPT ![c] = call'[c]]
           /\ CallRemoteService(c) =>
                 /\ call'[c] = [call[c] EXCEPT !.remoteCalls = call[c].remoteCalls + 1]
                 /\ call' = [call EXCEPT ![c] = call'[c]]
<1>1. ASSUME ExecuteLocalTransaction(c)
      PROVE  \E n \in {0, 1}, v \in Nat, b \in BOOLEAN :
                /\ call'[c] = [call[c] EXCEPT
                      !.response = v,
                      !.localTransactions = call[c].localTransactions + 1,
                      !.postHookCalls = call[c].postHookCalls + n,
                      !.operationAfterRemoteCall = b]
                /\ call' = [call EXCEPT ![c] = call'[c]]
  <2>1. PICK n \in 0 .. 1 :
           call' = [call EXCEPT ![c].response = version',
                                ![c].localTransactions = @ + 1,
                                ![c].postHookCalls = @ + n,
                                ![c].operationAfterRemoteCall = @ \/ call[c].remoteCalls > 0]
    BY <1>1 DEF ExecuteLocalTransaction
  <2>2. version' \in Nat /\ n \in {0, 1}
    BY <1>1 DEF ExecuteLocalTransaction
  <2> DEFINE b == call[c].operationAfterRemoteCall \/ call[c].remoteCalls > 0
             p == [call[c] EXCEPT !.response = version',
                                  !.localTransactions = call[c].localTransactions + 1,
                                  !.postHookCalls = call[c].postHookCalls + n,
                                  !.operationAfterRemoteCall = b]
  <2>3. b \in BOOLEAN
    OBVIOUS
  <2>4. call' = [call EXCEPT ![c] = p]
    BY <2>1
  <2> HIDE DEF p
  <2>5. call'[c] = p /\ call' = [call EXCEPT ![c] = call'[c]]
    BY <2>4
  <2> HIDE DEF b
  <2> QED BY <2>2, <2>3, <2>5 DEF p
<1>2. ASSUME CallRemoteService(c)
      PROVE  /\ call'[c] = [call[c] EXCEPT !.remoteCalls = call[c].remoteCalls + 1]
             /\ call' = [call EXCEPT ![c] = call'[c]]
  <2> DEFINE p == [call[c] EXCEPT !.remoteCalls = call[c].remoteCalls + 1]
  <2>1. call' = [call EXCEPT ![c] = p]
    BY <1>2 DEF CallRemoteService
  <2> HIDE DEF p
  <2> QED BY <2>1 DEF p
<1> QED BY <1>1, <1>2

\* Every handler keeps the types.
LEMMA TypeStep ==
    ASSUME TypeOK, CountersOK, Next
    PROVE  TypeOK'
<1> USE DEF TypeOK, Stages, Errors
<1>1. ASSUME NEW c \in Calls, Receive(c) PROVE TypeOK'
  <2>1. PICK r \in RequestsOf(c) :
           call' = [call EXCEPT ![c].stage = "received", ![c].request = r]
    BY <1>1 DEF Receive
  <2>2. r \in RequestTypes
    BY RequestsTypes
  <2>3. [call[c] EXCEPT !.stage = "received", !.request = r] \in Progress
    BY <2>2, ProgressChanges
  <2> QED BY <1>1, <2>1, <2>3, OneCallChanges DEF Receive
<1>2. ASSUME NEW c \in Calls, HandOn(c) PROVE TypeOK'
  BY <1>2, GoToTypes DEF HandOn
<1>3. ASSUME NEW c \in Calls, AnswerShortcut(c) PROVE TypeOK'
  BY <1>3, ProgressChanges, OneCallChanges, GoToTypes DEF AnswerShortcut
<1>4. ASSUME NEW c \in Calls, RefuseName(c) PROVE TypeOK'
  BY <1>4, FailTypes DEF RefuseName
<1>5. ASSUME NEW c \in Calls, VerifyCaptchaToken(c) PROVE TypeOK'
  BY <1>5, GoToTypes, FailTypes DEF VerifyCaptchaToken
<1>6. ASSUME NEW c \in Calls, Authorize(c) PROVE TypeOK'
  BY <1>6 DEF Authorize, Fail, Progress
<1>7. ASSUME NEW c \in Calls, ValidateArgument(c) PROVE TypeOK'
  BY <1>7, GoToTypes, FailTypes DEF ValidateArgument
<1>8. ASSUME NEW c \in Calls, LookUpResponse(c) PROVE TypeOK'
  <2>1. CASE call' = [call EXCEPT ![c].stage = "answer", ![c].response = cache.response]
    <3>1. [call[c] EXCEPT !.stage = "answer", !.response = cache.response] \in Progress
      BY ProgressChanges
    <3> QED BY <1>8, <2>1, <3>1, OneCallChanges DEF LookUpResponse
  <2>2. CASE GoTo(c, "reserve")
    BY <1>8, <2>2, GoToTypes DEF LookUpResponse
  <2> QED BY <1>8, <2>1, <2>2 DEF LookUpResponse
<1>9. ASSUME NEW c \in Calls, ReserveConnection(c) PROVE TypeOK'
  BY <1>9, GoToTypes, FailTypes DEF ReserveConnection
<1>10. ASSUME NEW c \in Calls, ExecuteLocalTransaction(c) PROVE TypeOK'
  <2>1. PICK n \in {0, 1}, v \in Nat, b \in BOOLEAN :
           /\ call'[c] = [call[c] EXCEPT
                 !.response = v,
                 !.localTransactions = call[c].localTransactions + 1,
                 !.postHookCalls = call[c].postHookCalls + n,
                 !.operationAfterRemoteCall = b]
           /\ call' = [call EXCEPT ![c] = call'[c]]
    BY <1>10, StepFacts
  <2>2. /\ Steps(c) < MaxSteps /\ version' \in Nat
        /\ UNCHANGED <<service, cache, undisturbed>>
    BY <1>10 DEF ExecuteLocalTransaction
  <2>3. call[c] \in Progress /\ call[c].postHookCalls <= call[c].localTransactions
    BY DEF CountersOK
  <2>4. /\ call[c].localTransactions + 1 \in 0 .. MaxSteps
        /\ call[c].postHookCalls + n \in 0 .. MaxSteps
    BY <2>2, <2>3, MaxStepsAssumption DEF Steps, Progress
  <2>5. call'[c] \in Progress
    <3> DEFINE p == [call[c] EXCEPT !.localTransactions = call[c].localTransactions + 1,
                                    !.postHookCalls = call[c].postHookCalls + n]
               q == [p EXCEPT !.operationAfterRemoteCall = b]
    <3>1. p \in Progress
      BY <2>3, <2>4 DEF Progress
    <3>2. call'[c] = [[p EXCEPT !.operationAfterRemoteCall = b] EXCEPT !.response = v]
      BY <2>1, <2>3 DEF Progress
    <3> HIDE DEF p
    <3>3. q \in Progress
      BY <3>1 DEF Progress
    <3>4. call'[c] = [q EXCEPT !.response = v]
      BY <3>2
    <3> HIDE DEF q
    <3> QED BY <3>3, <3>4 DEF Progress, Versions
  <2> QED BY <2>1, <2>2, <2>5, OneCallChanges
<1>11. ASSUME NEW c \in Calls, CallRemoteService(c) PROVE TypeOK'
  <2>1. /\ call'[c] = [call[c] EXCEPT !.remoteCalls = call[c].remoteCalls + 1]
        /\ call' = [call EXCEPT ![c] = call'[c]]
    BY <1>11, StepFacts
  <2>2. Steps(c) < MaxSteps /\ UNCHANGED <<service, version, cache, undisturbed>>
    BY <1>11 DEF CallRemoteService
  <2>3. call[c] \in Progress
    OBVIOUS
  <2>4. call[c].remoteCalls + 1 \in 0 .. MaxSteps
    BY <2>2, <2>3, MaxStepsAssumption DEF Steps, Progress
  <2>5. call'[c] \in Progress
    BY <2>1, <2>3, <2>4 DEF Progress
  <2> QED BY <2>1, <2>2, <2>5, OneCallChanges
<1>12. ASSUME NEW c \in Calls, ReturnFromFunction(c) PROVE TypeOK'
  <2>1. CASE GoTo(c, "fetch")
    BY <1>12, <2>1, GoToTypes DEF ReturnFromFunction
  <2>2. CASE call' = [call EXCEPT ![c].stage = "answer", ![c].response = NoVersion]
    <3>1. [call[c] EXCEPT !.stage = "answer", !.response = NoVersion] \in Progress
      BY ProgressChanges DEF Versions
    <3> QED BY <1>12, <2>2, <3>1, OneCallChanges DEF ReturnFromFunction
  <2> QED BY <1>12, <2>1, <2>2 DEF ReturnFromFunction
<1>13. ASSUME NEW c \in Calls, FailInFunction(c) PROVE TypeOK'
  BY <1>13, FailTypes DEF FailInFunction
<1>14. ASSUME NEW c \in Calls, FetchFromRemoteServices(c) PROVE TypeOK'
  BY <1>14, GoToTypes, FailTypes DEF FetchFromRemoteServices
<1>15. ASSUME NEW c \in Calls, ValidateReturnValue(c) PROVE TypeOK'
  BY <1>15, GoToTypes, FailTypes, PrepareTypes DEF ValidateReturnValue
<1>16. ASSUME NEW c \in Calls, ReadTtl(c) PROVE TypeOK'
  BY <1>16, ProgressChanges, OneCallChanges, GoToTypes DEF ReadTtl
<1>17. ASSUME NEW c \in Calls, SetResponse(c) PROVE TypeOK'
  BY <1>17, GoToTypes, PrepareTypes DEF SetResponse, Progress, Versions
<1>18. ASSUME NEW c \in Calls, SetExpiry(c) PROVE TypeOK'
  BY <1>18, NoVersionAssumption, PrepareTypes DEF SetExpiry, NoEntry, Versions
<1>19. ASSUME NEW c \in Calls, RedisFails(c) PROVE TypeOK'
  BY <1>19, PrepareTypes DEF RedisFails
<1>20. ASSUME NEW c \in Calls, Answer(c) PROVE TypeOK'
  <2> DEFINE a == IF call[c].request.replies THEN "success" ELSE "none"
  <2>1. \/ call' = [call EXCEPT ![c].stage = "finally", ![c].answer = a]
        \/ Fail(c, "Error")
    BY <1>20 DEF Answer
  <2>2. [call[c] EXCEPT !.stage = "finally", !.answer = a] \in Progress
    BY ProgressChanges
  <2> HIDE DEF a
  <2>3. call' \in [Calls -> Progress]
    BY <2>1, <2>2, OneCallChanges, FailTypes
  <2> QED BY <1>20, <2>3 DEF Answer
<1>21. ASSUME NEW c \in Calls, WriteAuditLog(c) PROVE TypeOK'
  <2>1. ASSUME NEW a \in {"success", "failure"},
               call' = [call EXCEPT ![c].stage = "done", ![c].audit = a]
        PROVE  call' \in [Calls -> Progress]
    <3>1. [call[c] EXCEPT !.stage = "done", !.audit = a] \in Progress
      BY ProgressChanges
    <3> QED BY <2>1, <3>1, OneCallChanges
  <2>2. ASSUME call' = [call EXCEPT ![c].stage = "done", ![c].thrown = TRUE]
        PROVE  call' \in [Calls -> Progress]
    <3>1. [call[c] EXCEPT !.stage = "done", !.thrown = TRUE] \in Progress
      BY ProgressChanges
    <3> QED BY <2>2, <3>1, OneCallChanges
  <2> QED BY <1>21, <2>1, <2>2, GoToTypes DEF WriteAuditLog
<1>22. ASSUME NEW c \in Calls, Crash(c) PROVE TypeOK'
  BY <1>22, GoToTypes DEF Crash
<1>23. CASE EntryExpires
  BY <1>23 DEF EntryExpires, NoEntry, Versions
<1> QED BY <1>1, <1>2, <1>3, <1>4, <1>5, <1>6, <1>7, <1>8, <1>9, <1>10, <1>11, <1>12,
           <1>13, <1>14, <1>15, <1>16, <1>17, <1>18, <1>19, <1>20, <1>21, <1>22, <1>23
        DEF Next

\* The counters of one request change.
LEMMA OneCounts ==
    ASSUME CountersOK, NEW c \in Calls,
           \A d \in Calls \ {c} : call'[d] = call[d],
           Steps(c)' <= MaxSteps,
           call'[c].postHookCalls <= call'[c].localTransactions,
           call'[c].stage \in Early => call'[c].localTransactions = 0
    PROVE  CountersOK'
  BY DEF CountersOK, Steps

\* A request does no step more, and does not come back to an early stage.
LEMMA CountersKept ==
    ASSUME CountersOK, NEW c \in Calls,
           \A d \in Calls \ {c} : call'[d] = call[d],
           call'[c].localTransactions = call[c].localTransactions,
           call'[c].remoteCalls = call[c].remoteCalls,
           call'[c].postHookCalls = call[c].postHookCalls,
           call'[c].stage \in Early => call[c].stage \in Early
    PROVE  CountersOK'
<1>1. Steps(c)' = Steps(c)
  BY DEF Steps
<1> QED BY <1>1, OneCounts DEF CountersOK

\* So do most of them.
LEMMA CountersWays ==
    ASSUME TypeOK, CountersOK, NEW c \in Calls
    PROVE  /\ \A s \in Stages : GoTo(c, s) /\ (s \in Early => call[c].stage \in Early)
                                   => CountersOK'
           /\ \A e : Fail(c, e) => CountersOK'
           /\ Prepare(c) => CountersOK'
<1>1. call \in [Calls -> Progress] /\ call[c] \in Progress
  BY DEF TypeOK
<1>2. ASSUME NEW s \in Stages, GoTo(c, s), s \in Early => call[c].stage \in Early
      PROVE  CountersOK'
  <2>1. /\ call'[c] = [call[c] EXCEPT !.stage = s]
        /\ \A d \in Calls \ {c} : call'[d] = call[d]
    BY <1>1, <1>2, GoToFacts
  <2>2. /\ call'[c].localTransactions = call[c].localTransactions
        /\ call'[c].remoteCalls = call[c].remoteCalls
        /\ call'[c].postHookCalls = call[c].postHookCalls
        /\ call'[c].stage = s
    BY <1>1, <2>1 DEF Progress
  <2> QED BY <1>2, <2>1, <2>2, CountersKept
<1>3. ASSUME NEW e, Fail(c, e)
      PROVE  CountersOK'
  <2>1. PICK a \in {"none", "error"}, t \in BOOLEAN :
           call'[c] = [call[c] EXCEPT !.stage = "finally", !.error = e, !.answer = a,
                                      !.thrown = t]
    BY <1>1, <1>3, FailFacts
  <2>2. \A d \in Calls \ {c} : call'[d] = call[d]
    BY <1>1, <1>3, FailFacts
  <2>3. /\ call'[c].localTransactions = call[c].localTransactions
        /\ call'[c].remoteCalls = call[c].remoteCalls
        /\ call'[c].postHookCalls = call[c].postHookCalls
        /\ call'[c].stage = "finally"
    BY <1>1, <2>1 DEF Progress
  <2>4. call'[c].stage \notin Early
    BY <2>3 DEF Early
  <2> QED BY <2>2, <2>3, <2>4, CountersKept
<1>4. ASSUME Prepare(c)
      PROVE  CountersOK'
  <2>1. "answer" \in Stages \ Early
    BY DEF Stages, Early
  <2> QED BY <1>2, <1>3, <1>4, <2>1 DEF Prepare
<1> QED BY <1>2, <1>3, <1>4

\* Steps are only added below the bound, and messages with a transaction.
LEMMA CountersStep ==
    ASSUME TypeOK, CountersOK, Next
    PROVE  CountersOK'
<1>1. ASSUME NEW c \in Calls, Receive(c) PROVE CountersOK'
  BY <1>1, CountersKept DEF Receive, TypeOK, Progress, At, Early
<1>2. ASSUME NEW c \in Calls, HandOn(c) PROVE CountersOK'
  BY <1>2, CountersWays DEF HandOn, At, Early, Stages
<1>3. ASSUME NEW c \in Calls, AnswerShortcut(c) PROVE CountersOK'
  <2> DEFINE a == IF call[c].request.replies THEN "success" ELSE "none"
  <2>1. call' = [call EXCEPT ![c].stage = "finally", ![c].answer = a]
    BY <1>3 DEF AnswerShortcut
  <2> HIDE DEF a
  <2> QED BY <2>1, CountersKept DEF TypeOK, Progress, Early
<1>4. ASSUME NEW c \in Calls, RefuseName(c) PROVE CountersOK'
  BY <1>4, CountersWays DEF RefuseName, At, Early, Stages
<1>5. ASSUME NEW c \in Calls, VerifyCaptchaToken(c) PROVE CountersOK'
  BY <1>5, CountersWays DEF VerifyCaptchaToken, At, Early, Stages
<1>6. ASSUME NEW c \in Calls, Authorize(c) PROVE CountersOK'
  <2>1. CASE call' = [call EXCEPT ![c].stage = "validate",
                                  ![c].userName = IsSelf(call[c].request)
                                                  /\ ~IsEveryUser(call[c].request)]
    BY <1>6, <2>1, CountersKept DEF Authorize, TypeOK, Progress, At, Early
  <2>2. ASSUME NEW e \in {"Error", "HttpException"}, Fail(c, e)
        PROVE  CountersOK'
    BY <2>2, CountersWays
  <2> QED BY <1>6, <2>1, <2>2 DEF Authorize
<1>7. ASSUME NEW c \in Calls, ValidateArgument(c) PROVE CountersOK'
  BY <1>7, CountersWays DEF ValidateArgument, At, Early, Stages
<1>8. ASSUME NEW c \in Calls, LookUpResponse(c) PROVE CountersOK'
  <2>1. CASE GoTo(c, "reserve")
    BY <1>8, <2>1, CountersWays DEF LookUpResponse, At, Early, Stages
  <2>2. CASE call' = [call EXCEPT ![c].stage = "answer", ![c].response = cache.response]
    BY <2>2, CountersKept DEF TypeOK, Progress, Early
  <2> QED BY <1>8, <2>1, <2>2 DEF LookUpResponse
<1>9. ASSUME NEW c \in Calls, ReserveConnection(c) PROVE CountersOK'
  BY <1>9, CountersWays DEF ReserveConnection, At, Early, Stages
<1>10. ASSUME NEW c \in Calls, ExecuteLocalTransaction(c) PROVE CountersOK'
  <2>1. PICK n \in {0, 1}, v \in Nat, b \in BOOLEAN :
           /\ call'[c] = [call[c] EXCEPT
                 !.response = v,
                 !.localTransactions = call[c].localTransactions + 1,
                 !.postHookCalls = call[c].postHookCalls + n,
                 !.operationAfterRemoteCall = b]
           /\ call' = [call EXCEPT ![c] = call'[c]]
    BY <1>10, StepFacts DEF TypeOK
  <2>2. Steps(c) < MaxSteps /\ At(c, "run")
    BY <1>10 DEF ExecuteLocalTransaction
  <2>3. call[c] \in Progress /\ \A d \in Calls \ {c} : call'[d] = call[d]
    BY <2>1 DEF TypeOK
  <2>4. /\ call'[c].localTransactions = call[c].localTransactions + 1
        /\ call'[c].remoteCalls = call[c].remoteCalls
        /\ call'[c].postHookCalls = call[c].postHookCalls + n
        /\ call'[c].stage = "run"
    BY <2>1, <2>2, <2>3 DEF Progress, At
  <2>5. /\ call[c].localTransactions \in Nat /\ call[c].remoteCalls \in Nat
        /\ call[c].postHookCalls \in Nat
        /\ call[c].postHookCalls <= call[c].localTransactions
    BY <2>3 DEF Progress, CountersOK
  <2>6. Steps(c)' <= MaxSteps /\ call'[c].postHookCalls <= call'[c].localTransactions
    BY <2>2, <2>4, <2>5, MaxStepsAssumption DEF Steps
  <2>7. call'[c].stage \notin Early
    BY <2>4 DEF Early
  <2> QED BY <2>3, <2>6, <2>7, OneCounts
<1>11. ASSUME NEW c \in Calls, CallRemoteService(c) PROVE CountersOK'
  <2>1. /\ call'[c] = [call[c] EXCEPT !.remoteCalls = call[c].remoteCalls + 1]
        /\ call' = [call EXCEPT ![c] = call'[c]]
    BY <1>11, StepFacts DEF TypeOK
  <2>2. Steps(c) < MaxSteps /\ At(c, "run")
    BY <1>11 DEF CallRemoteService
  <2>3. call[c] \in Progress /\ \A d \in Calls \ {c} : call'[d] = call[d]
    BY <2>1 DEF TypeOK
  <2>4. /\ call'[c].localTransactions = call[c].localTransactions
        /\ call'[c].remoteCalls = call[c].remoteCalls + 1
        /\ call'[c].postHookCalls = call[c].postHookCalls
        /\ call'[c].stage = "run"
    BY <2>1, <2>2, <2>3 DEF Progress, At
  <2>5. /\ call[c].localTransactions \in Nat /\ call[c].remoteCalls \in Nat
        /\ call[c].postHookCalls <= call[c].localTransactions
    BY <2>3 DEF Progress, CountersOK
  <2>6. Steps(c)' <= MaxSteps /\ call'[c].postHookCalls <= call'[c].localTransactions
    BY <2>2, <2>4, <2>5, MaxStepsAssumption DEF Steps
  <2>7. call'[c].stage \notin Early
    BY <2>4 DEF Early
  <2> QED BY <2>3, <2>6, <2>7, OneCounts
<1>12. ASSUME NEW c \in Calls, ReturnFromFunction(c) PROVE CountersOK'
  <2>1. CASE GoTo(c, "fetch")
    BY <1>12, <2>1, CountersWays DEF ReturnFromFunction, At, Early, Stages
  <2>2. CASE call' = [call EXCEPT ![c].stage = "answer", ![c].response = NoVersion]
    BY <2>2, CountersKept DEF TypeOK, Progress, Early
  <2> QED BY <1>12, <2>1, <2>2 DEF ReturnFromFunction
<1>13. ASSUME NEW c \in Calls, FailInFunction(c) PROVE CountersOK'
  BY <1>13, CountersWays DEF FailInFunction, At, Early, Stages
<1>14. ASSUME NEW c \in Calls, FetchFromRemoteServices(c) PROVE CountersOK'
  BY <1>14, CountersWays DEF FetchFromRemoteServices, At, Early, Stages
<1>15. ASSUME NEW c \in Calls, ValidateReturnValue(c) PROVE CountersOK'
  BY <1>15, CountersWays DEF ValidateReturnValue, At, Early, Stages
<1>16. ASSUME NEW c \in Calls, ReadTtl(c) PROVE CountersOK'
  <2> DEFINE b == ~cache.expires
  <2>1. call' = [call EXCEPT ![c].stage = "set", ![c].withoutExpiry = b]
    BY <1>16 DEF ReadTtl
  <2> HIDE DEF b
  <2> QED BY <2>1, CountersKept DEF TypeOK, Progress, Early
<1>17. ASSUME NEW c \in Calls, SetResponse(c) PROVE CountersOK'
  BY <1>17, CountersWays DEF SetResponse, At, Early, Stages
<1>18. ASSUME NEW c \in Calls, SetExpiry(c) PROVE CountersOK'
  BY <1>18, CountersWays DEF SetExpiry, At, Early, Stages
<1>19. ASSUME NEW c \in Calls, RedisFails(c) PROVE CountersOK'
  BY <1>19, CountersWays DEF RedisFails, At, Early, Stages
<1>20. ASSUME NEW c \in Calls, Answer(c) PROVE CountersOK'
  <2> DEFINE a == IF call[c].request.replies THEN "success" ELSE "none"
  <2>1. \/ call' = [call EXCEPT ![c].stage = "finally", ![c].answer = a]
        \/ Fail(c, "Error")
    BY <1>20 DEF Answer
  <2> HIDE DEF a
  <2>2. CASE call' = [call EXCEPT ![c].stage = "finally", ![c].answer = a]
    BY <2>2, CountersKept DEF TypeOK, Progress, Early
  <2> QED BY <2>1, <2>2, CountersWays
<1>21. ASSUME NEW c \in Calls, WriteAuditLog(c) PROVE CountersOK'
  <2>1. CASE GoTo(c, "done")
    BY <2>1, CountersWays DEF Early, Stages
  <2>2. ASSUME NEW a, call' = [call EXCEPT ![c].stage = "done", ![c].audit = a]
        PROVE  CountersOK'
    BY <2>2, CountersKept DEF TypeOK, Progress, Early
  <2>3. CASE call' = [call EXCEPT ![c].stage = "done", ![c].thrown = TRUE]
    BY <2>3, CountersKept DEF TypeOK, Progress, Early
  <2> QED BY <1>21, <2>1, <2>2, <2>3 DEF WriteAuditLog
<1>22. ASSUME NEW c \in Calls, Crash(c) PROVE CountersOK'
  BY <1>22, CountersWays DEF Crash, At, Early, Stages
<1>23. CASE EntryExpires
  BY <1>23 DEF EntryExpires, CountersOK, Steps
<1> QED BY <1>1, <1>2, <1>3, <1>4, <1>5, <1>6, <1>7, <1>8, <1>9, <1>10, <1>11, <1>12,
           <1>13, <1>14, <1>15, <1>16, <1>17, <1>18, <1>19, <1>20, <1>21, <1>22, <1>23
        DEF Next

\* One request changes.
LEMMA OneErrs ==
    ASSUME ErrorsOK, NEW c \in Calls, UNCHANGED service,
           \A d \in Calls \ {c} : call'[d] = call[d],
           call'[c].stage \in Underway => call'[c].error = "none" /\ call'[c].answer = "none",
           call'[c].localTransactions > 0 /\ ~HeadersFail(c)'
              => call'[c].error \in {"none", "HttpException"},
           call'[c].error = "none" => call'[c].answer # "error" /\ ~call'[c].thrown,
           call'[c].error # "none" => call'[c].answer # "success"
    PROVE  ErrorsOK'
<1>1. ASSUME NEW d \in Calls \ {c}
      PROVE  HeadersFail(d)' = HeadersFail(d)
  BY DEF HeadersFail, KnownVersion, LacksResponse
<1> QED BY <1>1 DEF ErrorsOK

\* Whether the headers of an answer fail is a matter of the request and the response.
LEMMA HeadersKept ==
    ASSUME NEW c \in Calls, UNCHANGED service,
           call'[c].request = call[c].request, call'[c].response = call[c].response
    PROVE  HeadersFail(c)' = HeadersFail(c)
  BY DEF HeadersFail, KnownVersion, LacksResponse

\* Most requests change so.
LEMMA ErrorsWays ==
    ASSUME TypeOK, ErrorsOK, NEW c \in Calls, UNCHANGED service
    PROVE  /\ \A s \in Stages : GoTo(c, s) /\ (s \in Underway => call[c].stage \in Underway)
                                   => ErrorsOK'
           /\ \A e \in Errors :
                 /\ Fail(c, e)
                 /\ call[c].localTransactions > 0 /\ ~HeadersFail(c) => e = "HttpException"
                 => ErrorsOK'
           /\ Prepare(c) /\ call[c].stage \in Underway => ErrorsOK'
<1>1. call \in [Calls -> Progress] /\ call[c] \in Progress
  BY DEF TypeOK
<1>2. ASSUME NEW s \in Stages, GoTo(c, s), s \in Underway => call[c].stage \in Underway
      PROVE  ErrorsOK'
  <2>1. /\ call'[c] = [call[c] EXCEPT !.stage = s]
        /\ \A d \in Calls \ {c} : call'[d] = call[d]
    BY <1>1, <1>2, GoToFacts
  <2>2. /\ call'[c].error = call[c].error /\ call'[c].answer = call[c].answer
        /\ call'[c].thrown = call[c].thrown /\ call'[c].stage = s
        /\ call'[c].localTransactions = call[c].localTransactions
        /\ call'[c].request = call[c].request /\ call'[c].response = call[c].response
    BY <1>1, <2>1 DEF Progress
  <2>3. HeadersFail(c)' = HeadersFail(c)
    BY <2>2, HeadersKept
  <2>4. /\ call[c].stage \in Underway => call[c].error = "none" /\ call[c].answer = "none"
        /\ call[c].localTransactions > 0 /\ ~HeadersFail(c)
              => call[c].error \in {"none", "HttpException"}
        /\ call[c].error = "none" => call[c].answer # "error" /\ ~call[c].thrown
        /\ call[c].error # "none" => call[c].answer # "success"
    BY DEF ErrorsOK
  <2>5. call'[c].stage \in Underway => call[c].stage \in Underway
    BY <1>2, <2>2
  <2> QED BY <2>1, <2>2, <2>3, <2>4, <2>5, OneErrs
<1>3. ASSUME NEW e \in Errors, Fail(c, e),
             call[c].localTransactions > 0 /\ ~HeadersFail(c) => e = "HttpException"
      PROVE  ErrorsOK'
  <2>1. PICK a \in {"none", "error"}, t \in BOOLEAN :
           call'[c] = [call[c] EXCEPT !.stage = "finally", !.error = e, !.answer = a,
                                      !.thrown = t]
    BY <1>1, <1>3, FailFacts
  <2>2. \A d \in Calls \ {c} : call'[d] = call[d]
    BY <1>1, <1>3, FailFacts
  <2>3. /\ call'[c].error = e /\ call'[c].answer = a /\ call'[c].stage = "finally"
        /\ call'[c].localTransactions = call[c].localTransactions
        /\ call'[c].request = call[c].request /\ call'[c].response = call[c].response
    BY <1>1, <2>1 DEF Progress
  <2>4. HeadersFail(c)' = HeadersFail(c)
    BY <2>3, HeadersKept
  <2>5. call'[c].stage \notin Underway /\ e # "none" /\ a # "success"
    BY <2>3 DEF Underway, Early, Errors
  <2> QED BY <1>3, <2>2, <2>3, <2>4, <2>5, OneErrs
<1>4. ASSUME Prepare(c), call[c].stage \in Underway
      PROVE  ErrorsOK'
  <2>1. CASE GoTo(c, "answer")
    BY <1>2, <1>4, <2>1 DEF Stages
  <2>2. CASE KnownVersion(c) /\ Fail(c, "Error")
    BY <1>3, <2>2 DEF HeadersFail, Errors
  <2> QED BY <1>4, <2>1, <2>2 DEF Prepare
<1> QED BY <1>2, <1>3, <1>4

\* What fails before the function runs has committed nothing; what fails after it
\* throws an HttpException.
LEMMA ErrorsStep ==
    ASSUME TypeOK, CountersOK, ErrorsOK, Next
    PROVE  ErrorsOK'
<1>0. UNCHANGED service
  BY DEF Next, Receive, HandOn, AnswerShortcut, RefuseName, VerifyCaptchaToken, Authorize,
         ValidateArgument, LookUpResponse, ReserveConnection, ExecuteLocalTransaction,
         CallRemoteService, ReturnFromFunction, FailInFunction, FetchFromRemoteServices,
         ValidateReturnValue, ReadTtl, SetResponse, SetExpiry, RedisFails, Answer,
         WriteAuditLog, Crash, EntryExpires
<1> USE <1>0
<1>1. ASSUME NEW c \in Calls, Receive(c) PROVE ErrorsOK'
  BY <1>1, OneErrs DEF Receive, ErrorsOK, TypeOK, Progress, Underway, Early, At
<1>2. ASSUME NEW c \in Calls, HandOn(c) PROVE ErrorsOK'
  BY <1>2, ErrorsWays DEF HandOn, At, Underway, Early, Stages, Errors, CountersOK
<1>3. ASSUME NEW c \in Calls, AnswerShortcut(c) PROVE ErrorsOK'
  <2> DEFINE a == IF call[c].request.replies THEN "success" ELSE "none"
  <2>1. /\ call' = [call EXCEPT ![c].stage = "finally", ![c].answer = a]
        /\ call[c].stage \in Underway /\ a # "error"
    BY <1>3 DEF AnswerShortcut, At, Underway, Early
  <2> HIDE DEF a
  <2> QED BY <2>1, OneErrs DEF ErrorsOK, TypeOK, Progress, Underway, Early
<1>4. ASSUME NEW c \in Calls, RefuseName(c) PROVE ErrorsOK'
  BY <1>4, ErrorsWays DEF RefuseName, At, Underway, Early, Stages, Errors, CountersOK
<1>5. ASSUME NEW c \in Calls, VerifyCaptchaToken(c) PROVE ErrorsOK'
  BY <1>5, ErrorsWays DEF VerifyCaptchaToken, At, Underway, Early, Stages, Errors, CountersOK
<1>6. ASSUME NEW c \in Calls, Authorize(c) PROVE ErrorsOK'
  <2>1. CASE call' = [call EXCEPT ![c].stage = "validate",
                                  ![c].userName = IsSelf(call[c].request)
                                                  /\ ~IsEveryUser(call[c].request)]
    BY <1>6, <2>1, OneErrs DEF Authorize, ErrorsOK, TypeOK, Progress, Underway, Early, At
  <2>2. ASSUME NEW e \in {"Error", "HttpException"}, Fail(c, e)
        PROVE  ErrorsOK'
    BY <1>6, <2>2, ErrorsWays DEF Authorize, At, Early, Errors, CountersOK
  <2> QED BY <1>6, <2>1, <2>2 DEF Authorize
<1>7. ASSUME NEW c \in Calls, ValidateArgument(c) PROVE ErrorsOK'
  BY <1>7, ErrorsWays DEF ValidateArgument, At, Underway, Early, Stages, Errors, CountersOK
<1>8. ASSUME NEW c \in Calls, LookUpResponse(c) PROVE ErrorsOK'
  <2>1. CASE GoTo(c, "reserve")
    BY <1>8, <2>1, ErrorsWays DEF LookUpResponse, At, Underway, Early, Stages
  <2>2. CASE call' = [call EXCEPT ![c].stage = "answer", ![c].response = cache.response]
    <3>1. /\ call[c].stage \in Underway /\ \A d \in Calls \ {c} : call'[d] = call[d]
          /\ call'[c].error = call[c].error /\ call'[c].answer = call[c].answer
          /\ call'[c].thrown = call[c].thrown
      BY <1>8, <2>2 DEF LookUpResponse, TypeOK, Progress, Underway, Early, At
    <3> QED BY <3>1, OneErrs DEF ErrorsOK
  <2> QED BY <1>8, <2>1, <2>2 DEF LookUpResponse
<1>9. ASSUME NEW c \in Calls, ReserveConnection(c) PROVE ErrorsOK'
  BY <1>9, ErrorsWays DEF ReserveConnection, At, Underway, Early, Stages, Errors, CountersOK
<1>10. ASSUME NEW c \in Calls, ExecuteLocalTransaction(c) PROVE ErrorsOK'
  <2>1. PICK n \in {0, 1}, v \in Nat, b \in BOOLEAN :
           /\ call'[c] = [call[c] EXCEPT
                 !.response = v,
                 !.localTransactions = call[c].localTransactions + 1,
                 !.postHookCalls = call[c].postHookCalls + n,
                 !.operationAfterRemoteCall = b]
           /\ call' = [call EXCEPT ![c] = call'[c]]
    BY <1>10, StepFacts DEF TypeOK
  <2>2. call[c] \in Progress /\ \A d \in Calls \ {c} : call'[d] = call[d]
    BY <2>1 DEF TypeOK
  <2>3. /\ call'[c].stage = call[c].stage /\ call'[c].error = call[c].error
        /\ call'[c].answer = call[c].answer /\ call'[c].thrown = call[c].thrown
    BY <2>1, <2>2 DEF Progress
  <2>4. call[c].stage \in Underway
    BY <1>10 DEF ExecuteLocalTransaction, At, Underway
  <2> QED BY <2>2, <2>3, <2>4, OneErrs DEF ErrorsOK
<1>11. ASSUME NEW c \in Calls, CallRemoteService(c) PROVE ErrorsOK'
  <2>1. /\ call'[c] = [call[c] EXCEPT !.remoteCalls = call[c].remoteCalls + 1]
        /\ call' = [call EXCEPT ![c] = call'[c]]
    BY <1>11, StepFacts DEF TypeOK
  <2>2. call[c] \in Progress /\ \A d \in Calls \ {c} : call'[d] = call[d]
    BY <2>1 DEF TypeOK
  <2>3. /\ call'[c].stage = call[c].stage /\ call'[c].error = call[c].error
        /\ call'[c].answer = call[c].answer /\ call'[c].thrown = call[c].thrown
        /\ call[c].stage \in Underway
    BY <1>11, <2>1, <2>2 DEF CallRemoteService, At, Underway, Progress
  <2> QED BY <2>2, <2>3, OneErrs DEF ErrorsOK
<1>12. ASSUME NEW c \in Calls, ReturnFromFunction(c) PROVE ErrorsOK'
  <2>1. CASE GoTo(c, "fetch")
    BY <1>12, <2>1, ErrorsWays DEF ReturnFromFunction, At, Underway, Early, Stages
  <2>2. CASE call' = [call EXCEPT ![c].stage = "answer", ![c].response = NoVersion]
    BY <1>12, <2>2, OneErrs DEF ReturnFromFunction, ErrorsOK, TypeOK, Progress, Underway, Early, At
  <2> QED BY <1>12, <2>1, <2>2 DEF ReturnFromFunction
<1>13. ASSUME NEW c \in Calls, FailInFunction(c) PROVE ErrorsOK'
  BY <1>13, ErrorsWays DEF FailInFunction, At, Underway, Early, Stages, Errors, CountersOK
<1>14. ASSUME NEW c \in Calls, FetchFromRemoteServices(c) PROVE ErrorsOK'
  BY <1>14, ErrorsWays DEF FetchFromRemoteServices, At, Underway, Early, Stages, Errors, CountersOK
<1>15. ASSUME NEW c \in Calls, ValidateReturnValue(c) PROVE ErrorsOK'
  BY <1>15, ErrorsWays DEF ValidateReturnValue, At, Underway, Early, Stages, Errors, CountersOK
<1>16. ASSUME NEW c \in Calls, ReadTtl(c) PROVE ErrorsOK'
  <2> DEFINE b == ~cache.expires
  <2>1. /\ call' = [call EXCEPT ![c].stage = "set", ![c].withoutExpiry = b]
        /\ call[c].stage \in Underway
    BY <1>16 DEF ReadTtl, At, Underway
  <2> HIDE DEF b
  <2> QED BY <2>1, OneErrs DEF ErrorsOK, TypeOK, Progress, Underway, Early
<1>17. ASSUME NEW c \in Calls, SetResponse(c) PROVE ErrorsOK'
  BY <1>17, ErrorsWays DEF SetResponse, At, Underway, Early, Stages, Errors, CountersOK
<1>18. ASSUME NEW c \in Calls, SetExpiry(c) PROVE ErrorsOK'
  BY <1>18, ErrorsWays DEF SetExpiry, At, Underway, Early, Stages, Errors, CountersOK
<1>19. ASSUME NEW c \in Calls, RedisFails(c) PROVE ErrorsOK'
  BY <1>19, ErrorsWays DEF RedisFails, At, Underway, Early, Stages, Errors, CountersOK
<1>20. ASSUME NEW c \in Calls, Answer(c) PROVE ErrorsOK'
  <2> DEFINE a == IF call[c].request.replies THEN "success" ELSE "none"
  <2>1. /\ \/ call' = [call EXCEPT ![c].stage = "finally", ![c].answer = a]
           \/ Fail(c, "Error") /\ HeadersFail(c)
        /\ call[c].stage \in Underway /\ a # "error"
    BY <1>20 DEF Answer, At, Underway, Early, HeadersFail
  <2> HIDE DEF a
  <2>2. CASE call' = [call EXCEPT ![c].stage = "finally", ![c].answer = a]
    BY <2>1, <2>2, OneErrs DEF ErrorsOK, TypeOK, Progress, Underway, Early
  <2>3. CASE Fail(c, "Error") /\ HeadersFail(c)
    BY <2>3, ErrorsWays DEF Errors
  <2> QED BY <2>1, <2>2, <2>3
<1>21. ASSUME NEW c \in Calls, WriteAuditLog(c) PROVE ErrorsOK'
  <2>1. CASE GoTo(c, "done")
    BY <2>1, ErrorsWays DEF Stages, Underway, Early
  <2>2. ASSUME NEW a, call' = [call EXCEPT ![c].stage = "done", ![c].audit = a]
        PROVE  ErrorsOK'
    BY <2>2, OneErrs, HeadersKept DEF ErrorsOK, TypeOK, Progress, Underway, Early
  <2>3. CASE /\ call' = [call EXCEPT ![c].stage = "done", ![c].thrown = TRUE]
             /\ call[c].error # "none"
    BY <2>3, OneErrs, HeadersKept DEF ErrorsOK, TypeOK, Progress, Underway, Early
  <2> QED BY <1>21, <2>1, <2>2, <2>3 DEF WriteAuditLog
<1>22. ASSUME NEW c \in Calls, Crash(c) PROVE ErrorsOK'
  BY <1>22, ErrorsWays DEF Crash, At, Underway, Early, Stages, Errors, CountersOK
<1>23. CASE EntryExpires
  BY <1>23 DEF EntryExpires, ErrorsOK, HeadersFail, KnownVersion, LacksResponse
<1> QED BY <1>1, <1>2, <1>3, <1>4, <1>5, <1>6, <1>7, <1>8, <1>9, <1>10, <1>11, <1>12,
           <1>13, <1>14, <1>15, <1>16, <1>17, <1>18, <1>19, <1>20, <1>21, <1>22, <1>23
        DEF Next

\* A request that is not over, nor comes to that.
LEMMA AuditKept ==
    ASSUME AuditOK, NEW c \in Calls, UNCHANGED service,
           \A d \in Calls \ {c} : call'[d] = call[d],
           call'[c].audit = call[c].audit,
           call[c].stage # "done", call'[c].stage # "done"
    PROVE  AuditOK'
<1>1. ASSUME NEW d \in Calls \ {c}
      PROVE  /\ At(d, "done")' = At(d, "done") /\ IsAudited(d)' = IsAudited(d)
             /\ HeadersFail(d)' = HeadersFail(d)
  BY DEF At, IsAudited, IsOfAccounts, HeadersFail, KnownVersion, LacksResponse
<1>2. call'[c].audit = "none" /\ ~At(c, "done")'
  BY DEF AuditOK, At
<1> QED BY <1>1, <1>2 DEF AuditOK

\* Most requests change so.
LEMMA AuditWays ==
    ASSUME TypeOK, AuditOK, NEW c \in Calls, UNCHANGED service, call[c].stage # "done"
    PROVE  /\ \A s \in Stages \ {"done"} : GoTo(c, s) => AuditOK'
           /\ \A e : Fail(c, e) => AuditOK'
           /\ Prepare(c) => AuditOK'
<1>1. call \in [Calls -> Progress] /\ call[c] \in Progress
  BY DEF TypeOK
<1>2. ASSUME NEW s \in Stages \ {"done"}, GoTo(c, s)
      PROVE  AuditOK'
  <2>1. /\ call'[c] = [call[c] EXCEPT !.stage = s]
        /\ \A d \in Calls \ {c} : call'[d] = call[d]
    BY <1>1, <1>2, GoToFacts
  <2>2. call'[c].audit = call[c].audit /\ call'[c].stage = s
    BY <1>1, <2>1 DEF Progress
  <2> QED BY <2>1, <2>2, AuditKept
<1>3. ASSUME NEW e, Fail(c, e)
      PROVE  AuditOK'
  <2>1. PICK a \in {"none", "error"}, t \in BOOLEAN :
           call'[c] = [call[c] EXCEPT !.stage = "finally", !.error = e, !.answer = a,
                                      !.thrown = t]
    BY <1>1, <1>3, FailFacts
  <2>2. \A d \in Calls \ {c} : call'[d] = call[d]
    BY <1>1, <1>3, FailFacts
  <2>3. call'[c].audit = call[c].audit /\ call'[c].stage = "finally"
    BY <1>1, <2>1 DEF Progress
  <2> QED BY <2>2, <2>3, AuditKept
<1>4. ASSUME Prepare(c)
      PROVE  AuditOK'
  BY <1>2, <1>3, <1>4 DEF Prepare, Stages
<1> QED BY <1>2, <1>3, <1>4

\* Only the finally block writes, and what it reads does not change in it.
LEMMA AuditStep ==
    ASSUME TypeOK, CountersOK, ErrorsOK, AuditOK, Next
    PROVE  AuditOK'
<1>1. ASSUME NEW c \in Calls, Receive(c) PROVE AuditOK'
  BY <1>1, AuditKept DEF Receive, TypeOK, Progress, At
<1>2. ASSUME NEW c \in Calls, HandOn(c) PROVE AuditOK'
  BY <1>2, AuditWays DEF HandOn, At, Stages
<1>3. ASSUME NEW c \in Calls, AnswerShortcut(c) PROVE AuditOK'
  <2> DEFINE a == IF call[c].request.replies THEN "success" ELSE "none"
  <2>1. /\ call' = [call EXCEPT ![c].stage = "finally", ![c].answer = a]
        /\ UNCHANGED service /\ call[c].stage # "done"
    BY <1>3 DEF AnswerShortcut, At
  <2> HIDE DEF a
  <2> QED BY <2>1, AuditKept DEF TypeOK, Progress
<1>4. ASSUME NEW c \in Calls, RefuseName(c) PROVE AuditOK'
  BY <1>4, AuditWays DEF RefuseName, At, Stages
<1>5. ASSUME NEW c \in Calls, VerifyCaptchaToken(c) PROVE AuditOK'
  BY <1>5, AuditWays DEF VerifyCaptchaToken, At, Stages
<1>6. ASSUME NEW c \in Calls, Authorize(c) PROVE AuditOK'
  <2>1. UNCHANGED service /\ call[c].stage = "authorize"
    BY <1>6 DEF Authorize, At
  <2>2. CASE call' = [call EXCEPT ![c].stage = "validate",
                                  ![c].userName = IsSelf(call[c].request)
                                                  /\ ~IsEveryUser(call[c].request)]
    BY <2>1, <2>2, AuditKept DEF TypeOK, Progress
  <2>3. ASSUME NEW e, Fail(c, e)
        PROVE  AuditOK'
    BY <2>1, <2>3, AuditWays
  <2> QED BY <1>6, <2>2, <2>3 DEF Authorize
<1>7. ASSUME NEW c \in Calls, ValidateArgument(c) PROVE AuditOK'
  BY <1>7, AuditWays DEF ValidateArgument, At, Stages
<1>8. ASSUME NEW c \in Calls, LookUpResponse(c) PROVE AuditOK'
  <2>1. UNCHANGED service /\ call[c].stage # "done"
    BY <1>8 DEF LookUpResponse, At
  <2>2. CASE GoTo(c, "reserve")
    BY <2>1, <2>2, AuditWays DEF Stages
  <2>3. CASE call' = [call EXCEPT ![c].stage = "answer", ![c].response = cache.response]
    BY <2>1, <2>3, AuditKept DEF TypeOK, Progress
  <2> QED BY <1>8, <2>2, <2>3 DEF LookUpResponse
<1>9. ASSUME NEW c \in Calls, ReserveConnection(c) PROVE AuditOK'
  BY <1>9, AuditWays DEF ReserveConnection, At, Stages
<1>10. ASSUME NEW c \in Calls, ExecuteLocalTransaction(c) PROVE AuditOK'
  <2>1. PICK n \in {0, 1}, v \in Nat, b \in BOOLEAN :
           /\ call'[c] = [call[c] EXCEPT
                 !.response = v,
                 !.localTransactions = call[c].localTransactions + 1,
                 !.postHookCalls = call[c].postHookCalls + n,
                 !.operationAfterRemoteCall = b]
           /\ call' = [call EXCEPT ![c] = call'[c]]
    BY <1>10, StepFacts DEF TypeOK
  <2>2. call[c] \in Progress /\ \A d \in Calls \ {c} : call'[d] = call[d]
    BY <2>1 DEF TypeOK
  <2>3. call'[c].stage = call[c].stage /\ call'[c].audit = call[c].audit
    BY <2>1, <2>2 DEF Progress
  <2>4. UNCHANGED service /\ call[c].stage # "done"
    BY <1>10 DEF ExecuteLocalTransaction, At
  <2> QED BY <2>2, <2>3, <2>4, AuditKept
<1>11. ASSUME NEW c \in Calls, CallRemoteService(c) PROVE AuditOK'
  <2>1. /\ call'[c] = [call[c] EXCEPT !.remoteCalls = call[c].remoteCalls + 1]
        /\ call' = [call EXCEPT ![c] = call'[c]]
    BY <1>11, StepFacts DEF TypeOK
  <2>2. call[c] \in Progress /\ \A d \in Calls \ {c} : call'[d] = call[d]
    BY <2>1 DEF TypeOK
  <2>3. call'[c].stage = call[c].stage /\ call'[c].audit = call[c].audit
    BY <2>1, <2>2 DEF Progress
  <2>4. UNCHANGED service /\ call[c].stage # "done"
    BY <1>11 DEF CallRemoteService, At
  <2> QED BY <2>2, <2>3, <2>4, AuditKept
<1>12. ASSUME NEW c \in Calls, ReturnFromFunction(c) PROVE AuditOK'
  <2>1. UNCHANGED service /\ call[c].stage # "done"
    BY <1>12 DEF ReturnFromFunction, At
  <2>2. CASE GoTo(c, "fetch")
    BY <2>1, <2>2, AuditWays DEF Stages
  <2>3. CASE call' = [call EXCEPT ![c].stage = "answer", ![c].response = NoVersion]
    BY <2>1, <2>3, AuditKept DEF TypeOK, Progress
  <2> QED BY <1>12, <2>2, <2>3 DEF ReturnFromFunction
<1>13. ASSUME NEW c \in Calls, FailInFunction(c) PROVE AuditOK'
  BY <1>13, AuditWays DEF FailInFunction, At, Stages
<1>14. ASSUME NEW c \in Calls, FetchFromRemoteServices(c) PROVE AuditOK'
  BY <1>14, AuditWays DEF FetchFromRemoteServices, At, Stages
<1>15. ASSUME NEW c \in Calls, ValidateReturnValue(c) PROVE AuditOK'
  BY <1>15, AuditWays DEF ValidateReturnValue, At, Stages
<1>16. ASSUME NEW c \in Calls, ReadTtl(c) PROVE AuditOK'
  <2> DEFINE b == ~cache.expires
  <2>1. /\ call' = [call EXCEPT ![c].stage = "set", ![c].withoutExpiry = b]
        /\ UNCHANGED service /\ call[c].stage # "done"
    BY <1>16 DEF ReadTtl, At
  <2> HIDE DEF b
  <2> QED BY <2>1, AuditKept DEF TypeOK, Progress
<1>17. ASSUME NEW c \in Calls, SetResponse(c) PROVE AuditOK'
  BY <1>17, AuditWays DEF SetResponse, At, Stages
<1>18. ASSUME NEW c \in Calls, SetExpiry(c) PROVE AuditOK'
  BY <1>18, AuditWays DEF SetExpiry, At, Stages
<1>19. ASSUME NEW c \in Calls, RedisFails(c) PROVE AuditOK'
  BY <1>19, AuditWays DEF RedisFails, At, Stages
<1>20. ASSUME NEW c \in Calls, Answer(c) PROVE AuditOK'
  <2> DEFINE a == IF call[c].request.replies THEN "success" ELSE "none"
  <2>1. /\ \/ call' = [call EXCEPT ![c].stage = "finally", ![c].answer = a]
           \/ Fail(c, "Error")
        /\ UNCHANGED service /\ call[c].stage # "done"
    BY <1>20 DEF Answer, At
  <2> HIDE DEF a
  <2>2. CASE call' = [call EXCEPT ![c].stage = "finally", ![c].answer = a]
    BY <2>1, <2>2, AuditKept DEF TypeOK, Progress
  <2> QED BY <2>1, <2>2, AuditWays
<1>21. ASSUME NEW c \in Calls, WriteAuditLog(c) PROVE AuditOK'
  <2>1. UNCHANGED service /\ call[c] \in Progress /\ call[c].stage = "finally"
    BY <1>21 DEF WriteAuditLog, TypeOK, At
  <2>2. ASSUME NEW d \in Calls \ {c}
        PROVE  /\ call'[d] = call[d] /\ IsAudited(d)' = IsAudited(d)
               /\ HeadersFail(d)' = HeadersFail(d)
    <3>1. call'[d] = call[d]
      BY <1>21 DEF WriteAuditLog, GoTo, TypeOK
    <3> QED BY <2>1, <3>1 DEF IsAudited, IsOfAccounts, HeadersFail, KnownVersion, LacksResponse
  <2>3. /\ call'[c].stage = "done" /\ call'[c].error = call[c].error
        /\ call'[c].request = call[c].request /\ call'[c].response = call[c].response
        /\ call'[c].userName = call[c].userName
        /\ call'[c].localTransactions = call[c].localTransactions
    BY <1>21, <2>1 DEF WriteAuditLog, GoTo, TypeOK, Progress
  <2>4. IsAudited(c)' = IsAudited(c) /\ HeadersFail(c)' = HeadersFail(c)
    BY <2>1, <2>3 DEF IsAudited, IsOfAccounts, HeadersFail, KnownVersion, LacksResponse
  <2>5. /\ call'[c].audit \in {"none", "success", "failure"}
        /\ call'[c].audit = "success" => call[c].error = "none"
        /\ call'[c].audit = "failure" => call[c].error # "none"
        /\ IsAudited(c) /\ call[c].error \in {"none", "HttpException"}
              => call'[c].audit # "none"
    BY <1>21, <2>1 DEF WriteAuditLog, GoTo, TypeOK, Progress, AuditOK
  <2>6. call[c].localTransactions > 0 /\ ~HeadersFail(c) => call[c].error \in {"none", "HttpException"}
    BY DEF ErrorsOK
  <2> QED BY <2>2, <2>3, <2>4, <2>5, <2>6 DEF AuditOK, At
<1>22. ASSUME NEW c \in Calls, Crash(c) PROVE AuditOK'
  BY <1>22, AuditWays DEF Crash, At, Stages
<1>23. CASE EntryExpires
  BY <1>23 DEF EntryExpires, AuditOK, At, IsAudited, IsOfAccounts, HeadersFail, KnownVersion,
               LacksResponse
<1> QED BY <1>1, <1>2, <1>3, <1>4, <1>5, <1>6, <1>7, <1>8, <1>9, <1>10, <1>11, <1>12,
           <1>13, <1>14, <1>15, <1>16, <1>17, <1>18, <1>19, <1>20, <1>21, <1>22, <1>23
        DEF Next

\* A step of a request that neither starts to store a response nor comes to SET or
\* EXPIRE, nor is at it, leaves the cache as it should be.
LEMMA QuietSteps ==
    ASSUME CacheOK, UNCHANGED <<service, cache, undisturbed>>,
           NEW c \in Calls, \A d \in Calls \ {c} : call'[d] = call[d],
           call[c].stage # "expire", call'[c].stage \notin {"set", "expire"},
           call'[c].stage = "ttl" => UsesCache(c)',
           Storing(c)' => Storing(c)
    PROVE  CacheOK'
<1> USE DEF CacheOK
<1>1. \A d \in Calls : Storing(d)' => Storing(d)
  BY DEF Storing, UsesCache
<1>2. \A d \in Calls : call'[d].stage \in {"ttl", "set", "expire"} => UsesCache(d)'
  BY DEF UsesCache
<1>3. undisturbed => UndisturbedEntriesExpire'
  BY DEF UndisturbedEntriesExpire, At
<1> QED BY <1>1, <1>2, <1>3 DEF At

\* A request that fails is one that is not at EXPIRE.
LEMMA FailIsQuiet ==
    ASSUME TypeOK, CacheOK, UNCHANGED <<service, cache, undisturbed>>,
           NEW c \in Calls, NEW e, Fail(c, e), call[c].stage # "expire"
    PROVE  CacheOK'
<1>1. PICK a \in {"none", "error"}, t \in BOOLEAN :
         call'[c] = [call[c] EXCEPT !.stage = "finally", !.error = e, !.answer = a,
                                    !.thrown = t]
  BY FailFacts DEF TypeOK
<1>2. \A d \in Calls \ {c} : call'[d] = call[d]
  BY FailFacts DEF TypeOK
<1>3. call'[c].stage = "finally"
  BY <1>1 DEF TypeOK, Progress
<1> QED BY <1>2, <1>3, QuietSteps DEF Storing

\* A request that misses while another may store disturbs; the one that sets the
\* response gives it an expiry.
LEMMA CacheStep ==
    ASSUME TypeOK, CacheOK, Next
    PROVE  CacheOK'
<1> USE DEF TypeOK, Progress, Stages, At, Storing, UsesCache
<1>1. ASSUME NEW c \in Calls, Receive(c) PROVE CacheOK'
  BY <1>1, QuietSteps DEF Receive
<1>2. ASSUME NEW c \in Calls, HandOn(c) PROVE CacheOK'
  BY <1>2, QuietSteps DEF HandOn, GoTo
<1>3. ASSUME NEW c \in Calls, AnswerShortcut(c) PROVE CacheOK'
  BY <1>3, QuietSteps DEF AnswerShortcut
<1>4. ASSUME NEW c \in Calls, RefuseName(c) PROVE CacheOK'
  BY <1>4, FailIsQuiet DEF RefuseName
<1>5. ASSUME NEW c \in Calls, VerifyCaptchaToken(c) PROVE CacheOK'
  BY <1>5, QuietSteps DEF VerifyCaptchaToken, GoTo, Fail
<1>6. ASSUME NEW c \in Calls, Authorize(c) PROVE CacheOK'
  BY <1>6, QuietSteps DEF Authorize, Fail
<1>7. ASSUME NEW c \in Calls, ValidateArgument(c) PROVE CacheOK'
  BY <1>7, QuietSteps DEF ValidateArgument, GoTo, Fail
<1>8. ASSUME NEW c \in Calls, LookUpResponse(c) PROVE CacheOK'
  <2>1. CASE /\ call' = [call EXCEPT ![c].stage = "answer", ![c].response = cache.response]
             /\ UNCHANGED undisturbed
    BY <1>8, <2>1, QuietSteps DEF LookUpResponse
  <2>2. CASE undisturbed' = (undisturbed /\ ~ \E d \in Calls : Storing(d)) /\ cache = NoEntry
    <3>1. call' = [call EXCEPT ![c].stage = "reserve"] /\ cache' = NoEntry
      BY <1>8, <2>2 DEF LookUpResponse, GoTo
    <3>2. \A d \in Calls : Storing(d)' => Storing(d) \/ d = c
      BY <1>8, <3>1 DEF LookUpResponse
    <3>3. \A d \in Calls : call'[d].stage \in {"ttl", "set", "expire"} => UsesCache(d)'
      BY <1>8, <3>1 DEF LookUpResponse, CacheOK
    <3>4. \A d \in Calls : call'[d].stage # "set" \/ call'[d] = call[d]
      BY <1>8, <3>1
    <3>5. undisturbed' => \A d \in Calls : ~Storing(d)
      BY <2>2
    <3>6. undisturbed' => \A d \in Calls : call'[d].stage # "set"
      BY <3>4, <3>5 DEF CacheOK
    <3> HIDE DEF Storing, UsesCache
    <3> QED BY <3>1, <3>2, <3>3, <3>5, <3>6 DEF CacheOK, UndisturbedEntriesExpire
  <2>3. CASE undisturbed' = FALSE
    BY <1>8, <2>3 DEF LookUpResponse, GoTo, CacheOK
  <2> QED BY <1>8, <2>1, <2>2, <2>3 DEF LookUpResponse
<1>9. ASSUME NEW c \in Calls, ReserveConnection(c) PROVE CacheOK'
  BY <1>9, QuietSteps DEF ReserveConnection, GoTo, Fail
<1>10. ASSUME NEW c \in Calls, ExecuteLocalTransaction(c) PROVE CacheOK'
  <2>1. PICK n \in {0, 1}, v \in Nat, b \in BOOLEAN :
           /\ call'[c] = [call[c] EXCEPT
                 !.response = v,
                 !.localTransactions = call[c].localTransactions + 1,
                 !.postHookCalls = call[c].postHookCalls + n,
                 !.operationAfterRemoteCall = b]
           /\ call' = [call EXCEPT ![c] = call'[c]]
    BY <1>10, StepFacts
  <2>2. \A d \in Calls \ {c} : call'[d] = call[d]
    BY <2>1
  <2>3. call'[c].stage = "run" /\ call[c].stage = "run" /\ call'[c].request = call[c].request
    BY <1>10, <2>1 DEF ExecuteLocalTransaction
  <2>4. UNCHANGED <<service, cache, undisturbed>>
    BY <1>10 DEF ExecuteLocalTransaction
  <2> QED BY <2>2, <2>3, <2>4, QuietSteps
<1>11. ASSUME NEW c \in Calls, CallRemoteService(c) PROVE CacheOK'
  BY <1>11, QuietSteps DEF CallRemoteService
<1>12. ASSUME NEW c \in Calls, ReturnFromFunction(c) PROVE CacheOK'
  BY <1>12, QuietSteps DEF ReturnFromFunction, GoTo
<1>13. ASSUME NEW c \in Calls, FailInFunction(c) PROVE CacheOK'
  BY <1>13, QuietSteps DEF FailInFunction, Fail
<1>14. ASSUME NEW c \in Calls, FetchFromRemoteServices(c) PROVE CacheOK'
  BY <1>14, QuietSteps DEF FetchFromRemoteServices, GoTo, Fail
<1>15. ASSUME NEW c \in Calls, ValidateReturnValue(c) PROVE CacheOK'
  BY <1>15, QuietSteps DEF ValidateReturnValue, GoTo, Fail, Prepare
<1>16. ASSUME NEW c \in Calls, ReadTtl(c) PROVE CacheOK'
  BY <1>16 DEF ReadTtl, CacheOK, UndisturbedEntriesExpire, NoEntry
<1>17. ASSUME NEW c \in Calls, SetResponse(c) PROVE CacheOK'
  <2>1. /\ UsesCache(c)
        /\ undisturbed => \A d \in Calls : Storing(d) => d = c
    BY <1>17 DEF SetResponse, CacheOK
  <2>2. \A d \in Calls \ {c} : call'[d] = call[d]
    BY <1>17, PrepareFacts DEF SetResponse, GoTo
  <2>3. undisturbed => At(c, "expire")' /\ call'[c].request = call[c].request
    BY <1>17 DEF SetResponse, CacheOK, GoTo
  <2>4. call'[c].stage \in {"ttl", "set", "expire"} => UsesCache(c)'
    BY <1>17, <2>1, PrepareFacts DEF SetResponse, GoTo
  <2> QED BY <1>17, <2>1, <2>2, <2>3, <2>4 DEF SetResponse, CacheOK, UndisturbedEntriesExpire
<1>18. ASSUME NEW c \in Calls, SetExpiry(c) PROVE CacheOK'
  <2>1. /\ UsesCache(c)
        /\ undisturbed => \A d \in Calls : Storing(d) => d = c
    BY <1>18 DEF SetExpiry, CacheOK
  <2>2. /\ \A d \in Calls \ {c} : call'[d] = call[d]
        /\ call'[c].stage \in {"answer", "finally"}
    BY <1>18, PrepareFacts DEF SetExpiry
  <2>3. cache' = NoEntry \/ cache'.expires
    <3>1. CASE cache = NoEntry
      <4>1. cache' = [cache EXCEPT !.expires = FALSE]
        BY <1>18, <3>1 DEF SetExpiry
      <4> QED BY <3>1, <4>1 DEF NoEntry
    <3>2. CASE cache # NoEntry
      BY <1>18, <3>2 DEF SetExpiry
    <3> QED BY <3>1, <3>2
  <2> QED BY <1>18, <2>1, <2>2, <2>3 DEF SetExpiry, CacheOK, UndisturbedEntriesExpire
<1>19. ASSUME NEW c \in Calls, RedisFails(c) PROVE CacheOK'
  <2>1. /\ call'[c].stage \in {"answer", "finally"}
        /\ \A d \in Calls \ {c} : call'[d] = call[d]
    BY <1>19, PrepareFacts DEF RedisFails
  <2> QED BY <1>19, <2>1 DEF RedisFails, CacheOK
<1>20. ASSUME NEW c \in Calls, Answer(c) PROVE CacheOK'
  BY <1>20, QuietSteps, FailIsQuiet DEF Answer
<1>21. ASSUME NEW c \in Calls, WriteAuditLog(c) PROVE CacheOK'
  BY <1>21, QuietSteps DEF WriteAuditLog, GoTo
<1>22. ASSUME NEW c \in Calls, Crash(c) PROVE CacheOK'
  BY <1>22 DEF Crash, GoTo, CacheOK, UndisturbedEntriesExpire, NoEntry
<1>23. CASE EntryExpires
  BY <1>23 DEF EntryExpires, CacheOK, UndisturbedEntriesExpire, NoEntry
<1> QED BY <1>1, <1>2, <1>3, <1>4, <1>5, <1>6, <1>7, <1>8, <1>9, <1>10, <1>11, <1>12,
           <1>13, <1>14, <1>15, <1>16, <1>17, <1>18, <1>19, <1>20, <1>21, <1>22, <1>23
        DEF Next

-----------------------------------------------------------------------------
\* The invariant is inductive.
LEMMA StepInv == Inv /\ [Next]_vars => Inv'
<1> SUFFICES ASSUME Inv, [Next]_vars PROVE Inv'
  OBVIOUS
<1>1. CASE Next
  BY <1>1, TypeStep, CountersStep, ErrorsStep, AuditStep, CacheStep DEF Inv
<1>2. CASE UNCHANGED vars
  BY <1>2 DEF Inv, vars, TypeOK, CountersOK, ErrorsOK, AuditOK, CacheOK, Steps, At, Storing,
              UsesCache, IsAudited, IsOfAccounts, UndisturbedEntriesExpire, NoEntry, HeadersFail,
              KnownVersion, LacksResponse
<1> QED BY <1>1, <1>2

(* The invariant holds in every reachable state.                             *)
THEOREM Invariance == Spec => []Inv
<1>1. Init => Inv
  BY InitInv
<1>2. Inv /\ [Next]_vars => Inv'
  BY StepInv
<1> QED BY <1>1, <1>2, PTL DEF Spec

(* Every variable has its type, whatever requests are received: a function   *)
(* never does more than MaxSteps, and what expires is an entry.              *)
THEOREM TypeCorrectness == Spec => []TypeOK
<1>1. Inv => TypeOK
  BY DEF Inv
<1> QED BY <1>1, Invariance, PTL

(* An entry without expiry belongs to a request that is about to set one, as *)
(* long as nothing fails and requests store one at a time, for any number of *)
(* requests.                                                                 *)
THEOREM EntriesExpire == Spec => []UndisturbedEntriesExpire
<1>1. Inv => UndisturbedEntriesExpire
  BY DEF Inv, CacheOK, UndisturbedEntriesExpire
<1> QED BY <1>1, Invariance, PTL

(* What a request has committed is in the audit log when it is over, and the *)
(* entry agrees with the answer, however often the function committed and    *)
(* whatever failed after it.                                                 *)
THEOREM CommitsAreAudited == Spec => []EffectsAreAudited
<1>1. Inv => EffectsAreAudited
  BY DEF Inv, AuditOK, ErrorsOK, EffectsAreAudited
<1> QED BY <1>1, Invariance, PTL
=============================================================================
