---------------------------- MODULE ServiceCalls ----------------------------
(***************************************************************************)
(* The way of a request through tryExecuteServiceMethod: what is checked   *)
(* before the service function runs, what is checked after it has          *)
(* committed, the response cache in Redis, the answer and the audit log.   *)
(*                                                                         *)
(* Requests meet in the database and in the cache: they run in the         *)
(* replicas of a service, each between one await and the next.  Multiple   *)
(* calls are only recognised here, module Transactions executes them, and  *)
(* what a local transaction does to connections is modelled there.         *)
(***************************************************************************)
EXTENDS Naturals, FiniteSets

CONSTANTS Calls,       \* requests
          PlainCalls,  \* bound: requests that only read with GET
          Services,    \* annotations of the service functions that are called
          MaxSteps,    \* bound: transactions and remote calls of a function
          NoVersion    \* no entity, no entry, no header

ASSUME PlainCallsAssumption == PlainCalls \subseteq Calls
ASSUME MaxStepsAssumption == MaxSteps \in Nat
ASSUME NoVersionAssumption == NoVersion \notin Nat

Access == {"clusterInternal", "everyUser", "userRole", "self", "tests"}

\* accounts: the service is the one of the user accounts; cached: the service
\* function is one whose responses shouldCacheServiceFunctionCallResponse.
\* textVersions: its responses have versions that are strings, which those of
\* entities are not; generatesHeaders: a response header is generated from them.
ASSUME ServicesAssumption ==
    \A s \in Services : /\ s.access \subseteq Access
                        /\ \A flag \in {"accounts", "cached", "development", "noTransaction",
                                        "noDistributedTransaction", "textVersions",
                                        "generatesHeaders"} : s[flag] \in BOOLEAN

VARIABLES service,      \* the service function that is called, and its service
          version,      \* version of the entity it reads and writes, as committed
          cache,        \* entry in Redis for its response
          call,         \* progress of each request
          undisturbed   \* history: Redis and the replicas never failed, and no two
                        \* requests looked up and stored a response at a time

vars == <<service, version, cache, call, undisturbed>>

NoEntry == [response |-> NoVersion, expires |-> FALSE]

-----------------------------------------------------------------------------
(* What a request asks for.                                                *)

\* The names that tryExecuteServiceMethod answers or hands on itself, those it
\* refuses, and the service function.
HandedOn == {"executeMultiple", "scheduleJobExecution"}
Shortcuts == {"getServicesMetadata", "isServiceAlive", "isServiceReady"}
Unknown == {"tooManyCalls", "unknownService"}
Unfit == {"notAllowedForGet", "unparsableArgument", "unknownFunction", "argumentNotAnObject"}
Names == HandedOn \cup Shortcuts \cup Unknown \cup Unfit \cup {"serviceFunction"}

\* get: with GET, and with the arguments and the headers of the others.
\* caller: whom the Authorization header names; "inside" has none, "unreadable"
\* has a token that does not verify.
\* user: how the argument says whose data it is about.
\* etag: the version in If-None-Match; replies: there is an object to answer with.
Callers == {"inside", "owner", "other", "privileged", "unreadable"}

Request(name, get, caller, user, etag, replies) ==
    [name |-> name, get |-> get, caller |-> caller, user |-> user, etag |-> etag,
     replies |-> replies]

OddRequests == {Request(n, n \in {"notAllowedForGet", "unparsableArgument"}, "inside",
                        "nobody", NoVersion, replies) :
                    n \in Names \ {"serviceFunction"}, replies \in BOOLEAN}
PlainRequests == {Request("serviceFunction", TRUE, "owner", "userName", e, TRUE) :
                      e \in {NoVersion, 0}}
\* Only the jobs of the service itself have nobody to answer.
FunctionRequests == {Request("serviceFunction", get, c, u, NoVersion, TRUE) :
                         get \in BOOLEAN, c \in Callers, u \in {"userName", "userId", "nobody"}}
                    \cup {Request("serviceFunction", FALSE, "inside", "nobody", NoVersion, FALSE)}
RequestsOf(c) == IF c \in PlainCalls THEN PlainRequests
                 ELSE OddRequests \cup PlainRequests \cup FunctionRequests

\* error: the class of what was thrown: an HttpException, a BackkError or
\* another Error.
Errors == {"HttpException", "BackkError", "Error"}

NotReceived ==
    [stage |-> "none", request |-> Request("none", FALSE, "inside", "nobody", NoVersion, FALSE),
     userName |-> FALSE, response |-> NoVersion, localTransactions |-> 0, remoteCalls |-> 0,
     postHookCalls |-> 0, operationAfterRemoteCall |-> FALSE, withoutExpiry |-> FALSE,
     error |-> "none", answer |-> "none", thrown |-> FALSE, audit |-> "none"]

At(c, stage) == call[c].stage = stage
GoTo(c, stage) == call' = [call EXCEPT ![c].stage = stage]

\* The catch block: an HttpException or a BackkError is answered if there is an
\* object to answer with, anything else is thrown to the caller.
Fail(c, error) ==
    LET answered == call[c].request.replies /\ error # "Error"
    IN call' = [call EXCEPT ![c].stage = "finally",
                            ![c].error = error,
                            ![c].answer = IF answered THEN "error" ELSE "none",
                            ![c].thrown = ~answered]

Init ==
    /\ service \in Services
    /\ version = 0
    /\ cache = NoEntry
    /\ call = [c \in Calls |-> NotReceived]
    /\ undisturbed = TRUE

-----------------------------------------------------------------------------
(* Before the service function is called.                                  *)

Receive(c) ==
    /\ At(c, "none")
    /\ \E r \in RequestsOf(c) :
          call' = [call EXCEPT ![c].stage = "received", ![c].request = r]
    /\ UNCHANGED <<service, version, cache, undisturbed>>

\* What other modules are about, and what is answered without a service.
HandOn(c) ==
    /\ At(c, "received")
    /\ call[c].request.name \in HandedOn
    /\ GoTo(c, "handedOn")
    /\ UNCHANGED <<service, version, cache, undisturbed>>

AnswerShortcut(c) ==
    /\ At(c, "received")
    /\ call[c].request.name \in Shortcuts
    /\ call' = [call EXCEPT ![c].stage = "finally",
                            ![c].answer = IF call[c].request.replies THEN "success" ELSE "none"]
    /\ UNCHANGED <<service, version, cache, undisturbed>>

RefuseName(c) ==
    /\ At(c, "received")
    /\ call[c].request.name \in Unknown \cup Unfit
    /\ Fail(c, IF call[c].request.name = "notAllowedForGet" THEN "Error" ELSE "BackkError")
    /\ UNCHANGED <<service, version, cache, undisturbed>>

VerifyCaptchaToken(c) ==
    /\ At(c, "received")
    /\ call[c].request.name = "serviceFunction"
    /\ \/ GoTo(c, "authorize")
       \/ \E error \in {"HttpException", "Error"} : Fail(c, error)
    /\ UNCHANGED <<service, version, cache, undisturbed>>

\* Whoever has a header is asked for it in this order: everybody, roles, self.
IsEveryUser(r) == r.caller # "inside" /\ "everyUser" \in service.access
HasUserRole(r) == r.caller = "privileged" /\ "userRole" \in service.access

\* The name of a user given by id is asked for with getUserNameById(userId), which
\* takes an object: it finds nobody, and nobody has the same identity.
IsSelf(r) == r.caller = "owner" /\ "self" \in service.access /\ r.user = "userName"

InDevelopment == service.development /\ service.access \cap {"tests", "clusterInternal"} # {}

Allowed(r) ==
    \/ r.caller = "inside" /\ "clusterInternal" \in service.access
    \/ IsEveryUser(r) \/ HasUserRole(r) \/ IsSelf(r)
    \/ InDevelopment

CannotAuthorize(r) ==
    /\ r.caller # "inside" /\ ~IsEveryUser(r) /\ ~HasUserRole(r)
    /\ \/ r.caller = "unreadable"
       \/ "self" \in service.access /\ r.user = "nobody"

Authorize(c) ==
    LET r == call[c].request
    IN /\ At(c, "authorize")
       /\ \/ /\ CannotAuthorize(r)
             /\ Fail(c, "Error")
          \/ /\ ~CannotAuthorize(r) /\ Allowed(r)
             /\ call' = [call EXCEPT ![c].stage = "validate",
                                     ![c].userName = IsSelf(r) /\ ~IsEveryUser(r)]
          \/ /\ ~CannotAuthorize(r) /\ ~Allowed(r)
             /\ Fail(c, "HttpException")
       /\ UNCHANGED <<service, version, cache, undisturbed>>

UsesCache(c) == call[c].request.get /\ service.cached

ValidateArgument(c) ==
    /\ At(c, "validate")
    /\ \/ GoTo(c, IF UsesCache(c) THEN "lookUp" ELSE "reserve")
       \/ Fail(c, "HttpException")
    /\ UNCHANGED <<service, version, cache, undisturbed>>

\* A request has looked the response up, and may store one.
Storing(c) == UsesCache(c) /\ call[c].stage \in {"reserve", "run", "fetch", "check",
                                                 "ttl", "set", "expire"}

\* A command to Redis that fails is logged and forgotten.
LookUpResponse(c) ==
    /\ At(c, "lookUp")
    /\ \/ /\ cache # NoEntry
          /\ call' = [call EXCEPT ![c].stage = "answer", ![c].response = cache.response]
          /\ UNCHANGED undisturbed
       \/ /\ cache = NoEntry
          /\ GoTo(c, "reserve")
          /\ undisturbed' = (undisturbed /\ ~ \E d \in Calls : Storing(d))
       \/ /\ GoTo(c, "reserve")
          /\ undisturbed' = FALSE
    /\ UNCHANGED <<service, version, cache>>

-----------------------------------------------------------------------------
(* The service function, in its own continuation-local storage.            *)

ReserveConnection(c) ==
    /\ At(c, "reserve")
    /\ \/ GoTo(c, "run")
       \/ Fail(c, "HttpException")
    /\ UNCHANGED <<service, version, cache, undisturbed>>

Steps(c) == call[c].localTransactions + call[c].remoteCalls

\* A local transaction that commits, with what it sends in its post-hook.  The
\* functions called with GET read.
ExecuteLocalTransaction(c) ==
    /\ At(c, "run")
    /\ Steps(c) < MaxSteps
    /\ version' = IF call[c].request.get THEN version ELSE version + 1
    /\ \E sends \in 0 .. 1 :
          call' = [call EXCEPT ![c].response = version',
                               ![c].localTransactions = @ + 1,
                               ![c].postHookCalls = @ + sends,
                               ![c].operationAfterRemoteCall = @ \/ call[c].remoteCalls > 0]
    /\ UNCHANGED <<service, cache, undisturbed>>

\* callRemoteService, or a message outside a post-hook.
CallRemoteService(c) ==
    /\ At(c, "run")
    /\ Steps(c) < MaxSteps
    /\ call' = [call EXCEPT ![c].remoteCalls = @ + 1]
    /\ UNCHANGED <<service, version, cache, undisturbed>>

\* What tryExecuteServiceMethod does not let a function have done.
HasNoTransaction(c) ==
    \/ call[c].localTransactions > 1 /\ call[c].remoteCalls = 0
    \/ call[c].localTransactions >= 1 /\ call[c].remoteCalls = 1

NeedsDistributedTransaction(c) ==
    \/ call[c].remoteCalls > 1
    \/ call[c].postHookCalls > 1
    \/ call[c].operationAfterRemoteCall

ChecksFail(c) ==
    \/ HasNoTransaction(c) /\ ~service.noTransaction
    \/ NeedsDistributedTransaction(c) /\ ~service.noDistributedTransaction

\* With a response, or with null.
ReturnFromFunction(c) ==
    /\ At(c, "run")
    /\ ~ChecksFail(c)
    /\ \/ call[c].response # NoVersion /\ GoTo(c, "fetch")
       \/ call' = [call EXCEPT ![c].stage = "answer", ![c].response = NoVersion]
    /\ UNCHANGED <<service, version, cache, undisturbed>>

\* It returned an error or threw, or a check found what it has already done.
FailInFunction(c) ==
    /\ At(c, "run")
    /\ Fail(c, "HttpException")
    /\ UNCHANGED <<service, version, cache, undisturbed>>

-----------------------------------------------------------------------------
(* After it: what it did is committed.                                     *)

\* Mutant: the error itself is thrown, not an HttpException.
FetchFailsWithItsError(c) ==
    /\ At(c, "fetch")
    /\ GoTo(c, "check") \/ Fail(c, "BackkError")
    /\ UNCHANGED <<service, version, cache, undisturbed>>

FetchFromRemoteServices(c) ==
    /\ At(c, "fetch")
    /\ \/ GoTo(c, "check")
       \/ Fail(c, "HttpException")
    /\ UNCHANGED <<service, version, cache, undisturbed>>

\* The header If-None-Match is a string, and never equal to a number.
KnownVersion(c) ==
    /\ service.textVersions
    /\ call[c].request.etag # NoVersion
    /\ call[c].response = call[c].request.etag

\* A response with the version that the client knows is replaced by null, and then
\* asked for its version, for the ETag of the answer.
Prepare(c) ==
    \/ ~KnownVersion(c) /\ GoTo(c, "answer")
    \/ KnownVersion(c) /\ Fail(c, "Error")

ValidateReturnValue(c) ==
    /\ At(c, "check")
    /\ \/ UsesCache(c) /\ GoTo(c, "ttl")
       \/ ~UsesCache(c) /\ Prepare(c)
       \/ Fail(c, "HttpException")
    /\ UNCHANGED <<service, version, cache, undisturbed>>

\* Mutant: the answer to TTL is misread.
ReadTtlInverted(c) ==
    /\ At(c, "ttl")
    /\ call' = [call EXCEPT ![c].stage = "set", ![c].withoutExpiry = cache.expires]
    /\ UNCHANGED <<service, version, cache, undisturbed>>

\* Storing the response is three commands: TTL, SET, which takes the expiry of an
\* entry away, and EXPIRE if TTL had said there was none.
ReadTtl(c) ==
    /\ At(c, "ttl")
    /\ call' = [call EXCEPT ![c].stage = "set", ![c].withoutExpiry = ~cache.expires]
    /\ UNCHANGED <<service, version, cache, undisturbed>>

SetResponse(c) ==
    /\ At(c, "set")
    /\ cache' = [response |-> call[c].response, expires |-> FALSE]
    /\ IF call[c].withoutExpiry THEN GoTo(c, "expire") ELSE Prepare(c)
    /\ UNCHANGED <<service, version, undisturbed>>

\* Mutant: an expiry is assumed to be set on an entry that is gone.
SetExpiryOfAnything(c) ==
    /\ At(c, "expire")
    /\ cache' = [cache EXCEPT !.expires = TRUE]
    /\ Prepare(c)
    /\ UNCHANGED <<service, version, undisturbed>>

SetExpiry(c) ==
    /\ At(c, "expire")
    /\ cache' = [cache EXCEPT !.expires = (cache # NoEntry)]
    /\ Prepare(c)
    /\ UNCHANGED <<service, version, undisturbed>>

RedisFails(c) ==
    /\ call[c].stage \in {"ttl", "set", "expire"}
    /\ Prepare(c)
    /\ undisturbed' = FALSE
    /\ UNCHANGED <<service, version, cache>>

\* The generator of a response header takes the response apart.
LacksResponse(c) == service.generatesHeaders /\ call[c].response = NoVersion

Answer(c) ==
    /\ At(c, "answer")
    /\ \/ /\ ~LacksResponse(c)
          /\ call' = [call EXCEPT ![c].stage = "finally",
                         ![c].answer = IF call[c].request.replies THEN "success" ELSE "none"]
       \/ LacksResponse(c) /\ Fail(c, "Error")
    /\ UNCHANGED <<service, version, cache, undisturbed>>

-----------------------------------------------------------------------------
(* The finally block, Redis and crashes.                                   *)

IsOfAccounts(c) == service.accounts /\ call[c].request.name \in Unfit \cup {"serviceFunction"}

IsAudited(c) == IsOfAccounts(c) \/ call[c].userName

\* The status of the stored error is that of an HttpException: other errors have
\* no getStatus, and a TypeError takes the place of the entry.
WriteAuditLog(c) ==
    LET error == call[c].error
    IN /\ At(c, "finally")
       /\ \/ /\ IsAudited(c) /\ error \in {"none", "HttpException"}
             /\ call' = [call EXCEPT ![c].stage = "done",
                                     ![c].audit = IF error = "none" THEN "success" ELSE "failure"]
          \/ /\ IsAudited(c) /\ error \in {"BackkError", "Error"}
             /\ call' = [call EXCEPT ![c].stage = "done", ![c].thrown = TRUE]
          \/ ~IsAudited(c) /\ GoTo(c, "done")
       /\ UNCHANGED <<service, version, cache, undisturbed>>

\* The replica that executes the request.
Crash(c) ==
    /\ call[c].stage \notin {"none", "handedOn", "done", "crashed"}
    /\ GoTo(c, "crashed")
    /\ undisturbed' = FALSE
    /\ UNCHANGED <<service, version, cache>>

EntryExpires ==
    /\ cache.expires
    /\ cache' = NoEntry
    /\ UNCHANGED <<service, version, call, undisturbed>>

Next ==
    \/ \E c \in Calls :
          \/ Receive(c) \/ HandOn(c) \/ AnswerShortcut(c) \/ RefuseName(c)
          \/ VerifyCaptchaToken(c) \/ Authorize(c) \/ ValidateArgument(c) \/ LookUpResponse(c)
          \/ ReserveConnection(c) \/ ExecuteLocalTransaction(c) \/ CallRemoteService(c)
          \/ ReturnFromFunction(c) \/ FailInFunction(c)
          \/ FetchFromRemoteServices(c) \/ ValidateReturnValue(c)
          \/ ReadTtl(c) \/ SetResponse(c) \/ SetExpiry(c) \/ RedisFails(c)
          \/ Answer(c) \/ WriteAuditLog(c) \/ Crash(c)
    \/ EntryExpires

Spec == Init /\ [][Next]_vars

-----------------------------------------------------------------------------
Stages == {"none", "received", "handedOn", "authorize", "validate", "lookUp", "reserve", "run",
           "fetch", "check", "ttl", "set", "expire", "answer", "finally", "done", "crashed"}

Versions == Nat \cup {NoVersion}

Progress ==
    [stage : Stages,
     request : [name : Names \cup {"none"}, get : BOOLEAN, caller : Callers,
                user : {"userName", "userId", "nobody"}, etag : Versions, replies : BOOLEAN],
     userName : BOOLEAN, response : Versions, localTransactions : 0 .. MaxSteps,
     remoteCalls : 0 .. MaxSteps, postHookCalls : 0 .. MaxSteps,
     operationAfterRemoteCall : BOOLEAN, withoutExpiry : BOOLEAN,
     error : Errors \cup {"none"}, answer : {"none", "success", "error"}, thrown : BOOLEAN,
     audit : {"none", "success", "failure"}]

(* Every variable has its type: tryExecuteServiceMethod never does more than *)
(* MaxSteps of what a function does, and an entry that expires is one.       *)
TypeOK ==
    /\ service \in Services
    /\ version \in Nat
    /\ cache \in [response : Versions, expires : BOOLEAN]
    /\ cache.expires => cache.response # NoVersion
    /\ call \in [Calls -> Progress]
    /\ undisturbed \in BOOLEAN

(* While Redis and the replicas work and requests store one response at a    *)
(* time, an entry without expiry belongs to a request that is about to give  *)
(* it one: the TTL, SET and EXPIRE of tryExecuteServiceMethod leave no       *)
(* response in the cache for ever.                                           *)
UndisturbedEntriesExpire ==
    undisturbed /\ cache # NoEntry /\ ~cache.expires => \E c \in Calls : At(c, "expire")

\* What the headers of the answer are made from makes it fail.
HeadersFail(c) == KnownVersion(c) \/ LacksResponse(c)

(* What a request to the user accounts, or one about the caller's own data,  *)
(* has committed is in the audit log when the request is over, whatever      *)
(* failed after the commit but the headers of the answer, and the entry says *)
(* what the caller was told.                                                 *)
EffectsAreAudited ==
    \A c \in Calls :
       /\ At(c, "done") /\ IsAudited(c) /\ call[c].localTransactions > 0 /\ ~HeadersFail(c)
             => call[c].audit # "none"
       /\ call[c].audit = "success" => call[c].answer # "error" /\ ~call[c].thrown
       /\ call[c].audit = "failure" => call[c].answer # "success"

=============================================================================
