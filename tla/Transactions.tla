---------------------------- MODULE Transactions ----------------------------
(***************************************************************************)
(* Connections, transactions and the flags that tie them together while a  *)
(* service executes single and multiple service function calls             *)
(* (AbstractSqlDbManager, tryExecuteServiceMethod,                         *)
(* executeMultipleServiceFunctions).                                       *)
(*                                                                         *)
(* A service function is what the framework sees of it: database           *)
(* operations, calls of executeInsideTransaction, a result or an           *)
(* exception, in any order, except that an error it got is the one it      *)
(* returns.  An operation is one statement or two that run in parallel     *)
(* (forEachAsyncParallel, Promise.all); when one of them fails the other   *)
(* is not awaited.  A call ends here with the pair of its response and its *)
(* error; what becomes of a response afterwards is not part of this module.*)
(***************************************************************************)
EXTENDS Naturals, FiniteSets

CONSTANTS Calls,          \* requests
          Connections,    \* connections the pool, or the server, can hold
          NoConnection,   \* connection of a call that has none
          SimpleCalls,    \* bound: requests of one operation, which call a remote
                          \* service at most once, in a post-hook
          MaxOperations,  \* bound: operations of another single call; a function
                          \* of a multiple call has one, of one statement
          MaxBlocks       \* bound: outermost executeInsideTransaction of a
                          \* function; one of a single call has one within

ASSUME ConnectionAssumption == NoConnection \notin Connections
ASSUME SimpleCallsAssumption == SimpleCalls \subseteq Calls
ASSUME BoundsAssumption ==
    /\ MaxOperations \in Nat \ {0}
    /\ MaxBlocks \in Nat

VARIABLES
    pooled,      \* PostgreSQL: connections go back to a pool; MySQL: they are
                 \* created for a request and destroyed
    kind,        \* what a request asks for
    stage,       \* how far it is
    connection,  \* connection in its continuation-local storage
    flags,       \* the flags set there
    function,    \* function[c][f]: the f-th service function of request c
    idle,        \* connections nobody has reserved
    session,     \* session[k]: transaction of connection k, with its writes
    committed,   \* writes that others see
    issued       \* statements that were executed, for the properties

requestVars == <<kind, stage>>
databaseVars == <<session, committed, issued>>
vars == <<pooled, requestVars, connection, flags, function, idle, databaseVars>>

-----------------------------------------------------------------------------
(* Requests.                                                               *)

InSequence == {"sequenceInside", "sequenceWithout"}
InParallel == {"parallelInside", "parallelWithout"}
InsideTransaction == {"sequenceInside", "parallelInside"}
Multiple == InSequence \cup InParallel
Kinds == {"single"} \cup Multiple

Functions == {1, 2}
FunctionsOf(c) == IF kind[c] = "single" THEN {1} ELSE Functions
Parts == {1, 2}

\* multipleConnection and multipleTransaction are 'connection' and
\* 'globalTransaction' in the namespace of multiple calls, the other two are
\* in that of a call.  Calls within a multiple call inherit them.
Flags == {"multipleConnection", "multipleTransaction",
          "globalTransaction", "localTransaction"}
TransactionFlags == Flags \ {"multipleConnection"}

\* A statement: op-th operation of the function, in its block-th transaction
\* (0: in none); late if its operation had failed before.
Writes == [call : Calls, fn : Functions, op : 1 .. MaxOperations, part : Parts,
           block : 0 .. MaxBlocks, late : BOOLEAN]

Progress == [pc : {"none", "body", "operation", "ok", "error", "threw"},
             depth : 0 .. 2,               \* executeInsideTransaction it is in
             blocks : 0 .. MaxBlocks,      \* outermost ones so far
             nested : BOOLEAN,             \* one was within another
             operations : 0 .. MaxOperations,
             started : BOOLEAN,            \* didStartTransaction of the operation
             todo : SUBSET Parts,          \* statements to execute
             late : SUBSET Parts,          \* those of an operation that has failed
             failed : BOOLEAN,             \* an operation returned an error
             remote : BOOLEAN,             \* it called remote services, other than
                                           \* once from a post-hook
             localCount : 0 .. MaxOperations]   \* dbLocalTransactionCount

NotStarted ==
    [pc |-> "none", depth |-> 0, blocks |-> 0, nested |-> FALSE,
     operations |-> 0, started |-> FALSE, todo |-> {}, late |-> {},
     failed |-> FALSE, remote |-> FALSE, localCount |-> 0]

Closed == [tx |-> "none", writes |-> {}]

TypeOK ==
    /\ pooled \in BOOLEAN
    /\ kind \in [Calls -> Kinds \cup {"none"}]
    /\ stage \in [Calls -> {"new", "reserving", "running", "broken", "ended"}]
    /\ connection \in [Calls -> Connections \cup {NoConnection}]
    /\ flags \in [Calls -> SUBSET Flags]
    /\ function \in [Calls -> [Functions -> Progress]]
    /\ idle \subseteq Connections
    /\ session \in [Connections -> [tx : {"none", "open", "aborted"},
                                    writes : SUBSET Writes]]
    /\ committed \subseteq Writes
    /\ issued \subseteq Writes

Init ==
    /\ pooled \in BOOLEAN
    /\ kind = [c \in Calls |-> "none"]
    /\ stage = [c \in Calls |-> "new"]
    /\ connection = [c \in Calls |-> NoConnection]
    /\ flags = [c \in Calls |-> {}]
    /\ function = [c \in Calls |-> [f \in Functions |-> NotStarted]]
    /\ idle = Connections
    /\ session = [k \in Connections |-> Closed]
    /\ committed = {}
    /\ issued = {}

-----------------------------------------------------------------------------
(* The database.  A BEGIN within a transaction is ignored by PostgreSQL    *)
(* and ends the transaction first with MySQL; a failed statement makes a   *)
(* PostgreSQL transaction useless, so that its COMMIT rolls back.          *)

BeginTransaction(k) ==
    LET implicitCommit == ~pooled IN
    /\ committed' = IF implicitCommit THEN committed \cup session[k].writes
                    ELSE committed
    /\ session' = IF implicitCommit \/ session[k].tx = "none"
                  THEN [session EXCEPT ![k] = [tx |-> "open", writes |-> {}]]
                  ELSE session
    /\ UNCHANGED issued

Commit(k) ==
    /\ committed' = IF session[k].tx = "open" THEN committed \cup session[k].writes
                    ELSE committed
    /\ session' = [session EXCEPT ![k] = Closed]
    /\ UNCHANGED issued

Rollback(k) ==
    /\ session' = [session EXCEPT ![k] = Closed]
    /\ UNCHANGED <<committed, issued>>

\* A statement is part of the transaction or commits by itself.
Execute(k, w) ==
    /\ session[k].tx # "aborted"
    /\ issued' = issued \cup {w}
    /\ IF session[k].tx = "open"
       THEN /\ session' = [session EXCEPT ![k].writes = @ \cup {w}]
            /\ UNCHANGED committed
       ELSE /\ committed' = committed \cup {w}
            /\ UNCHANGED session

\* A failing statement of a transaction that is not rolled back by its operation.
AbortIn(k) ==
    /\ session[k].tx = "open" /\ pooled
    /\ session' = [session EXCEPT ![k].tx = "aborted"]
    /\ UNCHANGED <<committed, issued>>

-----------------------------------------------------------------------------
(* Requests and connections.                                               *)

Arrive(c) ==
    /\ stage[c] = "new"
    /\ \E kd \in {"single"} \cup (IF c \in SimpleCalls THEN {} ELSE Multiple) :
          kind' = [kind EXCEPT ![c] = kd]
    /\ stage' = [stage EXCEPT ![c] = "reserving"]
    /\ UNCHANGED <<connection, flags, function, idle, databaseVars>>

\* tryReserveDbConnectionFromPool of a request, and the BEGIN and the flags of
\* a multiple call: without a transaction it sets the flag all the same.
Reserve(c) ==
    /\ stage[c] = "reserving"
    /\ stage' = [stage EXCEPT ![c] = "running"]
    /\ \E k \in idle :
          /\ idle' = idle \ {k}
          /\ connection' = [connection EXCEPT ![c] = k]
          /\ IF kind[c] \in InsideTransaction THEN BeginTransaction(k)
             ELSE UNCHANGED databaseVars
    /\ flags' = [flags EXCEPT ![c] =
                    CASE kind[c] = "single" -> {}
                      [] kind[c] \in InsideTransaction ->
                            {"multipleConnection", "multipleTransaction",
                             "globalTransaction"}
                      [] OTHER -> {"multipleConnection", "multipleTransaction"}]
    /\ UNCHANGED <<kind, function>>

\* Mutant: the clean-up releases a connection that was never reserved.
ReserveFailsAndReleases(c) ==
    /\ stage[c] = "reserving"
    /\ stage' = [stage EXCEPT ![c] = "ended"]
    /\ idle' = idle \cup {connection[c]}
    /\ UNCHANGED <<kind, connection, flags, function, databaseVars>>

\* There is no connection to be had: a single call answers the error, a
\* multiple one throws it.
ReserveFails(c) ==
    /\ stage[c] = "reserving"
    /\ stage' = [stage EXCEPT ![c] = "ended"]
    /\ function' = [function EXCEPT ![c][1].pc =
                       IF kind[c] = "single" THEN "error" ELSE @]
    /\ UNCHANGED <<kind, connection, flags, idle, databaseVars>>

\* BEGIN fails on a broken connection, whose transaction is lost.  The
\* executable of the multiple call is not executed, the connection is kept.
BeginMultipleFails(c) ==
    /\ stage[c] = "reserving" /\ kind[c] \in InsideTransaction
    /\ stage' = [stage EXCEPT ![c] = "ended"]
    /\ \E k \in idle :
          /\ idle' = idle \ {k}
          /\ connection' = [connection EXCEPT ![c] = k]
          /\ Rollback(k)
    /\ UNCHANGED <<kind, flags, function>>

CanStart(c, f) ==
    /\ f \in FunctionsOf(c)
    /\ function[c][f].pc = "none"
    /\ \/ stage[c] = "running"
       \/ stage[c] = "broken" /\ kind[c] \in InParallel
    /\ f = 2 /\ kind[c] \in InSequence => function[c][1].pc = "ok"

StartFunction(c, f) ==
    /\ CanStart(c, f)
    /\ function' = [function EXCEPT ![c][f].pc = "body"]
    /\ UNCHANGED <<requestVars, connection, flags, idle, databaseVars>>

\* Mutant: the released connection stays in the namespace of the request.
ReleaseKeepingTheConnection(c) ==
    /\ idle' = idle \cup {connection[c]}
    /\ UNCHANGED connection
    /\ IF pooled THEN UNCHANGED databaseVars ELSE Rollback(connection[c])

\* tryReleaseDbConnectionBackToPool when no multiple call has the connection:
\* the pool takes it as it is, MySQL's is destroyed and its transaction with it.
Release(c) ==
    LET k == connection[c] IN
    /\ idle' = idle \cup {k}
    /\ connection' = [connection EXCEPT ![c] = NoConnection]
    /\ IF pooled THEN UNCHANGED databaseVars ELSE Rollback(k)

-----------------------------------------------------------------------------
(* Operations.                                                             *)

Active(c, f) == function[c][f].pc = "body" /\ ~function[c][f].failed

Bound(c, single) == IF kind[c] = "single" /\ c \notin SimpleCalls THEN single ELSE 1

MayOperate(c, f) == function[c][f].operations < Bound(c, MaxOperations)

\* Mutant: only a local transaction is looked for.
NeedsTransactionUnlessLocal(c) == "localTransaction" \notin flags[c]

NeedsTransaction(c) == flags[c] \cap TransactionFlags = {}

\* Every operation begins with tryStartLocalTransactionIfNeeded.
StartOperation(c, f) ==
    /\ Active(c, f)
    /\ MayOperate(c, f)
    /\ \E parts \in {1 .. n : n \in 1 .. Bound(c, 2)} :
          function' = [function EXCEPT ![c][f] =
              [function[c][f] EXCEPT !.pc = "operation",
                                     !.todo = parts,
                                     !.operations = @ + 1,
                                     !.started = NeedsTransaction(c),
                                     !.localCount = IF NeedsTransaction(c) THEN @ + 1 ELSE @]]
    /\ IF NeedsTransaction(c)
       THEN /\ BeginTransaction(connection[c])
            /\ flags' = [flags EXCEPT ![c] = @ \cup {"localTransaction"}]
       ELSE UNCHANGED <<flags, databaseVars>>
    /\ UNCHANGED <<requestVars, connection, idle>>

WriteOf(c, f, p, isLate) ==
    LET g == function[c][f] IN
    [call |-> c, fn |-> f, op |-> g.operations, part |-> p,
     block |-> IF g.depth = 0 THEN 0 ELSE g.blocks, late |-> isLate]

Statement(c, f, p) ==
    /\ function[c][f].pc = "operation"
    /\ p \in function[c][f].todo
    /\ Execute(connection[c], WriteOf(c, f, p, FALSE))
    /\ function' = [function EXCEPT ![c][f].todo = @ \ {p}]
    /\ UNCHANGED <<requestVars, connection, flags, idle>>

\* Mutant: the transaction is cleaned up but not committed.
OperationSucceedsUncommitted(c, f) ==
    /\ function[c][f].pc = "operation"
    /\ function[c][f].todo = {}
    /\ function' = [function EXCEPT ![c][f] =
                       [function[c][f] EXCEPT !.pc = "body", !.started = FALSE]]
    /\ flags' = [flags EXCEPT ![c] = IF function[c][f].started
                                     THEN @ \ {"localTransaction"} ELSE @]
    /\ UNCHANGED <<requestVars, connection, idle, databaseVars>>

\* tryCommitLocalTransactionIfNeeded, cleanupLocalTransactionIfNeeded.
OperationSucceeds(c, f) ==
    /\ function[c][f].pc = "operation"
    /\ function[c][f].todo = {}
    /\ function' = [function EXCEPT ![c][f] =
                       [function[c][f] EXCEPT !.pc = "body", !.started = FALSE]]
    /\ IF function[c][f].started
       THEN /\ Commit(connection[c])
            /\ flags' = [flags EXCEPT ![c] = @ \ {"localTransaction"}]
       ELSE UNCHANGED <<flags, databaseVars>>
    /\ UNCHANGED <<requestVars, connection, idle>>

\* A statement or a hook fails.  What ran beside it is not awaited before the
\* ROLLBACK of tryRollbackLocalTransactionIfNeeded.
OperationFails(c, f) ==
    /\ function[c][f].pc = "operation"
    /\ \E rest \in {function[c][f].todo \ {p} : p \in Parts} :
          function' = [function EXCEPT ![c][f] =
              [function[c][f] EXCEPT !.pc = "body", !.started = FALSE, !.todo = {},
                                     !.late = rest, !.failed = TRUE]]
    /\ IF function[c][f].started
       THEN /\ Rollback(connection[c])
            /\ flags' = [flags EXCEPT ![c] = @ \ {"localTransaction"}]
       ELSE /\ AbortIn(connection[c]) \/ UNCHANGED databaseVars
            /\ UNCHANGED flags
    /\ UNCHANGED <<requestVars, connection, idle>>

\* A statement of an operation that has failed; once its request has released
\* the connection there is none to execute it with.
LateStatement(c, f, p) ==
    /\ p \in function[c][f].late
    /\ connection[c] # NoConnection
    /\ Execute(connection[c], WriteOf(c, f, p, TRUE))
    /\ function' = [function EXCEPT ![c][f].late = @ \ {p}]
    /\ UNCHANGED <<requestVars, connection, flags, idle>>

\* getEntityByFilters with a hook finds nothing and returns the error without
\* ending the transaction it has started.
ReadAbandonsTransaction(c, f) ==
    /\ Active(c, f)
    /\ MayOperate(c, f)
    /\ NeedsTransaction(c)
    /\ BeginTransaction(connection[c])
    /\ function' = [function EXCEPT ![c][f] =
                       [function[c][f] EXCEPT !.operations = @ + 1, !.localCount = @ + 1,
                                              !.failed = TRUE]]
    /\ UNCHANGED <<requestVars, connection, flags, idle>>

-----------------------------------------------------------------------------
(* executeInsideTransaction.                                               *)

\* Within a multiple call the executable is just called.
JoinsMultiple(c) == "multipleTransaction" \in flags[c]

CanEnter(c, f) ==
    /\ Active(c, f)
    /\ c \notin SimpleCalls
    /\ IF function[c][f].depth = 0 THEN function[c][f].blocks < MaxBlocks
       ELSE kind[c] = "single" /\ ~function[c][f].nested

BlocksEntered(g) == IF g.depth = 0 THEN g.blocks + 1 ELSE g.blocks

EnterTransaction(c, f) ==
    LET g == function[c][f] IN
    /\ CanEnter(c, f)
    /\ function' = [function EXCEPT ![c][f] =
                       [g EXCEPT !.depth = @ + 1,
                                 !.blocks = BlocksEntered(g),
                                 !.nested = @ \/ g.depth > 0]]
    /\ IF JoinsMultiple(c) THEN UNCHANGED <<flags, databaseVars>>
       ELSE /\ flags' = [flags EXCEPT ![c] = @ \cup {"globalTransaction"}]
            /\ BeginTransaction(connection[c])
    /\ UNCHANGED <<requestVars, connection, idle>>

\* BEGIN fails: the error is returned, the flag stays set.
EnterFails(c, f) ==
    /\ CanEnter(c, f)
    /\ ~JoinsMultiple(c)
    /\ flags' = [flags EXCEPT ![c] = @ \cup {"globalTransaction"}]
    /\ function' = [function EXCEPT ![c][f] =
                       [function[c][f] EXCEPT !.failed = TRUE,
                                              !.blocks = BlocksEntered(function[c][f])]]
    /\ Rollback(connection[c])
    /\ UNCHANGED <<requestVars, connection, idle>>

\* Mutant: the error of the executable is not looked at.
LeaveTransactionCommitting(c, f) ==
    /\ function[c][f].pc = "body"
    /\ function[c][f].depth > 0
    /\ function' = [function EXCEPT ![c][f].depth = @ - 1]
    /\ IF JoinsMultiple(c) THEN UNCHANGED <<flags, databaseVars>>
       ELSE /\ flags' = [flags EXCEPT ![c] = @ \ {"globalTransaction"}]
            /\ Commit(connection[c])
    /\ UNCHANGED <<requestVars, connection, idle>>

LeaveTransaction(c, f) ==
    /\ function[c][f].pc = "body"
    /\ function[c][f].depth > 0
    /\ function' = [function EXCEPT ![c][f].depth = @ - 1]
    /\ IF JoinsMultiple(c) THEN UNCHANGED <<flags, databaseVars>>
       ELSE /\ flags' = [flags EXCEPT ![c] = @ \ {"globalTransaction"}]
            /\ IF function[c][f].failed THEN Rollback(connection[c])
               ELSE Commit(connection[c])
    /\ UNCHANGED <<requestVars, connection, idle>>

CommitFails(c, f) ==
    /\ Active(c, f)
    /\ function[c][f].depth > 0
    /\ ~JoinsMultiple(c)
    /\ function' = [function EXCEPT ![c][f] =
                       [function[c][f] EXCEPT !.depth = @ - 1, !.failed = TRUE]]
    /\ Rollback(connection[c])
    /\ UNCHANGED <<requestVars, connection, flags, idle>>

-----------------------------------------------------------------------------
(* The end of a service function and of a request.                         *)

\* The remote service calls a function has made, which change nothing here: those
\* of its body and those of post-hooks of its operations (2 is more than one), and
\* whether an operation came after one.
RemoteCalls == [made : 0 .. 2, inPostHooks : 0 .. 2, operationAfter : BOOLEAN]
PossibleRemoteCalls(c, g) ==
    {r \in RemoteCalls : /\ g.operations = 0 => r.inPostHooks = 0 /\ ~r.operationAfter
                         /\ r.operationAfter => r.made > 0
                         /\ c \in SimpleCalls => r.made = 0 /\ r.inPostHooks <= 1}

\* The checks after the call, each of which makes an error of a result, whatever
\* has been committed, unless the function is annotated: several operations outside
\* a transaction, one with a remote call, several remote calls, and an operation
\* after a remote call.
FailsCheck(g, remote, isNonTransactional, isNonDistributedTransactional) ==
    \/ /\ ~isNonTransactional
       /\ \/ g.localCount > 1 /\ remote.made = 0
          \/ g.localCount >= 1 /\ remote.made = 1
    \/ /\ ~isNonDistributedTransactional
       /\ remote.made > 1 \/ remote.inPostHooks > 1 \/ remote.operationAfter

\* Mutant: after an error the connection is not released.
ReturnSingleKeepingItOnError(c, f) ==
    /\ kind[c] = "single"
    /\ function[c][f].pc = "body"
    /\ function[c][f].depth = 0
    /\ IF function[c][f].failed THEN UNCHANGED <<connection, idle, databaseVars>>
       ELSE Release(c)
    /\ function' = [function EXCEPT ![c][f].pc =
                       IF function[c][f].failed THEN "error" ELSE "ok"]
    /\ stage' = [stage EXCEPT ![c] = "ended"]
    /\ UNCHANGED <<kind, flags>>

ReturnSingle(c, f) ==
    /\ kind[c] = "single"
    /\ function[c][f].pc = "body"
    /\ function[c][f].depth = 0
    /\ Release(c)
    /\ \E remote \in PossibleRemoteCalls(c, function[c][f]),
          isNonTransactional, isNonDistributedTransactional \in BOOLEAN :
          function' = [function EXCEPT ![c][f] =
              [function[c][f] EXCEPT
                  !.pc = IF \/ function[c][f].failed
                            \/ FailsCheck(function[c][f], remote, isNonTransactional,
                                          isNonDistributedTransactional)
                         THEN "error" ELSE "ok",
                  !.remote = remote.made > 0 \/ remote.inPostHooks > 1]]
    /\ stage' = [stage EXCEPT ![c] = "ended"]
    /\ UNCHANGED <<kind, flags>>

\* Mutant: the connection is released as it is.
ThrowInSingleReleasing(c, f) ==
    /\ kind[c] = "single"
    /\ function[c][f].pc = "body"
    /\ function' = [function EXCEPT ![c][f].pc = "threw"]
    /\ stage' = [stage EXCEPT ![c] = "ended"]
    /\ Release(c)
    /\ UNCHANGED <<kind, flags>>

\* The function throws, or what it passed to executeInsideTransaction threw or
\* returned no pair (updateEntities, deleteEntitiesByIds): nothing is rolled
\* back and the connection is not released.
ThrowInSingle(c, f) ==
    /\ kind[c] = "single"
    /\ function[c][f].pc = "body"
    /\ function' = [function EXCEPT ![c][f].pc = "threw"]
    /\ stage' = [stage EXCEPT ![c] = "ended"]
    /\ UNCHANGED <<kind, connection, flags, idle, databaseVars>>

\* A function of a multiple call; an exception becomes its error response.
AnswerInMultiple(c, f) ==
    /\ kind[c] \in Multiple
    /\ \/ /\ function[c][f].pc = "body"
          /\ function[c][f].depth = 0
          /\ function' = [function EXCEPT ![c][f].pc =
                             IF function[c][f].failed THEN "error" ELSE "ok"]
       \/ /\ function[c][f].pc = "body"
          /\ function' = [function EXCEPT ![c][f].pc = "error"]
    /\ UNCHANGED <<requestVars, connection, flags, idle, databaseVars>>

AllAnswered(c) ==
    \A f \in Functions :
        \/ function[c][f].pc \in {"ok", "error"}
        \/ function[c][f].pc = "none" /\ ~CanStart(c, f)

\* The end of executeMultipleServiceFunctions: the executable's result is never
\* an error, so the transaction is committed; the release sees that a multiple
\* call has the connection and does nothing.
EndMultiple(c) ==
    /\ stage[c] = "running" /\ kind[c] \in Multiple
    /\ AllAnswered(c)
    /\ stage' = [stage EXCEPT ![c] = "ended"]
    /\ flags' = [flags EXCEPT ![c] = {}]
    /\ IF kind[c] \in InsideTransaction
       THEN Commit(connection[c]) \/ Rollback(connection[c])   \* COMMIT may fail
       ELSE UNCHANGED databaseVars
    /\ UNCHANGED <<kind, connection, function, idle>>

\* A call that was validated by one name and has not the other (or any other
\* exception that is no service error) ends the request where it is; parallel
\* calls go on.
BreakMultiple(c, f) ==
    /\ kind[c] \in Multiple
    /\ CanStart(c, f)
    /\ stage' = [stage EXCEPT ![c] = "broken"]
    /\ function' = [function EXCEPT ![c][f].pc = "threw"]
    /\ UNCHANGED <<kind, connection, flags, idle, databaseVars>>

-----------------------------------------------------------------------------
FunctionStep(c, f) ==
    \/ StartFunction(c, f)
    \/ StartOperation(c, f)
    \/ \E p \in Parts : Statement(c, f, p)
    \/ OperationSucceeds(c, f)
    \/ OperationFails(c, f)
    \/ ReadAbandonsTransaction(c, f)
    \/ EnterTransaction(c, f)
    \/ EnterFails(c, f)
    \/ LeaveTransaction(c, f)
    \/ CommitFails(c, f)
    \/ ReturnSingle(c, f)
    \/ ThrowInSingle(c, f)
    \/ AnswerInMultiple(c, f)
    \/ BreakMultiple(c, f)

RequestStep(c) ==
    \/ \E f \in Functions : FunctionStep(c, f)
    \/ EndMultiple(c)

Next ==
    /\ UNCHANGED pooled
    /\ \E c \in Calls :
          \/ Arrive(c)
          \/ Reserve(c)
          \/ ReserveFails(c)
          \/ BeginMultipleFails(c)
          \/ RequestStep(c)
          \/ \E f \in Functions, p \in Parts : LateStatement(c, f, p)

Spec == Init /\ [][Next]_vars

-----------------------------------------------------------------------------
(* Properties.                                                             *)

\* A connection belongs to one request or to the pool: no statement of a call
\* can come between those of another one's transaction
\* (tryReserveDbConnectionFromPool, tryReleaseDbConnectionBackToPool).
ConnectionsAreExclusive ==
    /\ \A c \in Calls : connection[c] \notin idle
    /\ \A c, d \in Calls :
          connection[c] = connection[d] /\ connection[c] # NoConnection => c = d

WritesIn(c, b) == {w \in issued : w.call = c /\ w.block = b /\ ~w.late}

Ended(c) == stage[c] = "ended"

\* What a service function did in one executeInsideTransaction is committed as a
\* whole or not at all, whatever failed and wherever it was interrupted; only
\* executables within executables and statements nobody waited for escape.
AllOrNothing ==
    \A c \in Calls, b \in 1 .. MaxBlocks :
        kind[c] = "single" /\ Ended(c) /\ ~function[c][1].nested =>
            \/ WritesIn(c, b) \subseteq committed
            \/ WritesIn(c, b) \cap committed = {}

UnitsOfWork(c) == function[c][1].blocks + function[c][1].localCount

\* An error of a call that was one unit of work means that it changed nothing,
\* be it returned by an operation, BEGIN or COMMIT: the check on the number of
\* local transactions (tryExecuteServiceMethod) cannot turn a single operation or
\* transaction that was committed into an error.  The checks on remote calls can:
\* they come after the commit, so the calls they may refuse are excepted.
ErrorsLeaveNothing ==
    \A c \in Calls :
        kind[c] = "single" /\ function[c][1].pc = "error"
        /\ UnitsOfWork(c) <= 1 /\ ~function[c][1].nested /\ ~function[c][1].remote
            => \A w \in committed : w.call = c => w.late

\* A call that answered without an error has committed all it wrote, although
\* it may have got a connection with somebody else's open transaction.
SuccessIsDurable ==
    \A c \in Calls :
        kind[c] = "single" /\ function[c][1].pc = "ok"
            => \A w \in issued : w.call = c => w \in committed

\* A connection in the pool may carry the transaction of a read that found
\* nothing, but no write that waits for a COMMIT.
IdleConnectionsHoldNoWrites ==
    \A k \in idle :
        /\ session[k].writes = {}
        /\ session[k].tx # "none" => pooled /\ session[k].tx = "open"

\* The connections of multiple calls and of functions that threw are lost.
Lost(k) ==
    \E c \in Calls :
        /\ connection[c] = k
        /\ stage[c] \in {"ended", "broken"}
        /\ kind[c] \in Multiple \/ function[c][1].pc = "threw"

Fairness ==
    \A c \in Calls : /\ SF_vars(Reserve(c) /\ UNCHANGED pooled)
                      /\ WF_vars(RequestStep(c) /\ UNCHANGED pooled)

FairSpec == Spec /\ Fairness

\* A request gets a connection unless all of them were lost by multiple calls
\* and exceptions: no two requests wait for each other.
RequestsGetConnections ==
    \A c \in Calls :
        stage[c] = "reserving" ~>
            stage[c] # "reserving" \/ \A k \in Connections : Lost(k)
=============================================================================
