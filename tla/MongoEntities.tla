--------------------------- MODULE MongoEntities ---------------------------
(***************************************************************************)
(* The entity operations of MongoDbManager on one collection.              *)
(*                                                                         *)
(* No statement is given the session of the transaction it is executed in, *)
(* so every statement commits by itself: what an operation reads may be    *)
(* stale when it writes, and what it wrote stays when a hook fails after   *)
(* it.  The statement that locks what is read (it sets _backkLock) commits *)
(* by itself too and is not modelled.                                      *)
(*                                                                         *)
(* An entity has a unique name, a field, an array of values (tags), a      *)
(* one-to-many relation (subs), a one-to-one relation with a list of its   *)
(* own (nested, its ids) and a many-to-many relation (links).              *)
(***************************************************************************)
EXTENDS Integers, Sequences, FiniteSets, FiniteSetsExt, Functions, SequencesExt, TLC, Hooks

CONSTANTS Requests,
          Ids,             \* _id of entities
          Names,
          Values,          \* of the field, the tags and the sub-entities
          Functions,       \* field functions of numbers and dates
          Results,         \* what they give
          ResultOf,        \* ResultOf[f][v]: the result that f is named for
          Evaluated,       \* Evaluated[f][v]: the one of the $where expression of f
          FilterLists,     \* bound: filters that are asked for
          MaxNested,       \* arrayMaxSize of the nested list
          NewValues,       \* bound: values that operations give
          MaxOperations    \* bound: operations of a request

ASSUME BoundsAssumption ==
    /\ Ids # {} /\ NewValues # {} /\ NewValues \subseteq Values
    /\ MaxNested \in Nat \ {0} /\ MaxOperations \in Nat \ {0}

\* There is a name for every entity.
ASSUME NamesAssumption == \E f \in [Ids -> Names] : IsInjective(f)

VARIABLES docs,      \* the collection, a function from the ids it holds
          request,   \* request[r]: what r is doing
          created,   \* ids given to entities so far
          written    \* written[i]: statements that wrote entity i, for the properties

vars == <<docs, request, created, written>>

-----------------------------------------------------------------------------
NaN == -2                 \* a version that was computed from undefined

\* Mutant: what was computed from undefined is a number.
IncrementOfNumber(version) == version + 1

Increment(version) == IF version = NaN THEN NaN ELSE version + 1

NoId == -1                \* sub-entity that was pushed without an id
Null == -2                \* padding of an array that was written behind its end

SubEntities == [id : {Null, NoId} \cup Nat, content : Values]

Documents == [version : {NaN} \cup Nat,
              name : Names,
              field : Values,
              tags : Seq(Values),
              subs : Seq(SubEntities),
              nested : SUBSET (0 .. 2 * MaxNested),
              links : SUBSET Ids]

Existing == DOMAIN docs

-----------------------------------------------------------------------------
(* Filters.  A condition accepts a set of values of a field, or of what a   *)
(* function gives of it; an OR has a set of conditions.                    *)

Plain(field, values) == [field : {field}, function : {"none"}, in : BOOLEAN, value : SUBSET values]
Conditions == Plain("name", Names) \cup Plain("field", Values)
              \cup [field : {"field"}, function : Functions, in : BOOLEAN, value : SUBSET Results]
Disjunctions == [field : {"or"}, value : SUBSET Conditions]

ASSUME FunctionsAssumption ==
    /\ "none" \notin Functions
    /\ ResultOf \in [Functions -> [Values -> Results]]
    /\ Evaluated \in [Functions -> [Values -> Results]]

ASSUME FiltersAssumption == FilterLists \subseteq Seq(Conditions \cup Disjunctions)

\* The values that a condition asks for.
Asked(c) ==
    IF c.function = "none" THEN c.value
    ELSE {v \in Values : ResultOf[c.function][v] \in c.value}

\* getWhereExpression: the field of the match expression that a condition with a
\* function becomes, and the values that one accepts.  An IN becomes a list of
\* objects with a $where, and no value is one of them.
Key(c) == IF c.function # "none" /\ ~c.in THEN "$where" ELSE c.field
Accepted(c) ==
    CASE c.function = "none" -> c.value
      [] c.function # "none" /\ c.in -> {}
      [] OTHER -> {v \in Values : Evaluated[c.function][v] \in c.value}

Assign(expression, field, value) ==
    [f \in DOMAIN expression \cup {field} |-> IF f = field THEN value ELSE expression[f]]

\* Mutant: the alternatives of an OR are spread over the match expression.
WithAlternativesSpread(expression, condition) ==
    IF condition.field = "or"
    THEN [f \in {Key(c) : c \in condition.value} |->
             Accepted(CHOOSE c \in condition.value : Key(c) = f)]
    ELSE Assign(expression, Key(condition), Accepted(condition))

\* The object spread of convertUserDefinedFiltersToMatchExpression: a condition
\* replaces an earlier one on its field, and with a function one on any field;
\* an OR replaces all of them.
WithCondition(expression, condition) ==
    IF condition.field = "or" THEN [or |-> condition.value]
    ELSE Assign(expression, Key(condition), Accepted(condition))

MatchExpression(filters) ==
    LET upTo[n \in 0 .. Len(filters)] ==
            IF n = 0 THEN <<>> ELSE WithCondition(upTo[n - 1], filters[n])
    IN upTo[Len(filters)]

\* What a field of the match expression says of a document.  Functions are
\* those of "field".
Accepts(doc, key, entry) ==
    CASE key = "or" -> \E c \in entry : doc[c.field] \in Accepted(c)
      [] key = "$where" -> doc.field \in entry
      [] OTHER -> doc[key] \in entry

Matches(doc, expression) == \A f \in DOMAIN expression : Accepts(doc, f, expression[f])

Matching(filters) == {i \in Existing : Matches(docs[i], MatchExpression(filters))}

-----------------------------------------------------------------------------
(* Methods.  A plan says of a method: does it read the entity first, what  *)
(* does it do when there is none ("goOn" to the hook after it), which      *)
(* statement does it execute, and does it return the error of that one.    *)

Plan(reads, missing, statement, passesError) ==
    [reads |-> reads, missing |-> missing, statement |-> statement,
     passesError |-> passesError]

SubstituteOr(op, answer) == IF op.substitute THEN "substitute" ELSE answer

createEntity(op) == Plan(FALSE, "error", "insert", TRUE)

addSimpleSubEntitiesOrValuesByEntityId(op) ==
    Plan(op.hook, SubstituteOr(op, "error"), "push", TRUE)
addSimpleSubEntitiesOrValuesByFilters(op) ==
    Plan(op.hook, SubstituteOr(op, "error"), "push", TRUE)

addSubEntitiesToEntityById(op) ==
    IF op.part # "nested" THEN addSimpleSubEntitiesOrValuesByEntityId(op)
    ELSE Plan(TRUE, SubstituteOr(op, "error"), "rewrite", TRUE)
addSubEntitiesToEntityByFilters(op) ==
    IF op.part # "nested" THEN addSimpleSubEntitiesOrValuesByFilters(op)
    ELSE Plan(TRUE, SubstituteOr(op, "error"), "rewrite", TRUE)
addEntityArrayFieldValues(op) == addSimpleSubEntitiesOrValuesByEntityId(op)

\* Only a version, or a hook, makes it read.
updateEntity(op) == Plan(op.hook \/ op.version # 0, "error", "set", TRUE)
\* The missing entity is an error of the function within, which nobody looks at.
updateEntityByFilters(op) == Plan(TRUE, "ok", "setMatches", TRUE)
updateEntitiesByFilters(op) == Plan(FALSE, "ok", "setMatches", TRUE)
updateEntityByField(op) == Plan(TRUE, "ok", "setByField", FALSE)

removeSimpleSubEntityById(op) == Plan(op.hook, "error", "pull", TRUE)
removeSimpleSubEntityByIdFromEntityByFilters(op) == Plan(op.hook, "error", "pull", TRUE)
removeFieldValues(op) == Plan(op.hook, "error", "pull", TRUE)
removeEntityArrayFieldValues(op) == removeFieldValues(op)
removeSubEntitiesByJsonPathFromEntityById(op) == Plan(TRUE, "error", "rewrite", TRUE)
removeSubEntitiesByJsonPathFromEntityByFilters(op) == Plan(TRUE, "goOn", "rewrite", FALSE)
removeSubEntityByIdFromEntityById(op) ==
    IF op.part = "nested" THEN removeSubEntitiesByJsonPathFromEntityById(op)
    ELSE removeSimpleSubEntityById(op)
removeSubEntityByIdFromEntityByFilters(op) ==
    IF op.part = "nested" THEN removeSubEntitiesByJsonPathFromEntityByFilters(op)
    ELSE removeSimpleSubEntityByIdFromEntityByFilters(op)

deleteEntityById(op) == Plan(op.hook, "ok", "deleteOne", TRUE)
deleteEntityByFilters(op) == Plan(op.hook, "ok", "deleteOne", TRUE)
deleteEntityByField(op) == Plan(op.hook, "ok", "deleteOne", TRUE)
deleteEntitiesByField(op) == Plan(FALSE, "ok", "deleteOne", TRUE)
deleteEntitiesByFilters(op) == Plan(FALSE, "ok", "deleteMany", TRUE)
deleteAllEntities(op) == Plan(FALSE, "ok", "deleteMany", TRUE)

getEntityById(op) == Plan(TRUE, SubstituteOr(op, "error"), "none", TRUE)
getEntityByFilters(op) == Plan(TRUE, SubstituteOr(op, "error"), "none", TRUE)
getEntityByField(op) == Plan(TRUE, SubstituteOr(op, "error"), "none", TRUE)
getEntitiesByField(op) == Plan(TRUE, "error", "none", TRUE)
getEntitiesByFilters(op) == Plan(TRUE, "goOn", "none", TRUE)
getEntitiesByIds(op) == Plan(TRUE, "goOn", "none", TRUE)
getAllEntities(op) == Plan(TRUE, "goOn", "none", TRUE)
getEntityCount(op) == Plan(TRUE, "goOn", "none", TRUE)
doesEntityArrayFieldContainValue(op) == Plan(TRUE, "goOn", "none", TRUE)

PlanOf(op) ==
    CASE op.method = "createEntity" -> createEntity(op)
      [] op.method = "addSubEntitiesToEntityById" -> addSubEntitiesToEntityById(op)
      [] op.method = "addSubEntitiesToEntityByFilters" -> addSubEntitiesToEntityByFilters(op)
      [] op.method = "addEntityArrayFieldValues" -> addEntityArrayFieldValues(op)
      [] op.method = "updateEntity" -> updateEntity(op)
      [] op.method = "updateEntityByFilters" -> updateEntityByFilters(op)
      [] op.method = "updateEntitiesByFilters" -> updateEntitiesByFilters(op)
      [] op.method = "updateEntityByField" -> updateEntityByField(op)
      [] op.method = "removeSubEntityByIdFromEntityById" ->
            removeSubEntityByIdFromEntityById(op)
      [] op.method = "removeSubEntityByIdFromEntityByFilters" ->
            removeSubEntityByIdFromEntityByFilters(op)
      [] op.method = "removeSubEntitiesByJsonPathFromEntityById" ->
            removeSubEntitiesByJsonPathFromEntityById(op)
      [] op.method = "removeSubEntitiesByJsonPathFromEntityByFilters" ->
            removeSubEntitiesByJsonPathFromEntityByFilters(op)
      [] op.method = "removeEntityArrayFieldValues" -> removeEntityArrayFieldValues(op)
      [] op.method = "deleteEntityById" -> deleteEntityById(op)
      [] op.method = "deleteEntityByFilters" -> deleteEntityByFilters(op)
      [] op.method = "deleteEntityByField" -> deleteEntityByField(op)
      [] op.method = "deleteEntitiesByField" -> deleteEntitiesByField(op)
      [] op.method = "deleteEntitiesByFilters" -> deleteEntitiesByFilters(op)
      [] op.method = "deleteAllEntities" -> deleteAllEntities(op)
      [] op.method = "getEntityById" -> getEntityById(op)
      [] op.method = "getEntityByFilters" -> getEntityByFilters(op)
      [] op.method = "getEntityByField" -> getEntityByField(op)
      [] op.method = "getEntitiesByField" -> getEntitiesByField(op)
      [] op.method = "getEntitiesByFilters" -> getEntitiesByFilters(op)
      [] op.method = "getEntitiesByIds" -> getEntitiesByIds(op)
      [] op.method = "getAllEntities" -> getAllEntities(op)
      [] op.method = "getEntityCount" -> getEntityCount(op)
      [] op.method = "doesEntityArrayFieldContainValue" ->
            doesEntityArrayFieldContainValue(op)

-----------------------------------------------------------------------------
(* Calls.  What a call does not use has one value.                         *)

Call(method) ==
    [method |-> method, filters |-> <<>>, id |-> CHOOSE i \in Ids : TRUE,
     name |-> CHOOSE n \in Names : TRUE, value |-> CHOOSE v \in NewValues : TRUE,
     part |-> "field", version |-> 0, hook |-> FALSE, post |-> FALSE, substitute |-> FALSE]

ById(methods) == {[Call(k) EXCEPT !.id = i] : k \in methods, i \in Ids}
ByFilters(methods) == {[Call(k) EXCEPT !.filters = f] : k \in methods, f \in FilterLists}
WithHooks(calls) == calls \cup {[o EXCEPT !.hook = TRUE] : o \in calls}
                          \cup {[o EXCEPT !.post = TRUE] : o \in calls}
WithSubstitutes(calls) ==
    calls \cup {[o EXCEPT !.substitute = TRUE] : o \in {c \in calls : PlanOf(c).reads}}
On(parts, calls) == {[o EXCEPT !.part = p] : o \in calls, p \in parts}

Additions ==
    WithSubstitutes(WithHooks(On({"subs", "links", "nested"},
        ById({"addSubEntitiesToEntityById"}) \cup ByFilters({"addSubEntitiesToEntityByFilters"}))))
    \cup WithHooks(On({"tags"}, ById({"addEntityArrayFieldValues"})))
Updates ==
    {[o EXCEPT !.version = v] :
        o \in WithHooks(On({"field", "tags", "subs", "noSubs"}, ById({"updateEntity"}))),
        v \in {-1, 0, 1}}
    \cup {[o EXCEPT !.name = n] :
        o \in WithHooks(On({"field", "name"}, ByFilters({"updateEntityByFilters"})))
              \cup On({"field", "name"}, ByFilters({"updateEntitiesByFilters"})),
        n \in Names}
    \cup WithHooks(ByFilters({"updateEntityByField"}))
Removals ==
    WithHooks(On({"subs", "links", "nested"},
                 ById({"removeSubEntityByIdFromEntityById"})
                 \cup ByFilters({"removeSubEntityByIdFromEntityByFilters"}))
              \cup On({"subs"}, ById({"removeSubEntitiesByJsonPathFromEntityById"})
                                \cup ByFilters({"removeSubEntitiesByJsonPathFromEntityByFilters"}))
              \cup On({"tags"}, ById({"removeEntityArrayFieldValues"})))
Deletions ==
    WithHooks(ById({"deleteEntityById"})
              \cup ByFilters({"deleteEntityByFilters", "deleteEntityByField"}))
    \cup ByFilters({"deleteEntitiesByFilters", "deleteEntitiesByField"})
    \cup {Call("deleteAllEntities")}
Queries ==
    WithSubstitutes(WithHooks(ById({"getEntityById"})
                              \cup ByFilters({"getEntityByFilters", "getEntityByField"})))
    \cup WithHooks(ByFilters({"getEntitiesByFilters"}))
    \cup ByFilters({"getEntitiesByField", "getEntityCount"})
    \cup ById({"getEntitiesByIds", "doesEntityArrayFieldContainValue"})
    \cup {Call("getAllEntities")}

AllCalls == WithHooks({[Call("createEntity") EXCEPT !.name = n] : n \in Names})
            \cup Additions \cup Updates \cup Removals \cup Deletions \cup Queries

Targets(op) ==
    IF op.method \in {"deleteAllEntities", "getAllEntities"} THEN Existing
    ELSE IF op.filters = <<>> THEN {op.id} \cap Existing ELSE Matching(op.filters)

-----------------------------------------------------------------------------
NoRequest == [pc |-> "idle", op |-> Call("deleteAllEntities"), target |-> CHOOSE i \in Ids : TRUE,
              seen |-> {}, answer |-> "none", partial |-> FALSE, wrote |-> FALSE, done |-> 0]

\* Operations whose error may come after what they wrote: from a hook after the
\* statement, from reading back what was created, or from a second entity that
\* would get the same unique name.
MayFailLate(op) ==
    \/ op.post
    \/ op.method = "createEntity"
    \/ PlanOf(op).statement = "setMatches" /\ op.part = "name"

TypeOK ==
    /\ Existing \subseteq created /\ created \subseteq Ids
    /\ \A i \in Existing : docs[i] \in Documents
    /\ written \in [Ids -> Nat]
    /\ \A r \in Requests :
          /\ request[r].pc \in {"idle", "reading", "rereading", "writing", "written",
                                "readingBack"}
          /\ request[r].op \in AllCalls
          /\ request[r].target \in Ids
          /\ request[r].seen \subseteq Documents
          /\ request[r].answer \in {"none", "ok", "error"}
          /\ request[r].wrote \in BOOLEAN /\ request[r].partial \in BOOLEAN
          /\ request[r].done \in 0 .. MaxOperations

NewDocument(n) ==
    [version |-> 1, name |-> n, field |-> CHOOSE v \in Values : TRUE, tags |-> <<>>,
     subs |-> <<[id |-> 0, content |-> CHOOSE v \in Values : TRUE],
                [id |-> 1, content |-> CHOOSE v \in Values : TRUE]>>,
     nested |-> {0}, links |-> {}]

Init ==
    /\ created \in SUBSET Ids
    /\ LET name == CHOOSE f \in [Ids -> Names] : IsInjective(f)
       IN docs = [i \in created |-> NewDocument(name[i])]
    /\ request = [r \in Requests |-> NoRequest]
    /\ written = [i \in Ids |-> 0]

Ended(r, answer, wrote) ==
    request' = [request EXCEPT ![r] =
                   [NoRequest EXCEPT !.answer = answer, !.wrote = wrote, !.done = request[r].done,
                                     !.partial = MayFailLate(request[r].op)]]

Answer(r, answer) == Ended(r, answer, request[r].wrote)

\* The end of an operation that has written, or that had nothing to write: the
\* hook after it comes in a step of its own.
Finish(r, wrote) ==
    IF request[r].op.post
    THEN request' = [request EXCEPT ![r].pc = "written", ![r].wrote = wrote, ![r].seen = {}]
    ELSE Ended(r, "ok", wrote)

Store(i, doc) ==
    /\ docs' = [docs EXCEPT ![i] = doc]
    /\ written' = [written EXCEPT ![i] = @ + 1]
    /\ UNCHANGED created

StoresNothing == UNCHANGED <<docs, created, written>>

Begin(r) ==
    /\ request[r].pc = "idle"
    /\ request[r].done < MaxOperations
    /\ \E op \in AllCalls :
          request' = [request EXCEPT ![r] =
              [NoRequest EXCEPT !.op = op, !.done = request[r].done + 1,
                                !.pc = IF PlanOf(op).reads THEN "reading" ELSE "writing"]]
    /\ StoresNothing

Writes(r, statement) ==
    request[r].pc = "writing" /\ PlanOf(request[r].op).statement = statement

\* What a query returns of a document: of the links,
\* tryFetchAndAssignSubEntitiesForManyToManyRelationships finds those that are.
Row(i) == [docs[i] EXCEPT !.links = @ \cap Existing]

\* The version check of updateEntity, one of the hooks on the entity it reads.
VersionMismatch(op, i) ==
    /\ op.method = "updateEntity"
    /\ op.version \in Nat \ {0}
    /\ docs[i].version # op.version

\* The entity, or one of those, that a method reads, and the hooks on it.
ReadEntity(r) ==
    LET op == request[r].op
        plan == PlanOf(op)
        proceed(i) ==
            IF plan.statement = "none" THEN Finish(r, FALSE)
            ELSE request' = [request EXCEPT ![r] =
                    [@ EXCEPT !.target = i, !.seen = {Row(i)},
                              !.pc = IF plan.statement = "rewrite" THEN "rereading"
                                     ELSE "writing"]]
    IN /\ request[r].pc = "reading"
       /\ StoresNothing
       /\ \/ \E i \in Targets(op) :
                \E ok \in IF op.hook THEN EntityPreHookOutcomes ELSE {TRUE} :
                   IF ok /\ ~VersionMismatch(op, i) THEN proceed(i) ELSE Answer(r, "error")
          \/ /\ Targets(op) = {}
             /\ CASE plan.missing = "substitute" ->
                        (\E i \in Existing : proceed(i)) \/ Answer(r, "error")
                  [] plan.missing = "goOn" -> Finish(r, FALSE)
                  [] OTHER -> Answer(r, plan.missing)

-----------------------------------------------------------------------------
(* updateEntity, by itself and at the end of other operations.             *)

\* What the unique index has.
NamesTaken(except) == {docs[i].name : i \in Existing \ except}

\* handleNestedOneToManyRelations: the fields of a sub-entity are set at the
\* index that its id names, the ids are not.
SetAt(subs, sub) ==
    LET index == sub.id + 1
        padding == [k \in 1 .. index - Len(subs) |->
                       [id |-> IF k = index - Len(subs) THEN NoId ELSE Null,
                        content |-> sub.content]]
    IN IF index <= Len(subs) THEN [subs EXCEPT ![index].content = sub.content]
       ELSE subs \o padding

\* Mutant: the list is replaced by the one that was read.
SetSubsReplacing(subs, given) == given

\* The whole list is written only when it is empty.
SetSubs(subs, given) ==
    LET upTo[n \in 0 .. Len(given)] ==
            IF n = 0 THEN subs ELSE SetAt(upTo[n - 1], given[n])
    IN IF given = <<>> THEN <<>> ELSE upTo[Len(given)]

\* A sub-entity without an id is no index: the statement, or the code, fails.
CannotSet(given) == \E k \in DOMAIN given : given[k].id \in {NoId, Null}

\* The elements of a list that are not removed.
Without(list, removed) ==
    LET upTo[n \in 0 .. Len(list)] ==
            CASE n = 0 -> <<>>
              [] n > 0 /\ list[n] \in removed -> upTo[n - 1]
              [] OTHER -> Append(upTo[n - 1], list[n])
    IN upTo[Len(list)]

\* Those that operations remove.
WithIdZero == {s \in SubEntities : s.id = 0}

\* nested lists are part of an object that is written as a whole.
NestedAfterAddition(nested) ==
    LET last == Max(nested \cup {-1})
    IN nested \cup {last + k : k \in 1 .. Cardinality(nested)}

IsAddition(op) ==
    op.method \in {"addSubEntitiesToEntityById", "addSubEntitiesToEntityByFilters"}

\* The entity that the second half of an operation writes: addSubEntities adds
\* the sub-entities there are again, and not the new ones; removeSubEntities
\* takes those that the path found.
Rewritten(op, seen) ==
    CASE IsAddition(op) -> [seen EXCEPT !.nested = NestedAfterAddition(@)]
      [] ~IsAddition(op) /\ op.part = "nested" ->
            [seen EXCEPT !.nested = @ \ {Max(@ \cup {0})}]
      [] OTHER -> [seen EXCEPT !.subs = Without(@, WithIdZero)]

TooMany(op, seen) ==
    IsAddition(op) /\ Max(seen.nested \cup {-1}) + Cardinality(seen.nested) >= MaxNested

\* The error of the updateEntity that another method calls.
InnerError(r) ==
    IF PlanOf(request[r].op).passesError THEN Answer(r, "error") ELSE Finish(r, FALSE)

\* getEntityById within updateEntity, for an entity that was read before: its
\* version must be the one of then.
ReadAgain(r) ==
    LET op == request[r].op
        seen == CHOOSE d \in request[r].seen : TRUE
        i == request[r].target
        new == Rewritten(op, seen)
    IN /\ request[r].pc = "rereading"
       /\ StoresNothing
       /\ CASE TooMany(op, seen) -> Answer(r, "error")
            [] ~IsAddition(op) /\ new = seen -> Finish(r, FALSE)
            [] OTHER ->
                 IF \/ i \notin Existing
                    \/ seen.version # NaN /\ docs[i].version # seen.version
                    \/ CannotSet(new.subs)
                 THEN InnerError(r)
                 ELSE request' = [request EXCEPT ![r].pc = "writing",
                         ![r].seen = {[new EXCEPT !.version = docs[i].version]}]

\* The statement of that updateEntity sets all fields, and fails if the name has
\* been given to another entity.
RewriteEntity(r) ==
    LET i == request[r].target
        new == CHOOSE d \in request[r].seen : TRUE
    IN /\ Writes(r, "rewrite")
       /\ IF i \in Existing /\ new.name \notin NamesTaken({i})
          THEN /\ Store(i, [new EXCEPT !.version = Increment(@),
                                       !.subs = SetSubs(docs[i].subs, @)])
               /\ Finish(r, TRUE)
          ELSE StoresNothing /\ InnerError(r)

\* Mutant: the update is an upsert.
UpdateEntityOrInsert(r) ==
    LET op == request[r].op IN
    /\ Writes(r, "set")
    /\ docs' = op.id :> [NewDocument(op.name) EXCEPT !.field = op.value] @@ docs
    /\ created' = created \cup {op.id}
    /\ written' = [written EXCEPT ![op.id] = @ + 1]
    /\ Finish(r, TRUE)

\* Mutant: the version that the request was given is stored, with one more.
UpdateEntityGivenVersion(r) ==
    LET op == request[r].op IN
    /\ Writes(r, "set")
    /\ IF op.id \in Existing
       THEN /\ Store(op.id, [docs[op.id] EXCEPT !.version = op.version + 2])
            /\ Finish(r, TRUE)
       ELSE StoresNothing /\ Answer(r, "error")

\* The statement of updateEntity: what it is given, and the version of the
\* entity it has read, with one more; without a read there is no version.
UpdateEntity(r) ==
    LET op == request[r].op
        given == <<[id |-> 1, content |-> op.value]>>
        version == IF request[r].seen = {} THEN NaN
                   ELSE Increment((CHOOSE d \in request[r].seen : TRUE).version)
        update(doc) ==
            CASE op.part = "field" -> [doc EXCEPT !.field = op.value]
              [] op.part = "tags" -> [doc EXCEPT !.tags = <<op.value>>]
              [] op.part = "subs" -> [doc EXCEPT !.subs = SetSubs(@, given)]
              [] OTHER -> [doc EXCEPT !.subs = SetSubs(@, <<>>)]
    IN /\ Writes(r, "set")
       /\ IF op.id \in Existing
          THEN /\ Store(op.id, [update(docs[op.id]) EXCEPT !.version = version])
               /\ Finish(r, TRUE)
          ELSE StoresNothing /\ Answer(r, "error")

\* updateEntityByField calls updateEntity with what it was given, so without a
\* version, and ignores its error.
UpdateEntityByField(r) ==
    LET i == request[r].target IN
    /\ Writes(r, "setByField")
    /\ IF i \in Existing
       THEN Store(i, [docs[i] EXCEPT !.field = request[r].op.value, !.version = NaN])
       ELSE StoresNothing
    /\ Finish(r, i \in Existing)

-----------------------------------------------------------------------------
(* Operations whose statement does what they are for.                      *)

\* insertOne: the unique index on the name answers for duplicates.
CreateEntity(r) ==
    LET op == request[r].op IN
    /\ Writes(r, "insert")
    /\ \/ /\ (FALSE \in PreHookOutcomes /\ op.hook) \/ op.name \in NamesTaken({})
          /\ StoresNothing
          /\ Answer(r, "error")
       \/ /\ op.name \notin NamesTaken({})
          /\ \E i \in Ids \ created :
               /\ docs' = [j \in Existing \cup {i} |->
                            IF j = i THEN NewDocument(op.name) ELSE docs[j]]
               /\ created' = created \cup {i}
               /\ written' = [written EXCEPT ![i] = @ + 1]
               /\ request' = [request EXCEPT ![r].pc = "readingBack", ![r].target = i,
                                              ![r].wrote = TRUE]

\* The entity is read for the response, which is an error if it is gone.
ReadBack(r) ==
    /\ request[r].pc = "readingBack"
    /\ StoresNothing
    /\ IF request[r].target \in Existing THEN Finish(r, TRUE) ELSE Answer(r, "error")

\* $push, also of an entity that is not there: no sub-entity gets an id.
AddSimple(r) ==
    LET op == request[r].op
        push(doc) ==
            CASE op.part = "tags" -> [doc EXCEPT !.tags = Append(@, op.value)]
              [] op.part = "subs" ->
                    [doc EXCEPT !.subs = Append(@, [id |-> NoId, content |-> op.value])]
              [] OTHER -> [doc EXCEPT !.links = @ \cup {op.id}]
    IN /\ Writes(r, "push")
       /\ \/ \E i \in Targets(op) :
                /\ Store(i, [push(docs[i]) EXCEPT !.version = Increment(@)])
                /\ Finish(r, TRUE)
          \/ Targets(op) = {} /\ StoresNothing /\ Finish(r, FALSE)

\* Mutant: an error when the sub-entity was not found, after the statement.
PullSimpleOrError(r) ==
    LET op == request[r].op IN
    /\ Writes(r, "pull")
    /\ \E i \in Targets(op) :
          /\ Store(i, [docs[i] EXCEPT !.version = Increment(@)])
          /\ Ended(r, "error", TRUE)

\* $pull: all that are
\* equal; an _id that begins with a digit is taken for an id, which none has.
PullSimple(r) ==
    LET op == request[r].op
        pull(doc) ==
            CASE op.part = "tags" -> [doc EXCEPT !.tags = Without(@, {op.value})]
              [] op.part = "subs" -> [doc EXCEPT !.subs = Without(@, WithIdZero)]
              [] OTHER -> [doc EXCEPT !.links = @ \ {op.id}]
    IN /\ Writes(r, "pull")
       /\ \/ \E i \in Targets(op), found \in BOOLEAN :
                /\ op.part # "subs" => found
                /\ Store(i, [(IF found THEN pull(docs[i]) ELSE docs[i])
                                EXCEPT !.version = Increment(@)])
                /\ Finish(r, TRUE)
          \/ Targets(op) = {} /\ StoresNothing /\ Finish(r, FALSE)

\* updateMany of updateEntityByFilters and updateEntitiesByFilters; when it
\* gives a second entity the same unique name, the first one keeps it.
UpdateMatches(r) ==
    LET op == request[r].op
        update(doc) ==
            [(IF op.part = "name" THEN [doc EXCEPT !.name = op.name]
              ELSE [doc EXCEPT !.field = op.value]) EXCEPT !.version = Increment(@)]
        store(hit) == /\ docs' = [i \in Existing |-> IF i \in hit THEN update(docs[i]) ELSE docs[i]]
                      /\ written' = [i \in Ids |-> IF i \in hit THEN written[i] + 1 ELSE written[i]]
                      /\ UNCHANGED created
        matches == Targets(op)
        unique(hit) == op.part = "name" =>
                          Cardinality(hit) <= 1 /\ (hit # {} => op.name \notin NamesTaken(hit))
    IN /\ Writes(r, "setMatches")
       /\ IF unique(matches)
          THEN store(matches) /\ Finish(r, matches # {})
          ELSE \E hit \in SUBSET matches :
                  /\ hit # matches /\ unique(hit)
                  /\ store(hit)
                  /\ Ended(r, "error", hit # {})

\* deleteOne also for deleteEntitiesByField.  The links to what is deleted stay.
DeleteEntities(r) ==
    LET matches == Targets(request[r].op)
        delete(gone) == /\ docs' = [i \in Existing \ gone |-> docs[i]]
                        /\ UNCHANGED <<created, written>>
                        /\ Finish(r, gone # {})
    IN \/ /\ Writes(r, "deleteOne")
          /\ \/ \E i \in matches : delete({i})
             \/ matches = {} /\ delete({})
       \/ Writes(r, "deleteMany") /\ delete(matches)

\* postHook, with or without an error.
AfterHook(r) ==
    /\ request[r].pc = "written"
    /\ StoresNothing
    /\ \E ok \in IF request[r].op.method = "getEntitiesByFilters"
               THEN EntitiesPostHookOutcomes ELSE PostHookOutcomes : Answer(r, IF ok THEN "ok" ELSE "error")

Step(r) ==
    \/ ReadEntity(r) \/ ReadAgain(r) \/ RewriteEntity(r)
    \/ UpdateEntity(r) \/ UpdateEntityByField(r)
    \/ CreateEntity(r) \/ ReadBack(r)
    \/ AddSimple(r) \/ PullSimple(r) \/ UpdateMatches(r) \/ DeleteEntities(r)
    \/ AfterHook(r)

Next == \E r \in Requests : Begin(r) \/ Step(r)

Spec == Init /\ [][Next]_vars

-----------------------------------------------------------------------------
(* Properties.                                                             *)

\* A version is never ahead of the writes: concurrent operations may lose an
\* increment (the version a statement sets is that of an earlier read, with one
\* more), but none invents a version that another request could wait for.
VersionsAreNotInvented ==
    \A i \in Existing : docs[i].version <= 1 + written[i]

\* Operations that rewrite an entity from what they have read (updateEntity and
\* the nested additions and removals) do not take away sub-entities that others
\* have pushed meanwhile, except by writing an empty list: they set fields at
\* indices.
Pulls == \E r \in Requests : Writes(r, "pull") /\ request[r] # request'[r]

SubEntitiesSurviveRewrites ==
    [][\A i \in Existing \cap Existing' :
          LET ids(subs) == [k \in DOMAIN subs |-> subs[k].id]
          IN \/ Pulls
             \/ docs'[i].subs = <<>>
             \/ IsPrefix(ids(docs[i].subs), ids(docs'[i].subs))]_vars

\* An operation that has read an entity and writes it after it was deleted does
\* not bring it back: only createEntity adds documents, with new ids.
DeletionsAreFinal ==
    [][Existing' \ Existing \subseteq created' \ created]_vars

\* An error means that nothing was written, although nothing is rolled back,
\* unless it comes from a hook after the statement, from a second entity that
\* would get the same unique name, or from reading back what was created.
ErrorsLeaveNothing ==
    \A r \in Requests :
        request[r].answer = "error" /\ ~request[r].partial => ~request[r].wrote

\* A document satisfies what was asked for.
Satisfies(doc, condition) ==
    IF condition.field = "or" THEN \E c \in condition.value : doc[c.field] \in Asked(c)
    ELSE doc[condition.field] \in Asked(condition)

\* Conditions that getWhereExpression turns into others: IN on a function, and
\* DAY and MONTH, which become the day of the week and a month that counts from 0.
Misconverted(condition) ==
    \E c \in IF condition.field = "or" THEN condition.value ELSE {condition} :
        c.function # "none" /\ (c.in \/ Evaluated[c.function] # ResultOf[c.function])

\* Although conditions replace each other in the match expression, it misses no
\* entity that satisfies them all, when none of them is misconverted: a deletion
\* or an update by filters may hit others, but leaves out none that it was asked
\* for.
FiltersMissNothing ==
    \A filters \in FilterLists, i \in Existing :
        (\A k \in DOMAIN filters :
            ~Misconverted(filters[k]) /\ Satisfies(docs[i], filters[k]))
        => i \in Matching(filters)
=============================================================================
