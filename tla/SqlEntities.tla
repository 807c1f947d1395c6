---------------------------- MODULE SqlEntities ----------------------------
(***************************************************************************)
(* The entity operations of AbstractSqlDbManager on PostgreSQL, for one    *)
(* entity class with one relation.                                         *)
(*                                                                         *)
(* Every operation is a transaction (Transactions models their begin and   *)
(* end): it selects the entity, FOR UPDATE when it is going to write,      *)
(* executes the hooks on it, writes the rows of the relation and then the  *)
(* row of the entity, and commits.  Until then no other transaction sees   *)
(* what it wrote, and statements that meet its locks wait.                 *)
(***************************************************************************)
EXTENDS Integers, Sequences, FiniteSets, FiniteSetsExt, Hooks

CONSTANTS Requests,
          Methods,       \* bound: operations that are asked for
          Names,         \* bound: values of a unique field that operations ask for
          MaxSize,       \* @ArrayMaxSize of the relation
          MaxOperations  \* bound: operations of a request

\* Entities that exist at first, or are created, have up to two sub-entities.
ASSUME SizesAssumption == MaxSize \in Nat \ {0, 1} /\ MaxOperations \in Nat \ {0}

VARIABLES relation,  \* the kind of relation that the entity class has
          rows,      \* rows of the entities, a function from their _id
          children,  \* rows of the relation's table
          serials,   \* the last serial numbers given to entities and to children
          request    \* request[r]: the operation of r and its transaction

vars == <<relation, rows, children, serials, request>>

\* The sub-entities of a one-to-many relation have an id, their place; their
\* class may ("keyed") or may not ("numbered") declare the _id of their table.
\* The entities of a many-to-many relation are other entities, which have no id.
Relations == {"numbered", "keyed", "manyToMany", "values"}
OneToMany == {"numbered", "keyed"}

Nobody == 0      \* the foreign id of a row that was inserted without one
NoName == "-"
All == "all"     \* the filter that every entity satisfies

Existing == DOMAIN rows
ChildrenOf(i) == {c \in children : c.parent = i}

-----------------------------------------------------------------------------
(* What each operation does: whether it reads the entity first ("ifHooked" *)
(* if there are hooks on it), what it does when there is none, and what it *)
(* does to the rows of the relation and to the row of the entity.          *)

Plan(reads, missing, onChildren, onRow) ==
    [reads |-> reads, missing |-> missing, onChildren |-> onChildren, onRow |-> onRow]

createEntity == Plan("nothing", "ok", "create", "insert")
addSubEntities == Plan("entity", "error", "add", "increment")
addSubEntitiesByFilters == Plan("entity", "error", "add", "increment")
addFieldValues == Plan("entity", "error", "addValues", "increment")
updateEntity == Plan("entity", "error", "reconcile", "increment")
updateEntityWhere == Plan("entity", "error", "reconcile", "increment")
updateEntityByFilters == Plan("entity", "error", "nothing", "set")
updateEntitiesByFilters == Plan("nothing", "ok", "nothing", "set")
removeSubEntities == Plan("entity", "error", "remove", "increment")
removeSubEntitiesByFilters == Plan("entity", "ok", "remove", "increment")
removeFieldValues == Plan("entity", "error", "removeValues", "increment")
deleteEntityById == Plan("ifHooked", "error", "cascade", "delete")
deleteEntityByFilters == Plan("ifHooked", "error", "cascade", "delete")
deleteEntityWhere == Plan("ifHooked", "error", "cascade", "delete")
deleteEntitiesByFilters == Plan("nothing", "ok", "cascade", "delete")
deleteEntitiesWhere == Plan("nothing", "ok", "cascade", "delete")
deleteAllEntities == Plan("nothing", "ok", "cascade", "delete")

Query(missing) == Plan("query", missing, "nothing", "nothing")
getEntityById == Query("error")
getEntityByFilters == Query("error")
getEntityWhere == Query("error")
getEntitiesByIds == Query("error")
getEntitiesWhere == Query("error")
getEntitiesByFilters == Query("ok")
getAllEntities == Query("ok")
getEntitiesCount == Query("ok")
doesEntityArrayFieldContainValue == Query("ok")

Additions == [createEntity |-> createEntity,
              addSubEntityToEntityById |-> addSubEntities,
              addSubEntityToEntityByFilters |-> addSubEntitiesByFilters,
              addSubEntitiesToEntityByFilters |-> addSubEntitiesByFilters,
              addSubEntitiesToEntityById |-> addSubEntities]
Queries == [getAllEntities |-> getAllEntities,
            getEntitiesByFilters |-> getEntitiesByFilters,
            getEntityByFilters |-> getEntityByFilters,
            getEntityCount |-> getEntitiesCount,
            getEntityById |-> getEntityById,
            getEntitiesByIds |-> getEntitiesByIds,
            getEntityByField |-> getEntityWhere,
            getEntitiesByField |-> getEntitiesWhere]
Updates == [updateEntity |-> updateEntity,
            updateEntityByFilters |-> updateEntityByFilters,
            updateEntitiesByFilters |-> updateEntitiesByFilters,
            updateEntityByField |-> updateEntityWhere]
Deletions == [deleteEntityById |-> deleteEntityById,
              deleteEntitiesByField |-> deleteEntitiesWhere,
              deleteEntityByField |-> deleteEntityWhere,
              deleteEntityByFilters |-> deleteEntityByFilters,
              deleteEntitiesByFilters |-> deleteEntitiesByFilters]
Removals == [removeSubEntitiesByJsonPathFromEntityById |-> removeSubEntities,
             removeSubEntityByIdFromEntityById |-> removeSubEntities,
             removeSubEntitiesByJsonPathFromEntityByFilters |-> removeSubEntitiesByFilters,
             removeSubEntityByIdFromEntityByFilters |-> removeSubEntitiesByFilters]
ValueOperations == [deleteAllEntities |-> deleteAllEntities,
                    addEntityArrayFieldValues |-> addFieldValues,
                    removeEntityArrayFieldValues |-> removeFieldValues,
                    doesEntityArrayFieldContainValue |-> doesEntityArrayFieldContainValue]

PlanOf(op) ==
    LET m == op.method
    IN CASE m \in DOMAIN Additions -> Additions[m]
         [] m \in DOMAIN Queries -> Queries[m]
         [] m \in DOMAIN Updates -> Updates[m]
         [] m \in DOMAIN Deletions -> Deletions[m]
         [] m \in DOMAIN Removals -> Removals[m]
         [] OTHER -> ValueOperations[m]

-----------------------------------------------------------------------------
(* The operations that are asked for.                                      *)

Call(method) ==
    [method |-> method, id |-> Nobody, filter |-> NoName, name |-> NoName, version |-> -1,
     subs |-> {}, withRelation |-> FALSE, hooks |-> FALSE, substitute |-> FALSE]

ById(methods) == {[Call(m) EXCEPT !.id = i] : m \in methods, i \in {1, 2}}
ByField(methods) == {[Call(m) EXCEPT !.filter = n] : m \in methods, n \in Names}
ByFilters(methods) == {[Call(m) EXCEPT !.filter = n] : m \in methods, n \in Names \cup {All}}

WithHooks(calls) == calls \cup {[c EXCEPT !.hooks = TRUE] : c \in calls}
WithSubstitutes(calls) == calls \cup {[c EXCEPT !.substitute = TRUE] : c \in calls}
Given(call, subs) == [call EXCEPT !.subs = subs, !.withRelation = TRUE]
WithSubs(calls, subs) == {Given(c, s) : c \in calls, s \in subs}
WithNames(calls, names) == {[c EXCEPT !.name = n] : c \in calls, n \in names}

\* Ids of sub-entities, ids of other entities, or values.
SomeSubs(kind) == IF kind = "manyToMany" THEN {{}, {1}, {1, 2}} ELSE {{}, {0}, {1}, {0, 1}}

RelationCalls(kind) ==
    WithSubs(WithNames({Call("createEntity")}, {"new"}), SomeSubs(kind) \ {{}})
    \cup WithSubs(ById({"updateEntity"}), SomeSubs(kind))
    \cup IF kind = "values"
         THEN WithSubs(ById({"addEntityArrayFieldValues", "removeEntityArrayFieldValues"}),
                       SomeSubs(kind) \ {{}})
              \cup ById({"doesEntityArrayFieldContainValue"})
         ELSE WithSubs(WithSubstitutes(ById({"addSubEntityToEntityById"})), {{1}})
              \cup WithSubs(ByField({"addSubEntityToEntityByFilters"}), {{1}})
              \cup WithSubs(WithHooks(ById({"addSubEntitiesToEntityById"}))
                            \cup ByFilters({"addSubEntitiesToEntityByFilters"}), {{1, 2}})
              \cup WithSubs(WithHooks(ById({"removeSubEntityByIdFromEntityById"}))
                            \cup ByFilters({"removeSubEntityByIdFromEntityByFilters"}),
                            {{IF kind = "manyToMany" THEN 2 ELSE 1}})
              \cup WithSubs(ById({"removeSubEntitiesByJsonPathFromEntityById"})
                            \cup ByField({"removeSubEntitiesByJsonPathFromEntityByFilters"}),
                            {{0, 1, 2}})

EntityCalls ==
    {[c EXCEPT !.version = v] : c \in WithHooks(ById({"updateEntity"})), v \in {-1, 1}}
    \cup ByField({"updateEntityByField"})
    \cup WithNames(WithHooks(ByFilters({"updateEntityByFilters"})), {"new"})
    \cup WithNames(ByFilters({"updateEntitiesByFilters"}), {NoName})
    \cup WithHooks(ById({"deleteEntityById"}) \cup ByFilters({"deleteEntityByFilters"})
                   \cup ByField({"deleteEntityByField"}))
    \cup ByFilters({"deleteEntitiesByFilters"}) \cup ByField({"deleteEntitiesByField"})
    \cup {[Call("deleteAllEntities") EXCEPT !.filter = All]}

QueryCalls ==
    {[c EXCEPT !.hooks = TRUE] :
        c \in WithSubstitutes(ById({"getEntityById"})) \cup ByField({"getEntityByField"})
              \cup ByFilters({"getEntityByFilters", "getEntitiesByFilters"})}
    \cup ById({"getEntitiesByIds"}) \cup ByField({"getEntitiesByField"})
    \cup ByFilters({"getEntityCount"})
    \cup {[Call("getAllEntities") EXCEPT !.filter = All]}

Calls == [kind \in Relations |-> {c \in RelationCalls(kind) \cup EntityCalls \cup QueryCalls :
                                     c.method \in Methods}]

\* The entities an operation is about.
Targets(op) ==
    {i \in Existing : i = op.id \/ op.filter = All \/ rows[i].name = op.filter}

-----------------------------------------------------------------------------
NoRequest == [pc |-> "idle", op |-> Call("getAllEntities"), entity |-> Nobody, version |-> 0,
              wanted |-> {}, locks |-> {}, shares |-> {}, seen |-> {}, removed |-> {},
              added |-> {}, answer |-> "none", done |-> 0]

Child(key, parent, id, value) ==
    [key |-> key, parent |-> parent, id |-> id, value |-> value, content |-> 0]

Init ==
    /\ relation \in Relations
    /\ rows = [i \in {1, 2} |-> [version |-> 1, name |-> IF i = 1 THEN "a" ELSE "b"]]
    /\ children = IF relation = "manyToMany" THEN {Child(1, 1, 0, 2)}
                  ELSE {Child(1, 1, 0, 0), Child(2, 1, 1, IF relation = "values" THEN 1 ELSE 0),
                        Child(3, 2, 0, 0)}
    /\ serials = [entities |-> 2, children |-> 3]
    /\ request = [r \in Requests |-> NoRequest]

Others(r) == Requests \ {r}
LockedByOthers(r) == UNION {request[q].locks : q \in Others(r)}
SharedByOthers(r) == UNION {request[q].shares : q \in Others(r)}

\* Mutant: a transaction that fails is not rolled back.
EndedUnlessFailed(r, answer) ==
    request' = [request EXCEPT ![r] =
                   [NoRequest EXCEPT !.answer = answer, !.done = request[r].done,
                       !.locks = IF answer = "error" THEN request[r].locks ELSE {}]]

\* The end of the transaction, with what it wrote or without.
Ended(r, answer) ==
    request' = [request EXCEPT ![r] =
                   [NoRequest EXCEPT !.answer = answer, !.done = request[r].done]]
RolledBack(r) == Ended(r, "error") /\ UNCHANGED <<relation, rows, children, serials>>

Tables == <<relation, rows, children, serials>>

Begin(r) ==
    /\ request[r].pc = "idle"
    /\ request[r].done < MaxOperations
    /\ \E op \in Calls[relation] :
          LET reads == PlanOf(op).reads
          IN request' = [request EXCEPT ![r] =
                [NoRequest EXCEPT !.op = op, !.done = request[r].done + 1,
                                  !.pc = IF reads \in {"entity", "query"}
                                            \/ (reads = "ifHooked" /\ op.hooks)
                                         THEN "selecting" ELSE "children"]]
    /\ UNCHANGED Tables

\* The rows a select waits for: FOR UPDATE locks them all, and a query outside
\* transactions locks none.
Wants(op, i) ==
    IF op.method = "getEntitiesByFilters" THEN Targets(op) ELSE {i}

\* The statement's snapshot: rows of the relation that are committed while it
\* waits for the lock are not in what it returns.
Selecting(r, op, i) ==
    request' = [request EXCEPT ![r].pc = "locking", ![r].op = op, ![r].entity = i,
                               ![r].wanted = Wants(op, i), ![r].seen = ChildrenOf(i)]

\* ifEntityNotFoundUse and ifEntityNotFoundReturn give another entity or an error.
Missing(r) ==
    LET op == request[r].op
    IN IF op.substitute
       THEN \/ \E i \in Existing : Selecting(r, [op EXCEPT !.id = i, !.filter = NoName], i)
            \/ Ended(r, "error")
       ELSE Ended(r, PlanOf(op).missing)

SelectEntity(r) ==
    LET op == request[r].op
    IN /\ request[r].pc = "selecting"
       /\ UNCHANGED Tables
       /\ IF Targets(op) = {} THEN Missing(r)
          ELSE IF PlanOf(op).reads = "query" /\ ~op.hooks THEN Ended(r, "ok")
          ELSE \E i \in Targets(op) : Selecting(r, op, i)

VersionMismatch(op, i) ==
    op.method = "updateEntity" /\ op.version # -1 /\ rows[i].version # op.version

\* additions to a many-to-many relation select the other entities first
AfterLocking(op) ==
    IF relation = "manyToMany" /\ PlanOf(op).onChildren = "add" THEN "targets" ELSE "children"

\* Mutant: the select that comes before the writes is not FOR UPDATE.
AcquiredByQueries(r) == IF PlanOf(request[r].op).reads = "query" THEN request[r].wanted ELSE {}

Acquired(r) == request[r].wanted

\* What was locked is returned as it is now, unless it no longer satisfies the
\* conditions: then the select goes on to other rows.  Then the hooks.
LockEntity(r) ==
    LET op == request[r].op
        entity == request[r].entity
    IN /\ request[r].pc = "locking"
       /\ request[r].wanted \cap (LockedByOthers(r) \cup SharedByOthers(r)) = {}
       /\ UNCHANGED Tables
       /\ IF entity \notin Targets(op)
          THEN request' = [request EXCEPT ![r].pc = "selecting"]
          ELSE \E ok \in IF op.hooks THEN EntityPreHookOutcomes ELSE {TRUE} :
                  IF ok /\ ~VersionMismatch(op, entity)
                  THEN request' = [request EXCEPT ![r].pc = AfterLocking(op),
                                                  ![r].locks = Acquired(r),
                                                  ![r].version = rows[entity].version]
                  ELSE Ended(r, "error")

\* getEntityById of an entity that is added to a many-to-many relation: in the
\* transaction, so FOR UPDATE.
LockSubEntity(r) ==
    LET remaining == request[r].op.subs \ request[r].locks
    IN /\ request[r].pc = "targets"
       /\ UNCHANGED Tables
       /\ IF remaining = {} THEN request' = [request EXCEPT ![r].pc = "children"]
          ELSE LET i == Min(remaining)
               IN /\ i \notin LockedByOthers(r) \cup SharedByOthers(r)
                  /\ IF i \in Existing
                     THEN request' = [request EXCEPT ![r].locks = @ \cup {i}]
                     ELSE Ended(r, "error")

-----------------------------------------------------------------------------
(* What is done to the rows of the relation.                               *)

Change(removed, added) == [error |-> FALSE, removed |-> removed, added |-> added]
Refused == [error |-> TRUE, removed |-> {}, added |-> {}]

NewChildren(parent, new) ==
    {Child(serials.children + 1 + Cardinality({d \in new : d.id + d.value < c.id + c.value}),
           parent, c.id, c.value) : c \in new}

Place(i, subs) == Cardinality({j \in subs : j < i})
NewSubs(subs) ==
    CASE relation \in OneToMany -> {[id |-> i, value |-> 0] : i \in subs}
      [] relation = "manyToMany" -> {[id |-> 0, value |-> i] : i \in subs}
      [] relation = "values" -> {[id |-> Place(i, subs), value |-> i] : i \in subs}

\* The ids that sub-entities are given must be 0, 1, ...
CreateSubEntities(r, subs) ==
    IF relation \in OneToMany /\ subs # 0 .. Cardinality(subs) - 1 THEN Refused
    ELSE Change({}, NewChildren(serials.entities + 1, NewSubs(subs)))

\* The entities of a many-to-many relation have no id: none is a maximum.
MaxSubItemId(seen) ==
    IF relation = "manyToMany" THEN -1 ELSE Max({-1} \cup {c.id : c \in seen})

\* Mutant: the largest id is taken for the number of sub-entities.
TooManyByOne(seen, n) == MaxSubItemId(seen) + n > MaxSize

TooMany(seen, n) == MaxSubItemId(seen) + n >= MaxSize

AddSubEntities(entity, seen, subs) ==
    LET n == Cardinality(subs)
    IN IF TooMany(seen, n) THEN Refused
       ELSE Change({}, NewChildren(entity,
                IF relation = "manyToMany" THEN NewSubs(subs)
                ELSE {[id |-> MaxSubItemId(seen) + 1 + i, value |-> 0] : i \in 0 .. n - 1}))

\* All values are given the same id.
AddValues(entity, seen, values) ==
    Change({}, NewChildren(entity, {[id |-> Cardinality(seen), value |-> v] : v \in values}))

RemoveValues(entity, values) == Change({c \in ChildrenOf(entity) : c.value \in values}, {})

\* The JSON path of a sub-entity by its id also finds those with that _id.
Selected(c, subs) ==
    IF relation = "manyToMany" THEN c.value \in subs
    ELSE c.id \in subs \/ (relation = "keyed" /\ c.key \in subs)

\* deleteEntityById is given the id of a sub-entity (by updateEntity), or its _id.
DeletedByPlace(c, selected) == \E s \in selected : c.key = s.id
DeletedById(c, selected) == \E s \in selected : c.key = s.key

RemoveSubEntities(entity, seen, subs) ==
    LET selected == {c \in seen : Selected(c, subs)}
    IN CASE relation = "manyToMany" ->
              Change({c \in ChildrenOf(entity) : \E s \in selected : c.value = s.value}, {})
         [] relation = "keyed" -> Change({c \in children : DeletedById(c, selected)}, {})
         [] relation = "numbered" -> IF selected = {} THEN Change({}, {}) ELSE Refused

\* getSubEntitiesByAction compares ids: those of a many-to-many relation are all
\* undefined, and equal.
SameSub(i, c) == relation = "manyToMany" \/ c.id = i

SubEntitiesToDelete(subs, seen) == {c \in seen : ~\E i \in subs : SameSub(i, c)}
SubEntitiesToAdd(subs, seen) == {i \in subs : ~\E c \in seen : SameSub(i, c)}
SubEntitiesToUpdate(subs, seen) == {c \in seen : \E i \in subs : SameSub(i, c)}

\* Sub-entities are deleted by their id as if it were their _id, added without
\* the id of the entity, and updated by their _id or, when their class has none,
\* by their id in whatever entity.
UpdateSubEntities(seen, subs) ==
    LET deleted == {c \in children : DeletedByPlace(c, SubEntitiesToDelete(subs, seen))}
        updated == {c \in children \ deleted : \E s \in SubEntitiesToUpdate(subs, seen) :
                       IF relation = "keyed" THEN c.key = s.key ELSE c.id = s.id}
    IN Change(deleted \cup updated,
              NewChildren(Nobody, NewSubs(SubEntitiesToAdd(subs, seen)))
              \cup {[c EXCEPT !.content = 1] : c \in updated})

UpdateAssociations(entity, seen, subs) ==
    Change({c \in ChildrenOf(entity) : \E s \in SubEntitiesToDelete(subs, seen) : c.value = s.value},
           NewChildren(entity, NewSubs(SubEntitiesToAdd(subs, seen))))

\* Each value deletes the values before it is inserted: no values, no deletion.
UpdateValues(entity, values) ==
    IF values = {} THEN Change({}, {})
    ELSE Change(ChildrenOf(entity), NewChildren(entity, NewSubs(values)))

ChangeOfChildren(r) ==
    LET op == request[r].op
        entity == request[r].entity
        seen == request[r].seen
        onChildren == PlanOf(op).onChildren
    IN CASE onChildren = "create" -> CreateSubEntities(r, op.subs)
         [] onChildren = "add" -> AddSubEntities(entity, seen, op.subs)
         [] onChildren = "addValues" -> AddValues(entity, seen, op.subs)
         [] onChildren = "removeValues" -> RemoveValues(entity, op.subs)
         [] onChildren = "remove" -> RemoveSubEntities(entity, seen, op.subs)
         [] onChildren = "cascade" -> Change({c \in children : c.parent \in Targets(op)}, {})
         [] onChildren = "reconcile" /\ op.withRelation ->
              (CASE relation \in OneToMany -> UpdateSubEntities(seen, op.subs)
                 [] relation = "manyToMany" -> UpdateAssociations(entity, seen, op.subs)
                 [] relation = "values" -> UpdateValues(entity, op.subs))
         [] OTHER -> Change({}, {})

-----------------------------------------------------------------------------
(* Statements, and the constraints that refuse them.                       *)

\* What is unique in the relation's table: a place, or a pair of entities.
Slot(c) == <<c.parent, IF relation = "manyToMany" THEN c.value ELSE c.id>>
Slots(cs) == {Slot(c) : c \in {d \in cs : d.parent # Nobody}}

Duplicates(cs) == \E c, d \in cs : c # d /\ c.parent # Nobody /\ Slot(c) = Slot(d)

\* The entities that foreign keys of new rows refer to stay until the commit.
References(change) ==
    IF relation = "manyToMany" THEN {c.value : c \in change.added} ELSE {}

ChildrenAreLocked(change, q) ==
    \/ References(change) \cap request[q].locks # {}
    \/ change.removed \cap request[q].removed # {}
    \/ Slots(change.added) \cap Slots(request[q].removed \cup request[q].added) # {}

Violates(change) ==
    \/ Duplicates((children \ change.removed) \cup change.added)
    \/ ~(References(change) \subseteq Existing)

WriteChildren(r) ==
    LET change == ChangeOfChildren(r)
    IN /\ request[r].pc = "children"
       /\ \A q \in Others(r) : ~ChildrenAreLocked(change, q)
       /\ IF change.error \/ Violates(change) THEN RolledBack(r)
          ELSE /\ request' = [request EXCEPT
                     ![r].pc = "row", ![r].removed = change.removed,
                     ![r].added = change.added, ![r].shares = References(change)]
               /\ serials' = [serials EXCEPT !.children =
                                 Max({@} \cup {c.key : c \in change.added})]
               /\ UNCHANGED <<relation, rows, children>>

\* The rows of entities that the last statement of r writes.
Written(r) ==
    LET op == request[r].op
        onRow == PlanOf(op).onRow
    IN CASE onRow = "increment" -> {request[r].entity}
         [] onRow \in {"set", "delete"} -> Targets(op)
         [] OTHER -> {}

Cascaded(r) ==
    {c \in children : c.parent \in Written(r)
                      \/ (relation = "manyToMany" /\ c.value \in Written(r))}

RowIsLocked(r, q) ==
    \/ Written(r) \cap request[q].locks # {}
    \/ /\ PlanOf(request[r].op).onRow = "delete"
       /\ \/ Written(r) \cap request[q].shares # {}
          \/ Cascaded(r) \cap request[q].removed # {}

\* Names are unique, and rows of array values keep their entity.
RowRefused(r) ==
    LET op == request[r].op
        onRow == PlanOf(op).onRow
    IN \/ /\ onRow \in {"insert", "set"} /\ op.name # NoName
          /\ \/ Cardinality(Written(r)) > 1
             \/ \E i \in Existing \ Written(r) :
                   rows[i].name = op.name /\ (onRow = "set" => Written(r) # {})
       \/ (onRow = "delete" /\ relation = "values" /\ Cascaded(r) \ request[r].removed # {})

Commit(r, newRows, newChildren, entities) ==
    /\ rows' = newRows
    /\ children' = newChildren
    /\ serials' = [serials EXCEPT !.entities = @ + entities]
    /\ Ended(r, "ok")
    /\ UNCHANGED relation

\* updateEntity and the like set the version they have read, and one more;
\* updates by filters increment it in the statement.
NewRow(r, i) ==
    LET op == request[r].op
    IN IF PlanOf(op).onRow = "increment"
       THEN [rows[i] EXCEPT !.version = request[r].version + 1]
       ELSE [version |-> rows[i].version + 1,
             name |-> IF op.name = NoName THEN rows[i].name ELSE op.name]

WriteRow(r) ==
    LET op == request[r].op
        onRow == PlanOf(op).onRow
        changed == (children \ request[r].removed) \cup request[r].added
        new == serials.entities + 1
    IN /\ request[r].pc = "row"
       /\ \A q \in Others(r) : ~RowIsLocked(r, q)
       /\ \E ok \in IF op.hooks THEN PostHookOutcomes ELSE {TRUE} :
             IF RowRefused(r) \/ ~ok THEN RolledBack(r)
             ELSE CASE onRow = "insert" ->
                         Commit(r, [i \in Existing \cup {new} |->
                                       IF i = new THEN [version |-> 1, name |-> op.name] ELSE rows[i]],
                                changed, 1)
                    [] onRow \in {"increment", "set"} ->
                         Commit(r, [i \in Existing |->
                                       IF i \in Written(r) THEN NewRow(r, i) ELSE rows[i]],
                                changed, 0)
                    [] onRow = "delete" ->
                         Commit(r, [i \in Existing \ Written(r) |-> rows[i]],
                                changed \ Cascaded(r), 0)
                    [] OTHER -> Commit(r, rows, changed, 0)

\* The database ends a transaction of a set in which each waits for another.
WaitsFor(r, q) ==
    LET held == request[q].locks \cup request[q].shares
    IN CASE request[r].pc = "locking" -> request[r].wanted \cap held # {}
         [] request[r].pc = "targets" -> (request[r].op.subs \ request[r].locks) \cap held # {}
         [] request[r].pc = "children" -> ChildrenAreLocked(ChangeOfChildren(r), q)
         [] request[r].pc = "row" -> RowIsLocked(r, q)
         [] OTHER -> FALSE

Deadlock(r) ==
    /\ \E S \in SUBSET Requests :
          r \in S /\ \A p \in S : \E q \in S \ {p} : WaitsFor(p, q)
    /\ RolledBack(r)

Step(r) ==
    \/ SelectEntity(r) \/ LockEntity(r) \/ LockSubEntity(r)
    \/ WriteChildren(r) \/ WriteRow(r)
    \/ Deadlock(r)

Next == \E r \in Requests : Begin(r) \/ Step(r)

\* The database executes the statements of every transaction.
Spec == Init /\ [][Next]_vars /\ \A r \in Requests : WF_vars(Step(r))

-----------------------------------------------------------------------------
(* Properties.                                                             *)

TypeOK ==
    /\ relation \in Relations
    /\ \A i \in Existing : rows[i].version \in Nat \ {0} /\ i \in 1 .. serials.entities
    /\ \A c \in children : c.key \in 1 .. serials.children
    /\ \A r \in Requests :
          /\ request[r].pc \in {"idle", "selecting", "locking", "targets", "children", "row"}
          /\ request[r].answer \in {"none", "ok", "error"}
          /\ request[r].locks \subseteq 1 .. serials.entities
          /\ request[r].pc = "idle" => request[r].locks \cup request[r].removed = {}

\* An update that has read an entity writes the version that follows the one the
\* entity has when it commits: no other transaction has written the entity, or
\* deleted it, since its version and the hooks were checked.
UpdatesBuildOnTheirRead ==
    [][\A r \in Requests :
          request[r].pc = "row" /\ request'[r].answer = "ok"
              /\ PlanOf(request[r].op).onRow = "increment" =>
          /\ request[r].entity \in Existing
          /\ rows'[request[r].entity].version = rows[request[r].entity].version + 1]_vars

\* A one-to-many relation never has more than its maximum of sub-entities, also
\* when the number is computed from a snapshot that misses rows.  (For a
\* many-to-many relation the code does not count those it has.)
MaximumIsKept ==
    relation \in OneToMany =>
        \A i \in Existing : Cardinality(ChildrenOf(i)) <= MaxSize

\* Operations on an entity take away sub-entities of that entity only, apart from
\* deletions and from updateEntity when it is given sub-entities.
OthersKeepTheirSubEntities ==
    [][\A r \in Requests :
          LET plan == PlanOf(request[r].op)
          IN /\ request[r] # request'[r]
             /\ plan.onChildren # "cascade"
             /\ plan.onChildren = "reconcile" => ~request[r].op.withRelation
             => \A c \in children \ children' : c.parent = request[r].entity]_vars

\* Every operation is answered: those that wait for each other's locks too.
RequestsAreAnswered ==
    \A r \in Requests : request[r].pc # "idle" ~> request[r].pc = "idle"
=============================================================================
