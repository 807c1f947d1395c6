------------------------- MODULE SqlEntitiesProofs -------------------------
(***************************************************************************)
(* Entity operations on SQL tables, for any requests, names and maximum of *)
(* sub-entities.                                                           *)
(*                                                                         *)
(* The argument is about what is known while a transaction is open.  An    *)
(* operation that has read its entity for update keeps it locked, so the   *)
(* entity has the version that was read until the operation commits        *)
(* (HoldsItsEntity).  Sub-entities are counted from a snapshot that may be *)
(* old: what bounds them is that every row that anybody has seen or is     *)
(* adding has a place below the maximum (PlacesOK), and that no place is   *)
(* taken twice whichever of the open transactions commits next (UniqueOK), *)
(* for the unique index refuses a place that is taken and waits for one    *)
(* that an open transaction takes.  Rows that are found again by their     *)
(* serial number are rows of the same entity (KeysOK).                     *)
(***************************************************************************)
EXTENDS SqlEntities, FiniteSetTheorems, TLAPS

-----------------------------------------------------------------------------
(* What the operations are.                                                *)

MethodNames == DOMAIN Additions \cup DOMAIN Queries \cup DOMAIN Updates
               \cup DOMAIN Deletions \cup DOMAIN Removals \cup DOMAIN ValueOperations

Operations ==
    [method : MethodNames, id : Nat, filter : Names \cup {NoName, All},
     name : Names \cup {NoName, "new"}, version : Int, subs : SUBSET (0 .. 2),
     withRelation : BOOLEAN, hooks : BOOLEAN, substitute : BOOLEAN]

\* Values are not added to relations of sub-entities, nor sub-entities removed from
\* values, and entities are created with two sub-entities at most.
Fits(kind, op) ==
    /\ kind = "values" => op.method \notin DOMAIN Removals
    /\ kind \in OneToMany =>
          /\ op.method # "addEntityArrayFieldValues"
          /\ op.method = "createEntity" => op.subs \subseteq {0, 1}

\* The largest of a finite set of integers is one of them.
LEMMA MaxOfIntegers ==
    ASSUME NEW S, IsFiniteSet(S), S # {}, S \subseteq Int
    PROVE  Max(S) \in S /\ \A x \in S : Max(S) >= x
<1> DEFINE above == [x \in S |-> {y \in S : y > x}]
           T == {above[x] : x \in S}
<1>1. \A x \in S : above[x] \in SUBSET S
  OBVIOUS
<1>2. \A U \in SUBSET S : IsFiniteSet(U)
  BY FS_Subset
<1>3. T \subseteq FiniteSubsetsOf(S) /\ T # {}
  <2> HIDE DEF above
  <2> QED BY <1>1, <1>2 DEF FiniteSubsetsOf
<1>4. PICK U \in T : \A V \in T : ~(<<V, U>> \in StrictSubsetOrdering(S))
  <2> HIDE DEF T
  <2> QED BY <1>3, FS_StrictSubsetOrderingWellFounded, WFMin
<1>5. PICK x \in S : U = above[x]
  BY <1>4
<1>6. ASSUME NEW y \in S, y > x
      PROVE  FALSE
  <2>1. x \in Int /\ y \in Int /\ \A z \in S : z \in Int
    OBVIOUS
  <2>2. \A z \in S : z > y => z > x
    BY <1>6, <2>1
  <2>3. above[y] \subseteq above[x] /\ y \in above[x] /\ y \notin above[y]
    <3>1. \A z \in S : (z \in above[y] <=> z > y) /\ (z \in above[x] <=> z > x)
      OBVIOUS
    <3>2. y > x /\ ~(y > y)
      BY <1>6, <2>1
    <3>3. above[y] \subseteq S
      BY <1>1
    <3> HIDE DEF above
    <3> QED BY <2>2, <3>1, <3>2, <3>3
  <2>4. <<above[y], above[x]>> \in StrictSubsetOrdering(S)
    <3> HIDE DEF above
    <3> QED BY <1>1, <2>3 DEF StrictSubsetOrdering
  <2> QED
    <3> HIDE DEF above
    <3> QED BY <1>4, <1>5, <2>4
<1>7. \A y \in S : x >= y
  BY <1>6
<1> QED BY <1>7 DEF Max

\* What the properties tell apart in the plans of the operations.
PlanFits(plan, m) ==
    /\ plan.onRow = "increment" => plan.reads = "entity"
    /\ plan.onRow = "delete" => plan.onChildren = "cascade"
    /\ plan.onChildren = "create" => m = "createEntity"
    /\ plan.onChildren = "addValues" => m = "addEntityArrayFieldValues"
    /\ plan.onChildren = "remove" => m \in DOMAIN Removals
    /\ plan.reads = "entity" => m # "getEntitiesByFilters"
    /\ plan.missing \in {"ok", "error"}
    /\ plan.onChildren \in {"add", "remove", "addValues", "removeValues", "reconcile"}
          => plan.reads = "entity"

\* The plan of every operation has these properties.
LEMMA PlanFacts ==
    ASSUME NEW op \in Operations
    PROVE  PlanFits(PlanOf(op), op.method)
<1>1. op.method \in MethodNames
  BY DEF Operations
<1> USE DEF Plan, PlanFits
<1>2. \A m \in DOMAIN Additions : PlanFits(Additions[m], m)
  BY DEF Additions, createEntity, addSubEntities, addSubEntitiesByFilters
<1>3. \A m \in DOMAIN Queries : PlanFits(Queries[m], m)
  BY DEF Queries, Query, getAllEntities, getEntitiesByFilters, getEntityByFilters,
      getEntitiesCount, getEntityById, getEntitiesByIds, getEntityWhere, getEntitiesWhere
<1>4. \A m \in DOMAIN Updates : PlanFits(Updates[m], m)
  BY DEF Updates, updateEntity, updateEntityByFilters, updateEntitiesByFilters,
      updateEntityWhere
<1>5. \A m \in DOMAIN Deletions : PlanFits(Deletions[m], m)
  BY DEF Deletions, deleteEntityById, deleteEntitiesWhere, deleteEntityWhere,
      deleteEntityByFilters, deleteEntitiesByFilters
<1>6. \A m \in DOMAIN Removals : PlanFits(Removals[m], m)
  BY DEF Removals, removeSubEntities, removeSubEntitiesByFilters
<1>7. \A m \in DOMAIN ValueOperations : PlanFits(ValueOperations[m], m)
  BY DEF ValueOperations, deleteAllEntities, addFieldValues, removeFieldValues,
      doesEntityArrayFieldContainValue, Query
<1> HIDE DEF PlanFits
<1> QED BY <1>1, <1>2, <1>3, <1>4, <1>5, <1>6, <1>7 DEF PlanOf, MethodNames

-----------------------------------------------------------------------------
(* The operations that are asked for.                                      *)

OperationsOf(methods) == {op \in Operations : op.method \in methods}

\* Methods of any relation, and methods of relations of entities.
Plain == MethodNames \ ({"createEntity", "addEntityArrayFieldValues"} \cup DOMAIN Removals)
SubEntityMethods == Plain \cup DOMAIN Removals

\* The ways to give operations their arguments keep them operations.
LEMMA CallTypes ==
    ASSUME NEW M \in SUBSET MethodNames
    PROVE  /\ \A m \in M : Call(m) \in OperationsOf(M)
           /\ ById(M) \subseteq OperationsOf(M)
           /\ ByField(M) \subseteq OperationsOf(M)
           /\ ByFilters(M) \subseteq OperationsOf(M)
<1>1. \A m \in M : Call(m) \in OperationsOf(M)
  BY DEF Call, Operations, OperationsOf, Nobody
<1>2. \A m \in M, i \in {1, 2} : [Call(m) EXCEPT !.id = i] \in OperationsOf(M)
  BY <1>1 DEF Operations, OperationsOf
<1>3. \A m \in M, n \in Names \cup {All} :
         [Call(m) EXCEPT !.filter = n] \in OperationsOf(M)
  BY <1>1 DEF Operations, OperationsOf
<1>4. ById(M) \subseteq OperationsOf(M)
  <2> SUFFICES ASSUME NEW c \in ById(M) PROVE c \in OperationsOf(M)
    OBVIOUS
  <2>1. PICK m \in M, i \in {1, 2} : c = [Call(m) EXCEPT !.id = i]
    BY DEF ById
  <2> QED BY <1>2, <2>1
<1>5. ByField(M) \subseteq OperationsOf(M) /\ ByFilters(M) \subseteq OperationsOf(M)
  BY <1>3 DEF ByField, ByFilters
<1> QED BY <1>1, <1>4, <1>5

\* Hooks, substitutes, sub-entities, names and versions do not change the method.
LEMMA ArgumentTypes ==
    ASSUME NEW M \in SUBSET MethodNames, NEW C \in SUBSET OperationsOf(M)
    PROVE  /\ WithHooks(C) \subseteq OperationsOf(M)
           /\ WithSubstitutes(C) \subseteq OperationsOf(M)
           /\ \A subs \in SUBSET (SUBSET (0 .. 2)) :
                 WithSubs(C, subs) \subseteq {op \in OperationsOf(M) : op.subs \in subs}
           /\ \A names \in SUBSET (Names \cup {NoName, "new"}) :
                 WithNames(C, names) \subseteq OperationsOf(M)
           /\ \A v \in Int : {[c EXCEPT !.version = v] : c \in C} \subseteq OperationsOf(M)
<1>1. \A c \in C : c \in Operations /\ c.method \in M
  BY DEF OperationsOf
<1>2. \A c \in C : [c EXCEPT !.hooks = TRUE] \in OperationsOf(M)
  BY <1>1 DEF Operations, OperationsOf
<1>3. \A c \in C : [c EXCEPT !.substitute = TRUE] \in OperationsOf(M)
  BY <1>1 DEF Operations, OperationsOf
<1>4. \A c \in C, s \in SUBSET (0 .. 2) :
         Given(c, s) \in OperationsOf(M) /\ Given(c, s).subs = s
  BY <1>1 DEF Operations, OperationsOf, Given
<1>5. \A c \in C, n \in Names \cup {NoName, "new"} :
         [c EXCEPT !.name = n] \in OperationsOf(M)
  BY <1>1 DEF Operations, OperationsOf
<1>6. \A c \in C, v \in Int : [c EXCEPT !.version = v] \in OperationsOf(M)
  BY <1>1 DEF Operations, OperationsOf
<1>7. WithHooks(C) \subseteq OperationsOf(M)
  BY <1>2 DEF WithHooks
<1>8. WithSubstitutes(C) \subseteq OperationsOf(M)
  BY <1>3 DEF WithSubstitutes
<1>9. ASSUME NEW subs \in SUBSET (SUBSET (0 .. 2))
      PROVE  WithSubs(C, subs) \subseteq {op \in OperationsOf(M) : op.subs \in subs}
  <2> SUFFICES ASSUME NEW op \in WithSubs(C, subs)
               PROVE  op \in OperationsOf(M) /\ op.subs \in subs
    OBVIOUS
  <2>1. PICK c \in C, s \in subs : op = Given(c, s)
    BY DEF WithSubs
  <2>2. s \in SUBSET (0 .. 2)
    OBVIOUS
  <2> QED BY <1>4, <2>1, <2>2
<1>10. ASSUME NEW names \in SUBSET (Names \cup {NoName, "new"})
       PROVE  WithNames(C, names) \subseteq OperationsOf(M)
  BY <1>5 DEF WithNames
<1> QED BY <1>6, <1>7, <1>8, <1>9, <1>10

\* The same for methods of a larger set.
LEMMA CallsOfMethods ==
    ASSUME NEW P \in SUBSET MethodNames
    PROVE  /\ OperationsOf(P) \in SUBSET Operations
           /\ \A M \in SUBSET P :
                 /\ ById(M) \in SUBSET OperationsOf(P)
                 /\ ByField(M) \in SUBSET OperationsOf(P)
                 /\ ByFilters(M) \in SUBSET OperationsOf(P)
           /\ \A C \in SUBSET OperationsOf(P) :
                 /\ WithHooks(C) \in SUBSET OperationsOf(P)
                 /\ WithSubstitutes(C) \in SUBSET OperationsOf(P)
                 /\ \A subs \in SUBSET (SUBSET (0 .. 2)) :
                       WithSubs(C, subs) \in SUBSET OperationsOf(P)
                 /\ \A names \in SUBSET (Names \cup {NoName, "new"}) :
                       WithNames(C, names) \in SUBSET OperationsOf(P)
<1>1. ASSUME NEW M \in SUBSET P
      PROVE  /\ ById(M) \in SUBSET OperationsOf(P)
             /\ ByField(M) \in SUBSET OperationsOf(P)
             /\ ByFilters(M) \in SUBSET OperationsOf(P)
  <2>1. M \in SUBSET MethodNames
    OBVIOUS
  <2>2. OperationsOf(M) \subseteq OperationsOf(P)
    BY DEF OperationsOf
  <2> QED BY <2>1, <2>2, CallTypes
<1>2. ASSUME NEW C \in SUBSET OperationsOf(P)
      PROVE  /\ WithHooks(C) \in SUBSET OperationsOf(P)
             /\ WithSubstitutes(C) \in SUBSET OperationsOf(P)
             /\ \A subs \in SUBSET (SUBSET (0 .. 2)) :
                   WithSubs(C, subs) \in SUBSET OperationsOf(P)
             /\ \A names \in SUBSET (Names \cup {NoName, "new"}) :
                   WithNames(C, names) \in SUBSET OperationsOf(P)
  BY ArgumentTypes
<1>3. OperationsOf(P) \in SUBSET Operations
  BY DEF OperationsOf
<1> QED BY <1>1, <1>2, <1>3

\* Operations of these methods fit every relation.
LEMMA PlainOperationsFit ==
    /\ Plain \in SUBSET MethodNames
    /\ \A kind \in Relations, op \in OperationsOf(Plain) : op \in Operations /\ Fits(kind, op)
  BY DEF OperationsOf, Plain, Fits

\* Operations of these methods fit relations of entities.
LEMMA SubEntityOperationsFit ==
    /\ SubEntityMethods \in SUBSET MethodNames
    /\ \A kind \in Relations \ {"values"}, op \in OperationsOf(SubEntityMethods) :
          op \in Operations /\ Fits(kind, op)
<1>1. /\ "createEntity" \notin DOMAIN Removals
      /\ "addEntityArrayFieldValues" \notin DOMAIN Removals
  BY DEF Removals
<1> QED BY <1>1 DEF OperationsOf, SubEntityMethods, Plain, MethodNames, Fits

\* What CallsOfMethods says of both.
LEMMA PlainCalls ==
    /\ \A M \in SUBSET Plain :
          /\ ById(M) \in SUBSET OperationsOf(Plain)
          /\ ByField(M) \in SUBSET OperationsOf(Plain)
          /\ ByFilters(M) \in SUBSET OperationsOf(Plain)
    /\ \A C \in SUBSET OperationsOf(Plain) :
          /\ WithHooks(C) \in SUBSET OperationsOf(Plain)
          /\ WithSubstitutes(C) \in SUBSET OperationsOf(Plain)
          /\ \A subs \in SUBSET (SUBSET (0 .. 2)) :
                WithSubs(C, subs) \in SUBSET OperationsOf(Plain)
          /\ \A names \in SUBSET (Names \cup {NoName, "new"}) :
                WithNames(C, names) \in SUBSET OperationsOf(Plain)
  BY PlainOperationsFit, CallsOfMethods

\* What CallsOfMethods says of operations on sub-entities.
LEMMA SubEntityCalls ==
    /\ \A M \in SUBSET SubEntityMethods :
          /\ ById(M) \in SUBSET OperationsOf(SubEntityMethods)
          /\ ByField(M) \in SUBSET OperationsOf(SubEntityMethods)
          /\ ByFilters(M) \in SUBSET OperationsOf(SubEntityMethods)
    /\ \A C \in SUBSET OperationsOf(SubEntityMethods) :
          /\ WithHooks(C) \in SUBSET OperationsOf(SubEntityMethods)
          /\ WithSubstitutes(C) \in SUBSET OperationsOf(SubEntityMethods)
          /\ \A subs \in SUBSET (SUBSET (0 .. 2)) :
                WithSubs(C, subs) \in SUBSET OperationsOf(SubEntityMethods)
  BY SubEntityOperationsFit, CallsOfMethods

\* The methods of the operations on entities and of the queries.
LEMMA MethodsArePlain ==
    {"removeEntityArrayFieldValues", "doesEntityArrayFieldContainValue",
     "updateEntity", "updateEntityByField", "updateEntityByFilters",
     "updateEntitiesByFilters", "deleteEntityById", "deleteEntityByFilters",
     "deleteEntityByField", "deleteEntitiesByFilters", "deleteEntitiesByField",
     "deleteAllEntities", "getEntityById", "getEntityByField", "getEntityByFilters",
     "getEntitiesByFilters", "getEntitiesByIds", "getEntitiesByField", "getEntityCount",
     "getAllEntities"} \subseteq Plain
  BY DEF Plain, MethodNames, Additions, Queries, Updates, Deletions, Removals,
         ValueOperations

\* The methods of the operations on sub-entities.
LEMMA MethodsOfSubEntities ==
    {"addSubEntityToEntityById", "addSubEntityToEntityByFilters",
     "addSubEntitiesToEntityById", "addSubEntitiesToEntityByFilters",
     "removeSubEntityByIdFromEntityById", "removeSubEntityByIdFromEntityByFilters",
     "removeSubEntitiesByJsonPathFromEntityById",
     "removeSubEntitiesByJsonPathFromEntityByFilters"} \subseteq SubEntityMethods
  BY DEF SubEntityMethods, Plain, MethodNames, Additions, Removals

\* Operations on a relation fit it.
LEMMA RelationCallsFit ==
    ASSUME NEW kind \in Relations, NEW op \in RelationCalls(kind)
    PROVE  op \in Operations /\ Fits(kind, op)
<1> DEFINE subs == SomeSubs(kind) \ {{}}
           ops == OperationsOf(SubEntityMethods)
           removed == {{IF kind = "manyToMany" THEN 2 ELSE 1}}
<1>1. /\ SomeSubs(kind) \in SUBSET (SUBSET (0 .. 2)) /\ subs \in SUBSET (SUBSET (0 .. 2))
      /\ {{1}} \in SUBSET (SUBSET (0 .. 2)) /\ {{1, 2}} \in SUBSET (SUBSET (0 .. 2))
      /\ {{0, 1, 2}} \in SUBSET (SUBSET (0 .. 2)) /\ removed \in SUBSET (SUBSET (0 .. 2))
      /\ kind \in OneToMany => \A s \in subs : s \subseteq {0, 1}
  BY DEF SomeSubs, Relations, OneToMany
<1>2. ASSUME op \in WithSubs(WithNames({Call("createEntity")}, {"new"}), subs)
      PROVE  op \in Operations /\ Fits(kind, op)
  <2>1. "createEntity" \in MethodNames
    BY DEF MethodNames, Additions
  <2>2. {Call("createEntity")} \in SUBSET OperationsOf({"createEntity"})
    BY <2>1, CallTypes
  <2>3. WithNames({Call("createEntity")}, {"new"}) \in SUBSET OperationsOf({"createEntity"})
    BY <2>1, <2>2, ArgumentTypes
  <2>4. WithSubs(WithNames({Call("createEntity")}, {"new"}), subs)
           \subseteq {o \in OperationsOf({"createEntity"}) : o.subs \in subs}
    <3>1. {"createEntity"} \in SUBSET MethodNames
      BY <2>1
    <3> HIDE DEF subs
    <3> QED BY <1>1, <2>3, <3>1, ArgumentTypes
  <2>5. op \in OperationsOf({"createEntity"}) /\ op.subs \in subs
    BY <1>2, <2>4
  <2> QED BY <1>1, <2>5 DEF OperationsOf, Fits, Removals
<1>3. WithSubs(ById({"updateEntity"}), SomeSubs(kind)) \in SUBSET OperationsOf(Plain)
  <2>1. {"updateEntity"} \in SUBSET Plain
    BY MethodsArePlain
  <2> QED BY <1>1, <2>1, PlainCalls
<1>4. ASSUME kind = "values",
             op \in WithSubs(ById({"addEntityArrayFieldValues",
                                   "removeEntityArrayFieldValues"}), subs)
                    \cup ById({"doesEntityArrayFieldContainValue"})
      PROVE  op \in Operations /\ Fits(kind, op)
  <2> DEFINE M == {"addEntityArrayFieldValues", "removeEntityArrayFieldValues"}
             D == {"doesEntityArrayFieldContainValue"}
  <2>1. M \in SUBSET MethodNames /\ D \in SUBSET MethodNames
    BY DEF MethodNames, Additions, ValueOperations
  <2>2. ById(M) \in SUBSET OperationsOf(M) /\ ById(D) \in SUBSET OperationsOf(D)
    BY <2>1, CallTypes
  <2>3. WithSubs(ById(M), subs) \subseteq {o \in OperationsOf(M) : o.subs \in subs}
    BY <1>1, <2>1, <2>2, ArgumentTypes
  <2>4. op \in Operations
    BY <1>4, <2>2, <2>3 DEF OperationsOf
  <2>5. op.method \in M \cup D
    BY <1>4, <2>2, <2>3 DEF OperationsOf
  <2> QED BY <1>4, <2>4, <2>5 DEF Fits, OneToMany, Removals
<1>5. WithSubs(WithSubstitutes(ById({"addSubEntityToEntityById"})), {{1}}) \in SUBSET ops
  <2>1. {"addSubEntityToEntityById"} \in SUBSET SubEntityMethods
    BY MethodsOfSubEntities
  <2>2. ById({"addSubEntityToEntityById"}) \in SUBSET ops
    BY <2>1, SubEntityCalls
  <2>3. WithSubstitutes(ById({"addSubEntityToEntityById"})) \in SUBSET ops
    BY <2>2, SubEntityCalls
  <2> QED BY <1>1, <2>3, SubEntityCalls
<1>6. WithSubs(ByField({"addSubEntityToEntityByFilters"}), {{1}}) \in SUBSET ops
  <2>1. {"addSubEntityToEntityByFilters"} \in SUBSET SubEntityMethods
    BY MethodsOfSubEntities
  <2>2. ByField({"addSubEntityToEntityByFilters"}) \in SUBSET ops
    BY <2>1, SubEntityCalls
  <2> QED BY <1>1, <2>2, SubEntityCalls
<1>7. WithSubs(WithHooks(ById({"addSubEntitiesToEntityById"}))
               \cup ByFilters({"addSubEntitiesToEntityByFilters"}), {{1, 2}}) \in SUBSET ops
  <2>1. /\ {"addSubEntitiesToEntityById"} \in SUBSET SubEntityMethods
        /\ {"addSubEntitiesToEntityByFilters"} \in SUBSET SubEntityMethods
    BY MethodsOfSubEntities
  <2>2. /\ ById({"addSubEntitiesToEntityById"}) \in SUBSET ops
        /\ ByFilters({"addSubEntitiesToEntityByFilters"}) \in SUBSET ops
    BY <2>1, SubEntityCalls
  <2>3. WithHooks(ById({"addSubEntitiesToEntityById"})) \in SUBSET ops
    BY <2>2, SubEntityCalls
  <2>4. WithHooks(ById({"addSubEntitiesToEntityById"}))
        \cup ByFilters({"addSubEntitiesToEntityByFilters"}) \in SUBSET ops
    BY <2>2, <2>3
  <2> QED BY <1>1, <2>4, SubEntityCalls
<1>8. WithSubs(WithHooks(ById({"removeSubEntityByIdFromEntityById"}))
               \cup ByFilters({"removeSubEntityByIdFromEntityByFilters"}), removed)
         \in SUBSET ops
  <2>1. /\ {"removeSubEntityByIdFromEntityById"} \in SUBSET SubEntityMethods
        /\ {"removeSubEntityByIdFromEntityByFilters"} \in SUBSET SubEntityMethods
    BY MethodsOfSubEntities
  <2>2. /\ ById({"removeSubEntityByIdFromEntityById"}) \in SUBSET ops
        /\ ByFilters({"removeSubEntityByIdFromEntityByFilters"}) \in SUBSET ops
    BY <2>1, SubEntityCalls
  <2>3. WithHooks(ById({"removeSubEntityByIdFromEntityById"})) \in SUBSET ops
    BY <2>2, SubEntityCalls
  <2>4. WithHooks(ById({"removeSubEntityByIdFromEntityById"}))
        \cup ByFilters({"removeSubEntityByIdFromEntityByFilters"}) \in SUBSET ops
    BY <2>2, <2>3
  <2> QED BY <1>1, <2>4, SubEntityCalls
<1>9. WithSubs(ById({"removeSubEntitiesByJsonPathFromEntityById"})
               \cup ByField({"removeSubEntitiesByJsonPathFromEntityByFilters"}),
               {{0, 1, 2}}) \in SUBSET ops
  <2>1. /\ {"removeSubEntitiesByJsonPathFromEntityById"} \in SUBSET SubEntityMethods
        /\ {"removeSubEntitiesByJsonPathFromEntityByFilters"} \in SUBSET SubEntityMethods
    BY MethodsOfSubEntities
  <2>2. /\ ById({"removeSubEntitiesByJsonPathFromEntityById"}) \in SUBSET ops
        /\ ByField({"removeSubEntitiesByJsonPathFromEntityByFilters"}) \in SUBSET ops
    BY <2>1, SubEntityCalls
  <2>3. ById({"removeSubEntitiesByJsonPathFromEntityById"})
        \cup ByField({"removeSubEntitiesByJsonPathFromEntityByFilters"}) \in SUBSET ops
    BY <2>2
  <2> QED BY <1>1, <2>3, SubEntityCalls
<1>10. ASSUME kind # "values", op \in ops
       PROVE  op \in Operations /\ Fits(kind, op)
  BY <1>10, SubEntityOperationsFit
<1>11. \/ op \in WithSubs(WithNames({Call("createEntity")}, {"new"}), subs)
       \/ op \in WithSubs(ById({"updateEntity"}), SomeSubs(kind))
       \/ kind # "values" /\ op \in ops
       \/ /\ kind = "values"
          /\ op \in WithSubs(ById({"addEntityArrayFieldValues",
                                   "removeEntityArrayFieldValues"}), subs)
                    \cup ById({"doesEntityArrayFieldContainValue"})
  <2> HIDE DEF ops
  <2> QED BY <1>5, <1>6, <1>7, <1>8, <1>9 DEF RelationCalls
<1>12. ASSUME op \in WithSubs(ById({"updateEntity"}), SomeSubs(kind))
       PROVE  op \in Operations /\ Fits(kind, op)
  BY <1>3, <1>12, PlainOperationsFit
<1> QED BY <1>2, <1>4, <1>10, <1>11, <1>12

\* Operations on entities fit every relation.
LEMMA EntityCallsArePlain == EntityCalls \in SUBSET OperationsOf(Plain)
<1> DEFINE ops == OperationsOf(Plain)
           byFilters == WithHooks(ByFilters({"updateEntityByFilters"}))
           deletions == WithHooks(ById({"deleteEntityById"})
                                  \cup ByFilters({"deleteEntityByFilters"})
                                  \cup ByField({"deleteEntityByField"}))
           versions == {[c EXCEPT !.version = v] :
                           c \in WithHooks(ById({"updateEntity"})), v \in {-1, 1}}
<1>1. /\ ById({"updateEntity"}) \in SUBSET ops
      /\ ById({"deleteEntityById"}) \in SUBSET ops
      /\ ByField({"updateEntityByField"}) \in SUBSET ops
      /\ ByField({"deleteEntityByField"}) \in SUBSET ops
      /\ ByField({"deleteEntitiesByField"}) \in SUBSET ops
  <2>1. \A m \in {"updateEntity", "deleteEntityById", "updateEntityByField",
                  "deleteEntityByField", "deleteEntitiesByField"} : {m} \in SUBSET Plain
    BY MethodsArePlain
  <2> QED BY <2>1, PlainCalls
<1>2. /\ ByFilters({"updateEntityByFilters"}) \in SUBSET ops
      /\ ByFilters({"updateEntitiesByFilters"}) \in SUBSET ops
      /\ ByFilters({"deleteEntityByFilters"}) \in SUBSET ops
      /\ ByFilters({"deleteEntitiesByFilters"}) \in SUBSET ops
  <2>1. \A m \in {"updateEntityByFilters", "updateEntitiesByFilters",
                  "deleteEntityByFilters", "deleteEntitiesByFilters"} : {m} \in SUBSET Plain
    BY MethodsArePlain
  <2> QED BY <2>1, PlainCalls
<1>3. /\ {"new"} \in SUBSET (Names \cup {NoName, "new"})
      /\ {NoName} \in SUBSET (Names \cup {NoName, "new"})
  OBVIOUS
<1>4. WithNames(byFilters, {"new"}) \in SUBSET ops
  <2>1. byFilters \in SUBSET ops
    BY <1>2, PlainCalls
  <2> HIDE DEF byFilters
  <2> QED BY <1>3, <2>1, PlainCalls
<1>5. WithNames(ByFilters({"updateEntitiesByFilters"}), {NoName}) \in SUBSET ops
  BY <1>2, <1>3, PlainCalls
<1>6. deletions \in SUBSET ops
  <2>1. ById({"deleteEntityById"}) \cup ByFilters({"deleteEntityByFilters"})
           \cup ByField({"deleteEntityByField"}) \in SUBSET ops
    BY <1>1, <1>2
  <2> QED BY <2>1, PlainCalls
<1>7. versions \in SUBSET ops
  <2>1. WithHooks(ById({"updateEntity"})) \in SUBSET ops
    BY <1>1, PlainCalls
  <2>2. ASSUME NEW op \in versions
        PROVE  op \in ops
    <3>1. PICK c \in WithHooks(ById({"updateEntity"})), v \in {-1, 1} :
             op = [c EXCEPT !.version = v]
      OBVIOUS
    <3>2. c \in ops /\ v \in Int
      BY <2>1
    <3> HIDE DEF versions
    <3> QED BY <3>1, <3>2 DEF OperationsOf, Operations
  <2> QED BY <2>2
<1>8. [Call("deleteAllEntities") EXCEPT !.filter = All] \in ops
  <2>1. "deleteAllEntities" \in Plain /\ Plain \in SUBSET MethodNames
    BY MethodsArePlain DEF Plain
  <2>2. Call("deleteAllEntities") \in ops
    BY <2>1, CallTypes
  <2> QED BY <2>2 DEF OperationsOf, Operations
<1>9. EntityCalls = versions \cup ByField({"updateEntityByField"})
         \cup WithNames(byFilters, {"new"})
         \cup WithNames(ByFilters({"updateEntitiesByFilters"}), {NoName})
         \cup deletions
         \cup ByFilters({"deleteEntitiesByFilters"}) \cup ByField({"deleteEntitiesByField"})
         \cup {[Call("deleteAllEntities") EXCEPT !.filter = All]}
  BY DEF EntityCalls
<1>10. EntityCalls \in SUBSET ops
  <2> HIDE DEF ops, versions, byFilters, deletions
  <2> QED BY <1>1, <1>2, <1>4, <1>5, <1>6, <1>7, <1>8, <1>9
<1> QED BY <1>10

\* So do queries.
LEMMA QueryCallsArePlain == QueryCalls \in SUBSET OperationsOf(Plain)
<1> DEFINE ops == OperationsOf(Plain)
           Queried == WithSubstitutes(ById({"getEntityById"})) \cup ByField({"getEntityByField"})
                      \cup ByFilters({"getEntityByFilters", "getEntitiesByFilters"})
           hooked == {[c EXCEPT !.hooks = TRUE] : c \in Queried}
<1>1. /\ ById({"getEntityById"}) \in SUBSET ops /\ ById({"getEntitiesByIds"}) \in SUBSET ops
      /\ ByField({"getEntityByField"}) \in SUBSET ops
      /\ ByField({"getEntitiesByField"}) \in SUBSET ops
      /\ ByFilters({"getEntityByFilters", "getEntitiesByFilters"}) \in SUBSET ops
      /\ ByFilters({"getEntityCount"}) \in SUBSET ops
  <2>1. /\ \A m \in {"getEntityById", "getEntitiesByIds", "getEntityByField",
                     "getEntitiesByField", "getEntityCount"} : {m} \in SUBSET Plain
        /\ {"getEntityByFilters", "getEntitiesByFilters"} \in SUBSET Plain
    BY MethodsArePlain
  <2> QED BY <2>1, PlainCalls
<1>2. hooked \in SUBSET ops
  <2>1. Queried \in SUBSET ops
    <3>1. WithSubstitutes(ById({"getEntityById"})) \in SUBSET ops
      BY <1>1, PlainCalls
    <3> QED BY <1>1, <3>1
  <2>2. ASSUME NEW c \in Queried
        PROVE  [c EXCEPT !.hooks = TRUE] \in ops
    <3>1. c \in ops
      BY <2>1
    <3> HIDE DEF Queried
    <3> QED BY <3>1 DEF OperationsOf, Operations
  <2> HIDE DEF Queried, ops
  <2> QED BY <2>2
<1>3. [Call("getAllEntities") EXCEPT !.filter = All] \in ops
  <2>1. "getAllEntities" \in Plain /\ Plain \in SUBSET MethodNames
    BY MethodsArePlain DEF Plain
  <2>2. Call("getAllEntities") \in ops
    BY <2>1, CallTypes
  <2> QED BY <2>2 DEF OperationsOf, Operations
<1>4. QueryCalls = hooked \cup ById({"getEntitiesByIds"}) \cup ByField({"getEntitiesByField"})
                    \cup ByFilters({"getEntityCount"})
                    \cup {[Call("getAllEntities") EXCEPT !.filter = All]}
  BY DEF QueryCalls
<1>5. QueryCalls \in SUBSET ops
  <2> HIDE DEF ops, hooked
  <2> QED BY <1>1, <1>2, <1>3, <1>4
<1> QED BY <1>5

\* Every operation that is asked for is one, and fits the relation.
LEMMA CallsFit ==
    ASSUME NEW kind \in Relations, NEW op \in Calls[kind]
    PROVE  op \in Operations /\ Fits(kind, op)
<1>1. op \in RelationCalls(kind) \/ op \in OperationsOf(Plain)
  BY EntityCallsArePlain, QueryCallsArePlain DEF Calls
<1> QED BY <1>1, RelationCallsFit, PlainOperationsFit

-----------------------------------------------------------------------------
(* The inductive invariant.                                                *)

Children == [key : Nat, parent : Nat, id : Int, value : Nat, content : {0, 1}]

RequestTypes ==
    [pc : {"idle", "selecting", "locking", "targets", "children", "row"},
     op : Operations, entity : Nat, version : Nat, wanted : SUBSET Nat,
     locks : SUBSET Nat, shares : SUBSET Nat, seen : SUBSET Children,
     removed : SUBSET Children, added : SUBSET Children,
     answer : {"none", "ok", "error"}, done : Nat]

RowTypes == [version : Nat \ {0}, name : Names \cup {NoName, "new", "a", "b"}]

Typed ==
    /\ relation \in Relations
    /\ rows \in [Existing -> RowTypes]
    /\ serials \in [entities : Nat, children : Nat]
    /\ Existing \subseteq 1 .. serials.entities
    /\ children \subseteq Children /\ IsFiniteSet(children)
    /\ request \in [Requests -> RequestTypes]
    /\ \A r \in Requests : IsFiniteSet(request[r].seen) /\ IsFiniteSet(request[r].added)

\* The rows of sub-entities that somebody knows.
KnownRows ==
    children \cup UNION {request[r].seen \cup request[r].added : r \in Requests}

\* A row keeps its entity: serial numbers are given once.
KeysOK ==
    /\ \A c \in KnownRows : c.key \in 1 .. serials.children
    /\ \A c, d \in KnownRows : c.key = d.key => c.parent = d.parent

\* The places of sub-entities are less than their maximum.
InRange(c) ==
    relation \in OneToMany /\ c.parent # Nobody => c.id \in 0 .. MaxSize - 1

PlacesOK == \A c \in KnownRows : InRange(c)

\* Slots and duplicates for a kind of relation.
SlotIn(kind, c) == <<c.parent, IF kind = "manyToMany" THEN c.value ELSE c.id>>
SlotsIn(kind, cs) == {SlotIn(kind, c) : c \in {d \in cs : d.parent # Nobody}}
DuplicatesIn(kind, cs) ==
    \E c, d \in cs : c # d /\ c.parent # Nobody /\ SlotIn(kind, c) = SlotIn(kind, d)

\* Places are unique in the table, and remain so whoever commits first.
UniqueOK ==
    /\ ~DuplicatesIn(relation, children)
    /\ \A r \in Requests :
          ~DuplicatesIn(relation, (children \ request[r].removed) \cup request[r].added)
    /\ \A r, q \in Requests : r # q =>
          SlotsIn(relation, request[r].added) \cap SlotsIn(relation, request[q].added) = {}

\* What an operation has read stays as it was while it holds the lock.
HoldsItsEntity(g, table) ==
    /\ g.entity \in g.locks
    /\ g.entity \in DOMAIN table
    /\ table[g.entity].version = g.version

\* Operations on an entity that remove rows of that entity only.
KeepsToItsEntity(op) ==
    /\ PlanOf(op).onChildren # "cascade"
    /\ PlanOf(op).onChildren = "reconcile" => ~op.withRelation

\* A request, for the kind of relation, the last serial number of an entity and the
\* table of the entities.
RequestFits(g, kind, last, table) ==
    /\ Fits(kind, g.op)
    /\ g.pc # "idle" => g.answer = "none"
    /\ g.pc = "idle" => g.locks = {}
    /\ g.pc # "row" => g.removed = {} /\ g.added = {}
    /\ g.wanted \cup g.locks \subseteq 1 .. last
    /\ \A c \in g.seen : c.parent = g.entity
    /\ PlanOf(g.op).reads = "entity" =>
          /\ g.pc \in {"locking", "targets", "children", "row"} => g.entity # Nobody
          /\ g.pc = "locking" => g.wanted = {g.entity}
          /\ g.pc \in {"targets", "children", "row"} => HoldsItsEntity(g, table)
    /\ KeepsToItsEntity(g.op) => \A c \in g.removed : c.parent = g.entity

RequestOK(g) == RequestFits(g, relation, serials.entities, rows)

RequestsOK == \A r \in Requests : RequestOK(request[r])

Inv == Typed /\ KeysOK /\ PlacesOK /\ UniqueOK /\ RequestsOK

-----------------------------------------------------------------------------
(* What is done to the rows of the relation.                               *)

Subs == [id : Int, value : Nat]

\* The image of a finite set of sub-entities is finite.
LEMMA FiniteImage ==
    ASSUME NEW S, IsFiniteSet(S), NEW T, NEW f \in [S -> T], \A y \in T : \E x \in S : f[x] = y
    PROVE  IsFiniteSet(T)
<1>1. f \in Surjection(S, T)
  BY DEF Surjection
<1> QED BY <1>1, FS_Surjection

\* Rows that are inserted have the serial numbers that follow.
LEMMA NewChildrenFacts ==
    ASSUME Typed, NEW parent \in Nat, NEW new \in SUBSET Subs, IsFiniteSet(new)
    PROVE  LET added == NewChildren(parent, new)
           IN /\ added \subseteq Children /\ IsFiniteSet(added)
              /\ \A c \in added :
                    /\ c.parent = parent /\ c.key > serials.children
                    /\ c.key <= serials.children + 1 + Cardinality(new)
                    /\ \E d \in new : c.id = d.id
<1> DEFINE before(c) == {d \in new : d.id + d.value < c.id + c.value}
           row(c) == Child(serials.children + 1 + Cardinality(before(c)), parent, c.id, c.value)
           added == NewChildren(parent, new)
<1>1. serials.children \in Nat
  BY DEF Typed
<1>2. Cardinality(new) \in Nat
  BY FS_CardinalityType
<1>3. ASSUME NEW c \in new
      PROVE  Cardinality(before(c)) \in Nat /\ Cardinality(before(c)) <= Cardinality(new)
  BY FS_Subset, FS_CardinalityType
<1>4. ASSUME NEW c \in new
      PROVE  /\ row(c) \in Children /\ row(c).parent = parent /\ row(c).id = c.id
             /\ row(c).key > serials.children
             /\ row(c).key <= serials.children + 1 + Cardinality(new)
  <2> DEFINE n == Cardinality(before(c))
  <2>1. n \in Nat /\ n <= Cardinality(new)
    BY <1>3
  <2>2. c.id \in Int /\ c.value \in Nat
    BY DEF Subs
  <2>3. row(c) = [key |-> serials.children + 1 + n, parent |-> parent, id |-> c.id,
                  value |-> c.value, content |-> 0]
    BY DEF Child
  <2> HIDE DEF n, row
  <2> QED BY <1>1, <1>2, <2>1, <2>2, <2>3 DEF Children
<1>5. added = {row(c) : c \in new}
  BY DEF NewChildren
<1>6. IsFiniteSet({row(c) : c \in new})
  <2> DEFINE f == [c \in new |-> row(c)]
             T == {row(c) : c \in new}
  <2>1. f \in [new -> T] /\ \A y \in T : \E c \in new : f[c] = y
    <3> HIDE DEF row
    <3> QED OBVIOUS
  <2> HIDE DEF f, T
  <2>2. IsFiniteSet(T)
    BY <2>1, FiniteImage
  <2> QED BY <2>2 DEF T
<1> HIDE DEF row, added
<1> QED BY <1>4, <1>5, <1>6 DEF added

\* What an operation is given is finite.
LEMMA SubsAreFinite ==
    ASSUME NEW subs \in SUBSET (0 .. 2)
    PROVE  IsFiniteSet(subs)
<1>1. \A n \in Nat : IsFiniteSet(0 .. n)
  BY FS_Interval
<1>2. IsFiniteSet(0 .. 2)
  BY <1>1
<1> QED BY <1>2, FS_Subset

\* What an operation is given for the relation.
LEMMA NewSubsFacts ==
    ASSUME relation \in Relations, NEW subs \in SUBSET (0 .. 2)
    PROVE  /\ NewSubs(subs) \in SUBSET Subs /\ IsFiniteSet(NewSubs(subs))
           /\ relation \in OneToMany => \A d \in NewSubs(subs) : d.id \in subs
<1>1. IsFiniteSet(subs)
  BY SubsAreFinite
<1>2. \A i \in subs : Place(i, subs) \in Nat
  BY <1>1, FS_Subset, FS_CardinalityType DEF Place
<1> DEFINE T == NewSubs(subs)
<1>3. CASE relation \in OneToMany
  <2> DEFINE f == [i \in subs |-> [id |-> i, value |-> 0]]
  <2>1. T = {[id |-> i, value |-> 0] : i \in subs}
    BY <1>3 DEF NewSubs, OneToMany
  <2>2. f \in [subs -> T] /\ \A y \in T : \E i \in subs : f[i] = y
    BY <2>1
  <2>3. IsFiniteSet(T)
    <3> HIDE DEF f, T
    <3> QED BY <1>1, <2>2, FiniteImage
  <2> QED BY <2>1, <2>3 DEF Subs
<1>4. CASE relation = "manyToMany"
  <2> DEFINE f == [i \in subs |-> [id |-> 0, value |-> i]]
  <2>1. T = {[id |-> 0, value |-> i] : i \in subs}
    BY <1>4 DEF NewSubs, OneToMany
  <2>2. f \in [subs -> T] /\ \A y \in T : \E i \in subs : f[i] = y
    BY <2>1
  <2>3. IsFiniteSet(T)
    <3> HIDE DEF f, T
    <3> QED BY <1>1, <2>2, FiniteImage
  <2> QED BY <1>4, <2>1, <2>3 DEF Subs, OneToMany
<1>5. CASE relation = "values"
  <2> DEFINE f == [i \in subs |-> [id |-> Place(i, subs), value |-> i]]
  <2>1. T = {[id |-> Place(i, subs), value |-> i] : i \in subs}
    BY <1>5 DEF NewSubs, OneToMany
  <2>2. f \in [subs -> T] /\ \A y \in T : \E i \in subs : f[i] = y
    BY <2>1
  <2>3. IsFiniteSet(T)
    <3> HIDE DEF f, T
    <3> QED BY <1>1, <2>2, FiniteImage
  <2> QED BY <1>2, <1>5, <2>1, <2>3 DEF Subs, OneToMany
<1> QED BY <1>3, <1>4, <1>5 DEF Relations, OneToMany

\* The rows that an operation inserts: new ones, all of one entity, and old ones
\* with other contents.
RowsOK(added) ==
    /\ added \subseteq Children /\ IsFiniteSet(added)
    /\ \E n \in Nat : \A c \in added : c.key <= n
    /\ \A c \in added :
          /\ InRange(c)
          /\ c.key > serials.children
                \/ \E d \in children : d.key = c.key /\ d.parent = c.parent
    /\ \A c, d \in added :
          c.key > serials.children /\ d.key > serials.children => c.parent = d.parent

\* New rows of one entity, in the range of places, may be inserted.
LEMMA InsertedRowsOK ==
    ASSUME Typed, NEW parent \in Nat, NEW new \in SUBSET Subs, IsFiniteSet(new),
           relation \in OneToMany /\ parent # Nobody =>
              \A d \in new : d.id \in 0 .. MaxSize - 1
    PROVE  RowsOK(NewChildren(parent, new))
<1> DEFINE added == NewChildren(parent, new)
           n == serials.children + 1 + Cardinality(new)
<1>1. /\ added \subseteq Children /\ IsFiniteSet(added)
      /\ \A c \in added :
            /\ c.parent = parent /\ c.key > serials.children /\ c.key <= n
            /\ \E d \in new : c.id = d.id
  BY NewChildrenFacts
<1>2. n \in Nat
  BY FS_CardinalityType DEF Typed
<1> HIDE DEF added, n
<1>3. RowsOK(added)
  BY <1>1, <1>2 DEF RowsOK, InRange
<1> QED BY <1>3 DEF added

\* So may no rows.
LEMMA NoRowsOK == Typed => RowsOK({})
  BY FS_EmptySet DEF RowsOK

\* A change of the relation that an operation g of an entity may make.
ChangeOK(g, change) ==
    /\ change.removed \subseteq children
    /\ RowsOK(change.added)
    /\ KeepsToItsEntity(g.op) => \A c \in change.removed : c.parent = g.entity

\* An operation may leave the relation alone, or refuse to change it.
LEMMA NoChangeOK ==
    ASSUME Typed, NEW g
    PROVE  ChangeOK(g, Change({}, {})) /\ ChangeOK(g, Refused)
  BY NoRowsOK DEF ChangeOK, Change, Refused

\* What is known of a request that writes the rows of the relation.
Writing(g) ==
    /\ Typed /\ KeysOK /\ PlacesOK
    /\ g \in RequestTypes /\ RequestOK(g) /\ g.pc = "children"
    /\ g.seen \subseteq KnownRows /\ IsFiniteSet(g.seen)

\* An entity is created with sub-entities that have the first places.
LEMMA CreateOK ==
    ASSUME NEW r \in Requests, Writing(request[r]),
           PlanOf(request[r].op).onChildren = "create"
    PROVE  ChangeOK(request[r], CreateSubEntities(r, request[r].op.subs))
<1> DEFINE g == request[r]
           subs == g.op.subs
           new == NewSubs(subs)
<1>1. /\ Typed /\ relation \in Relations /\ subs \in SUBSET (0 .. 2)
      /\ serials.entities + 1 \in Nat /\ g.op \in Operations
  BY DEF Writing, Typed, RequestTypes, Operations
<1>2. g.op.method = "createEntity"
  BY <1>1, PlanFacts DEF PlanFits
<1>3. relation \in OneToMany => subs \subseteq {0, 1}
  BY <1>2 DEF Writing, RequestOK, RequestFits, Fits
<1>4. /\ new \in SUBSET Subs /\ IsFiniteSet(new)
      /\ relation \in OneToMany => \A d \in new : d.id \in subs
  BY <1>1, NewSubsFacts
<1>5. relation \in OneToMany => \A d \in new : d.id \in 0 .. MaxSize - 1
  BY <1>3, <1>4, SizesAssumption
<1>6. RowsOK(NewChildren(serials.entities + 1, new))
  BY <1>1, <1>4, <1>5, InsertedRowsOK
<1>7. ChangeOK(g, Change({}, NewChildren(serials.entities + 1, new)))
  BY <1>6 DEF ChangeOK, Change
<1> QED BY <1>1, <1>7, NoChangeOK DEF CreateSubEntities

\* The largest place is in the range, or -1.
LEMMA MaxSubItemIdFacts ==
    ASSUME NEW g, Writing(g), g.entity # Nobody
    PROVE  /\ MaxSubItemId(g.seen) \in Int
           /\ relation \in OneToMany => MaxSubItemId(g.seen) \in -1 .. MaxSize - 1
<1> DEFINE ids == {c.id : c \in g.seen}
           S == {-1} \cup ids
<1>1. g.seen \subseteq Children /\ IsFiniteSet(g.seen)
  BY DEF Writing, RequestTypes
<1>2. S \subseteq Int /\ S # {}
  BY <1>1 DEF Children
<1>3. IsFiniteSet(S)
  <2> DEFINE f == [c \in g.seen |-> c.id]
  <2>1. f \in [g.seen -> ids] /\ \A y \in ids : \E c \in g.seen : f[c] = y
    OBVIOUS
  <2>2. IsFiniteSet(ids)
    <3> HIDE DEF f, ids
    <3> QED BY <1>1, <2>1, FiniteImage
  <2>3. IsFiniteSet({-1})
    BY FS_Singleton
  <2> HIDE DEF ids
  <2> QED BY <2>2, <2>3, FS_Union
<1>4. Max(S) \in S
  <2> HIDE DEF S
  <2> QED BY <1>2, <1>3, MaxOfIntegers
<1>5. ASSUME relation \in OneToMany
      PROVE  S \subseteq -1 .. MaxSize - 1
  <2>1. \A c \in g.seen : c.parent # Nobody /\ InRange(c)
    BY DEF Writing, RequestOK, RequestFits, PlacesOK
  <2>2. \A c \in g.seen : c.id \in 0 .. MaxSize - 1
    BY <1>5, <2>1 DEF InRange
  <2> QED BY <2>2, SizesAssumption
<1>6. MaxSubItemId(g.seen) = IF relation = "manyToMany" THEN -1 ELSE Max(S)
  BY DEF MaxSubItemId
<1> HIDE DEF S
<1>7. Max(S) \in Int
  BY <1>2, <1>4
<1>8. relation \in OneToMany => Max(S) \in -1 .. MaxSize - 1 /\ relation # "manyToMany"
  BY <1>4, <1>5 DEF OneToMany
<1> QED BY <1>6, <1>7, <1>8

\* Sub-entities are added at places after those seen and below the maximum.
LEMMA AddOK ==
    ASSUME NEW r \in Requests, Writing(request[r]),
           PlanOf(request[r].op).onChildren = "add"
    PROVE  ChangeOK(request[r], AddSubEntities(request[r].entity, request[r].seen,
                                               request[r].op.subs))
<1> DEFINE g == request[r]
           subs == g.op.subs
           n == Cardinality(subs)
           m == MaxSubItemId(g.seen)
           new == IF relation = "manyToMany" THEN NewSubs(subs)
                  ELSE {[id |-> m + 1 + i, value |-> 0] : i \in 0 .. n - 1}
<1>1. /\ Typed /\ relation \in Relations /\ subs \in SUBSET (0 .. 2)
      /\ g.entity \in Nat /\ g.op \in Operations
  BY DEF Writing, Typed, RequestTypes, Operations
<1>2. g.entity # Nobody
  BY <1>1, PlanFacts DEF PlanFits, Writing, RequestOK, RequestFits
<1>3. m \in Int /\ (relation \in OneToMany => m \in -1 .. MaxSize - 1)
  BY <1>2, MaxSubItemIdFacts
<1>4. n \in Nat
  BY <1>1, SubsAreFinite, FS_CardinalityType
<1>5. new \in SUBSET Subs /\ IsFiniteSet(new)
  <2>1. CASE relation = "manyToMany"
    BY <1>1, <2>1, NewSubsFacts
  <2>2. CASE relation # "manyToMany"
    <3> DEFINE T == {[id |-> m + 1 + i, value |-> 0] : i \in 0 .. n - 1}
               f == [i \in 0 .. n - 1 |-> [id |-> m + 1 + i, value |-> 0]]
    <3> HIDE DEF m, n
    <3>1. T \subseteq Subs
      BY <1>3, <1>4 DEF Subs
    <3>2. IsFiniteSet(0 .. n - 1)
      BY <1>4, FS_Interval
    <3>3. f \in [0 .. n - 1 -> T] /\ \A y \in T : \E i \in 0 .. n - 1 : f[i] = y
      OBVIOUS
    <3>4. IsFiniteSet(T)
      <4> HIDE DEF f, T
      <4> QED BY <3>2, <3>3, FiniteImage
    <3> QED BY <2>2, <3>1, <3>4
  <2> QED BY <2>1, <2>2
<1>6. ASSUME relation \in OneToMany, ~TooMany(g.seen, n)
      PROVE  \A d \in new : d.id \in 0 .. MaxSize - 1
  <2>1. m + n < MaxSize
    BY <1>3, <1>4, <1>6, SizesAssumption DEF TooMany
  <2>2. relation # "manyToMany"
    BY <1>6 DEF OneToMany
  <2> HIDE DEF m, n
  <2> QED BY <1>3, <1>4, <1>6, <2>1, <2>2, SizesAssumption
<1>7. ASSUME ~TooMany(g.seen, n)
      PROVE  ChangeOK(g, Change({}, NewChildren(g.entity, new)))
  <2> HIDE DEF new, n
  <2>1. RowsOK(NewChildren(g.entity, new))
    BY <1>1, <1>5, <1>6, <1>7, InsertedRowsOK
  <2> QED BY <2>1 DEF ChangeOK, Change
<1>8. AddSubEntities(g.entity, g.seen, subs)
         = IF TooMany(g.seen, n) THEN Refused ELSE Change({}, NewChildren(g.entity, new))
  BY DEF AddSubEntities
<1> HIDE DEF new, n, subs, g
<1> QED BY <1>1, <1>7, <1>8, NoChangeOK DEF g, subs

\* An operation on an entity has read it.
LEMMA WritingFacts ==
    ASSUME NEW g, Writing(g)
    PROVE  /\ Typed /\ relation \in Relations
           /\ g.op \in Operations /\ g.op.subs \in SUBSET (0 .. 2) /\ g.entity \in Nat
           /\ g.seen \subseteq Children /\ IsFiniteSet(g.seen)
           /\ \A c \in g.seen : c.parent = g.entity
           /\ PlanFits(PlanOf(g.op), g.op.method)
           /\ PlanOf(g.op).reads = "entity" => g.entity # Nobody
  BY PlanFacts DEF Writing, Typed, RequestTypes, Operations, RequestOK, RequestFits

\* Values are added with one id, and removed by what they are.
LEMMA AddValuesOK ==
    ASSUME NEW r \in Requests, Writing(request[r]),
           PlanOf(request[r].op).onChildren = "addValues"
    PROVE  ChangeOK(request[r], AddValues(request[r].entity, request[r].seen,
                                          request[r].op.subs))
<1> DEFINE g == request[r]
           values == g.op.subs
           n == Cardinality(g.seen)
           new == {[id |-> n, value |-> v] : v \in values}
           f == [v \in values |-> [id |-> n, value |-> v]]
<1>1. /\ Typed /\ values \in SUBSET (0 .. 2) /\ g.entity \in Nat /\ n \in Nat
      /\ g.op.method = "addEntityArrayFieldValues"
  BY WritingFacts, FS_CardinalityType DEF PlanFits
<1>2. relation \notin OneToMany
  BY <1>1 DEF Writing, RequestOK, RequestFits, Fits
<1> HIDE DEF n
<1>3. new \in SUBSET Subs /\ f \in [values -> new] /\ \A y \in new : \E v \in values : f[v] = y
  BY <1>1 DEF Subs
<1>4. IsFiniteSet(values)
  BY <1>1, SubsAreFinite
<1> HIDE DEF new, f
<1>5. IsFiniteSet(new)
  BY <1>3, <1>4, FiniteImage
<1>6. RowsOK(NewChildren(g.entity, new))
  BY <1>1, <1>2, <1>3, <1>5, InsertedRowsOK
<1> QED BY <1>6 DEF AddValues, ChangeOK, Change, new, n

\* Values that are removed are the entity's.
LEMMA RemoveValuesOK ==
    ASSUME NEW g, Writing(g)
    PROVE  ChangeOK(g, RemoveValues(g.entity, g.op.subs))
  BY NoRowsOK DEF Writing, ChangeOK, Change, RemoveValues, ChildrenOf

\* The rows that are removed by their _id are those that the entity had.
LEMMA RemoveOK ==
    ASSUME NEW g, Writing(g), PlanOf(g.op).onChildren = "remove"
    PROVE  ChangeOK(g, RemoveSubEntities(g.entity, g.seen, g.op.subs))
<1> DEFINE subs == g.op.subs
           selected == {c \in g.seen : Selected(c, subs)}
           byValue == {c \in ChildrenOf(g.entity) : \E s \in selected : c.value = s.value}
           byId == {c \in children : DeletedById(c, selected)}
<1>1. relation \in {"keyed", "numbered", "manyToMany"}
  BY WritingFacts DEF PlanFits, Writing, RequestOK, RequestFits, Fits, Relations
<1>2. Typed /\ RowsOK({})
  BY NoRowsOK DEF Writing
<1>3. CASE relation = "manyToMany"
  <2>1. RemoveSubEntities(g.entity, g.seen, subs) = Change(byValue, {})
    BY <1>3 DEF RemoveSubEntities
  <2> QED BY <1>2, <2>1 DEF ChangeOK, Change, ChildrenOf
<1>4. CASE relation = "keyed"
  <2>1. RemoveSubEntities(g.entity, g.seen, subs) = Change(byId, {})
    BY <1>4 DEF RemoveSubEntities
  <2>2. ASSUME NEW c \in byId
        PROVE  c.parent = g.entity
    <3>1. PICK s \in g.seen : c.key = s.key
      BY DEF DeletedById
    <3>2. c \in KnownRows /\ s \in KnownRows /\ s.parent = g.entity
      BY WritingFacts DEF Writing, KnownRows
    <3> QED BY <3>1, <3>2 DEF Writing, KeysOK
  <2> HIDE DEF selected
  <2> QED BY <1>2, <2>1, <2>2 DEF ChangeOK, Change
<1>5. CASE relation = "numbered"
  <2>1. RemoveSubEntities(g.entity, g.seen, subs) \in {Change({}, {}), Refused}
    BY <1>5 DEF RemoveSubEntities
  <2> QED BY <1>2, <2>1, NoChangeOK
<1> QED BY <1>1, <1>3, <1>4, <1>5

\* updateEntity may reach other entities; its rows are old ones, or nobody's.
LEMMA UpdateSubEntitiesOK ==
    ASSUME NEW g, Writing(g), ~KeepsToItsEntity(g.op)
    PROVE  ChangeOK(g, UpdateSubEntities(g.seen, g.op.subs))
<1> DEFINE subs == g.op.subs
           deleted == {c \in children : DeletedByPlace(c, SubEntitiesToDelete(subs, g.seen))}
           updated == {c \in children \ deleted : \E s \in SubEntitiesToUpdate(subs, g.seen) :
                          IF relation = "keyed" THEN c.key = s.key ELSE c.id = s.id}
           renewed == {[c EXCEPT !.content = 1] : c \in updated}
           new == NewSubs(SubEntitiesToAdd(subs, g.seen))
           added == NewChildren(Nobody, new)
<1>1. /\ Typed /\ PlacesOK /\ KeysOK /\ children \subseteq Children /\ IsFiniteSet(children)
      /\ updated \subseteq children /\ deleted \subseteq children
  BY DEF Writing, Typed
<1>2. new \in SUBSET Subs /\ IsFiniteSet(new)
  <2>1. SubEntitiesToAdd(subs, g.seen) \in SUBSET (0 .. 2)
    BY WritingFacts DEF SubEntitiesToAdd
  <2> QED BY <2>1, WritingFacts, NewSubsFacts
<1>3. RowsOK(added)
  BY <1>1, <1>2, InsertedRowsOK DEF Nobody
<1> HIDE DEF updated, deleted, new, added
<1>4. \A d \in updated : /\ [d EXCEPT !.content = 1] \in Children
                         /\ [d EXCEPT !.content = 1].key = d.key
                         /\ [d EXCEPT !.content = 1].parent = d.parent
                         /\ [d EXCEPT !.content = 1].id = d.id
  BY <1>1 DEF Children
<1>5. ASSUME NEW c \in renewed
      PROVE  /\ c \in Children /\ InRange(c) /\ c.key <= serials.children
             /\ \E d \in children : d.key = c.key /\ d.parent = c.parent
  <2>1. PICK d \in updated : c = [d EXCEPT !.content = 1]
    OBVIOUS
  <2>2. /\ c \in Children /\ c.key = d.key /\ c.parent = d.parent /\ c.id = d.id
    BY <1>4, <2>1
  <2>3. d \in children /\ d \in KnownRows
    BY <1>1 DEF KnownRows
  <2>4. InRange(d) /\ d.key <= serials.children
    BY <1>1, <2>3 DEF PlacesOK, KeysOK
  <2> HIDE DEF renewed
  <2> QED BY <2>2, <2>3, <2>4 DEF InRange
<1>6. IsFiniteSet(renewed)
  <2> DEFINE f == [d \in updated |-> [d EXCEPT !.content = 1]]
  <2>1. f \in [updated -> renewed] /\ \A y \in renewed : \E d \in updated : f[d] = y
    OBVIOUS
  <2>2. IsFiniteSet(updated)
    BY <1>1, FS_Subset
  <2> HIDE DEF f, renewed
  <2> QED BY <2>1, <2>2, FiniteImage
<1> HIDE DEF renewed
<1>7. RowsOK(added \cup renewed)
  <2>1. PICK n \in Nat : \A c \in added : c.key <= n
    BY <1>3 DEF RowsOK
  <2>2. serials.children \in Nat
    BY <1>1 DEF Typed
  <2>3. \A c \in added \cup renewed : c.key \in Nat /\ c.key <= n + serials.children
    <3>1. \A c \in added \cup renewed : c \in Children
      BY <1>3, <1>5 DEF RowsOK
    <3>2. \A c \in added \cup renewed : c.key \in Nat
      BY <3>1 DEF Children
    <3> QED BY <1>5, <2>1, <2>2, <3>2
  <2>4. n + serials.children \in Nat
    BY <2>2
  <2>5. added \cup renewed \subseteq Children /\ IsFiniteSet(added \cup renewed)
    BY <1>3, <1>5, <1>6, FS_Union DEF RowsOK
  <2>6. ASSUME NEW c \in added \cup renewed
        PROVE  /\ InRange(c)
               /\ c.key > serials.children
                     \/ \E d \in children : d.key = c.key /\ d.parent = c.parent
    BY <1>3, <1>5 DEF RowsOK
  <2>7. ASSUME NEW c \in added \cup renewed, NEW d \in added \cup renewed,
               c.key > serials.children, d.key > serials.children
        PROVE  c.parent = d.parent
    <3>1. c \in added /\ d \in added
      BY <1>5, <2>2, <2>3, <2>7
    <3> QED BY <1>3, <2>7, <3>1 DEF RowsOK
  <2> QED BY <2>3, <2>4, <2>5, <2>6, <2>7 DEF RowsOK
<1>8. UpdateSubEntities(g.seen, subs) = Change(deleted \cup updated, added \cup renewed)
  BY DEF UpdateSubEntities, deleted, updated, renewed, added, new
<1> QED BY <1>1, <1>7, <1>8 DEF ChangeOK, Change

\* Associations are compared by nothing: all or none are deleted and added.
LEMMA UpdateAssociationsOK ==
    ASSUME NEW g, Writing(g), relation \notin OneToMany
    PROVE  ChangeOK(g, UpdateAssociations(g.entity, g.seen, g.op.subs))
<1> DEFINE new == NewSubs(SubEntitiesToAdd(g.op.subs, g.seen))
<1>1. /\ Typed /\ relation \in Relations /\ g.entity \in Nat
      /\ SubEntitiesToAdd(g.op.subs, g.seen) \in SUBSET (0 .. 2)
  BY WritingFacts DEF SubEntitiesToAdd
<1>2. new \in SUBSET Subs /\ IsFiniteSet(new)
  BY <1>1, NewSubsFacts
<1> HIDE DEF new
<1>3. RowsOK(NewChildren(g.entity, new))
  BY <1>1, <1>2, InsertedRowsOK
<1> QED BY <1>3 DEF UpdateAssociations, ChangeOK, Change, ChildrenOf, new

\* Values are replaced by values of the same entity.
LEMMA UpdateValuesOK ==
    ASSUME NEW g, Writing(g), relation \notin OneToMany
    PROVE  ChangeOK(g, UpdateValues(g.entity, g.op.subs))
<1> DEFINE new == NewSubs(g.op.subs)
<1>1. /\ Typed /\ relation \in Relations /\ g.entity \in Nat
      /\ g.op.subs \in SUBSET (0 .. 2)
  BY WritingFacts
<1>2. new \in SUBSET Subs /\ IsFiniteSet(new)
  BY <1>1, NewSubsFacts
<1> HIDE DEF new
<1>3. RowsOK(NewChildren(g.entity, new))
  BY <1>1, <1>2, InsertedRowsOK
<1>4. ChangeOK(g, Change(ChildrenOf(g.entity), NewChildren(g.entity, new)))
  BY <1>3 DEF ChangeOK, Change, ChildrenOf
<1> QED BY <1>1, <1>4, NoChangeOK DEF UpdateValues, new

\* Whatever the operation, and whatever has happened to the rows it has seen.
LEMMA ChangeOfChildrenOK ==
    ASSUME NEW r \in Requests, Writing(request[r])
    PROVE  ChangeOK(request[r], ChangeOfChildren(r))
<1> DEFINE g == request[r]
           op == g.op
           onChildren == PlanOf(op).onChildren
           change == ChangeOfChildren(r)
           cascaded == {c \in children : c.parent \in Targets(op)}
<1>1. Typed /\ relation \in Relations /\ PlanFits(PlanOf(op), op.method)
  BY WritingFacts
<1>2. CASE onChildren = "create"
  BY <1>2, CreateOK DEF ChangeOfChildren
<1>3. CASE onChildren = "add"
  BY <1>3, AddOK DEF ChangeOfChildren
<1>4. CASE onChildren = "addValues"
  BY <1>4, AddValuesOK DEF ChangeOfChildren
<1>5. CASE onChildren = "removeValues"
  BY <1>5, RemoveValuesOK DEF ChangeOfChildren
<1>6. CASE onChildren = "remove"
  BY <1>6, RemoveOK DEF ChangeOfChildren
<1>7. CASE onChildren = "cascade"
  <2>1. change = Change(cascaded, {})
    BY <1>7 DEF ChangeOfChildren
  <2>2. ~KeepsToItsEntity(op) /\ RowsOK({})
    BY <1>1, <1>7, NoRowsOK DEF KeepsToItsEntity
  <2> QED BY <2>1, <2>2 DEF ChangeOK, Change
<1>8. CASE onChildren = "reconcile" /\ op.withRelation
  <2>1. ~KeepsToItsEntity(op)
    BY <1>8 DEF KeepsToItsEntity
  <2>2. CASE relation \in OneToMany
    <3>1. change = UpdateSubEntities(g.seen, op.subs)
      BY <1>8, <2>2 DEF ChangeOfChildren, OneToMany
    <3> QED BY <2>1, <3>1, UpdateSubEntitiesOK
  <2>3. CASE relation = "manyToMany"
    <3>1. change = UpdateAssociations(g.entity, g.seen, op.subs) /\ relation \notin OneToMany
      BY <1>8, <2>3 DEF ChangeOfChildren, OneToMany
    <3> QED BY <3>1, UpdateAssociationsOK
  <2>4. CASE relation = "values"
    <3>1. change = UpdateValues(g.entity, op.subs) /\ relation \notin OneToMany
      BY <1>8, <2>4 DEF ChangeOfChildren, OneToMany
    <3> QED BY <3>1, UpdateValuesOK
  <2> QED BY <1>1, <2>2, <2>3, <2>4 DEF Relations, OneToMany
<1>9. CASE /\ onChildren \notin {"create", "add", "addValues", "removeValues", "remove",
                                 "cascade"}
           /\ ~(onChildren = "reconcile" /\ op.withRelation)
  <2>1. change = Change({}, {})
    BY <1>9 DEF ChangeOfChildren
  <2> QED BY <1>1, <2>1, NoChangeOK
<1> QED BY <1>2, <1>3, <1>4, <1>5, <1>6, <1>7, <1>8, <1>9

-----------------------------------------------------------------------------
(* Steps that leave the tables as they are.                                *)

\* The end of a transaction.
AnsweredWith(g, answer) == [NoRequest EXCEPT !.answer = answer, !.done = g.done]

\* A request that has not begun anything.
LEMMA EmptyRequest ==
    /\ NoRequest \in RequestTypes /\ NoRequest.pc = "idle"
    /\ NoRequest.seen = {} /\ NoRequest.removed = {} /\ NoRequest.added = {}
    /\ NoRequest.locks = {} /\ NoRequest.wanted = {} /\ NoRequest.answer = "none"
    /\ \A kind \in Relations : Fits(kind, NoRequest.op)
<1> DEFINE op == Call("getAllEntities")
<1>1. op \in Operations /\ op.method = "getAllEntities"
  BY CallTypes DEF MethodNames, Queries, OperationsOf, Call
<1>2. NoRequest = [pc |-> "idle", op |-> op, entity |-> Nobody, version |-> 0,
                   wanted |-> {}, locks |-> {}, shares |-> {}, seen |-> {},
                   removed |-> {}, added |-> {}, answer |-> "none", done |-> 0]
  BY DEF NoRequest
<1>3. \A kind \in Relations : Fits(kind, op)
  BY <1>1 DEF Fits, Removals
<1> HIDE DEF op
<1> QED BY <1>1, <1>2, <1>3 DEF RequestTypes, Nobody

\* A request that is answered keeps nothing.
LEMMA AnsweredOK ==
    ASSUME relation \in Relations, NEW g \in RequestTypes, NEW answer \in {"ok", "error"}
    PROVE  LET g2 == AnsweredWith(g, answer)
           IN /\ g2 \in RequestTypes /\ RequestOK(g2)
              /\ g2.seen = {} /\ g2.removed = {} /\ g2.added = {}
              /\ g2.answer = answer /\ g2.pc = "idle"
<1> DEFINE g2 == AnsweredWith(g, answer)
<1>1. g.done \in Nat
  BY DEF RequestTypes
<1>2. g2 \in RequestTypes
  BY <1>1, EmptyRequest DEF RequestTypes, AnsweredWith
<1>3. /\ g2.pc = NoRequest.pc /\ g2.op = NoRequest.op /\ g2.wanted = NoRequest.wanted
      /\ g2.locks = NoRequest.locks /\ g2.seen = NoRequest.seen
      /\ g2.removed = NoRequest.removed /\ g2.added = NoRequest.added
      /\ g2.answer = answer
  BY EmptyRequest DEF AnsweredWith, RequestTypes
<1> HIDE DEF g2
<1>4. RequestOK(g2)
  BY <1>3, EmptyRequest DEF RequestOK, RequestFits
<1> QED BY <1>2, <1>3, <1>4, EmptyRequest DEF g2

\* A step of a request that has not written anything, or gives it up.
LEMMA RequestStep ==
    ASSUME Inv, NEW r \in Requests, NEW g2 \in RequestTypes, RequestOK(g2),
           UNCHANGED Tables, request' = [request EXCEPT ![r] = g2],
           g2.removed = {}, g2.added = {}, g2.seen \subseteq KnownRows, IsFiniteSet(g2.seen)
    PROVE  Inv'
<1>1. /\ Typed /\ KeysOK /\ PlacesOK /\ UniqueOK /\ RequestsOK
      /\ relation' = relation /\ rows' = rows /\ children' = children /\ serials' = serials
  BY DEF Inv, Tables
<1>2. /\ request' \in [Requests -> RequestTypes] /\ request'[r] = g2
      /\ \A q \in Requests \ {r} : request'[q] = request[q]
  BY <1>1 DEF Typed
<1>3. Typed'
  <2>1. /\ rows \in [Existing -> RowTypes] /\ Existing \subseteq 1 .. serials.entities
        /\ relation \in Relations /\ serials \in [entities : Nat, children : Nat]
        /\ children \subseteq Children /\ IsFiniteSet(children)
        /\ Existing' = Existing
    BY <1>1 DEF Typed, Existing
  <2>2. ASSUME NEW q \in Requests
        PROVE  IsFiniteSet(request'[q].seen) /\ IsFiniteSet(request'[q].added)
    BY <1>1, <1>2, FS_EmptySet DEF Typed
  <2> QED BY <1>1, <1>2, <2>1, <2>2 DEF Typed
<1>4. KnownRows' \subseteq KnownRows
  BY <1>1, <1>2 DEF KnownRows
<1>5. KeysOK' /\ PlacesOK'
  BY <1>1, <1>4 DEF KeysOK, PlacesOK, InRange
<1>6. UniqueOK'
  <2>1. ~DuplicatesIn(relation', children')
    BY <1>1 DEF UniqueOK
  <2>2. ASSUME NEW q \in Requests
        PROVE  ~DuplicatesIn(relation', (children' \ request'[q].removed) \cup request'[q].added)
    <3>1. CASE q = r
      <4>1. (children' \ request'[q].removed) \cup request'[q].added = children
        BY <1>1, <1>2, <3>1
      <4> QED BY <1>1, <4>1 DEF UniqueOK
    <3>2. CASE q # r
      BY <1>1, <1>2, <3>2 DEF UniqueOK
    <3> QED BY <3>1, <3>2
  <2>3. ASSUME NEW p \in Requests, NEW q \in Requests, p # q
        PROVE  SlotsIn(relation', request'[p].added)
                 \cap SlotsIn(relation', request'[q].added) = {}
    <3>1. SlotsIn(relation, {}) = {}
      BY DEF SlotsIn
    <3> QED BY <1>1, <1>2, <2>3, <3>1 DEF UniqueOK
  <2> QED BY <2>1, <2>2, <2>3 DEF UniqueOK
<1>7. RequestsOK'
  BY <1>1, <1>2 DEF RequestsOK, RequestOK
<1> QED BY <1>3, <1>5, <1>6, <1>7 DEF Inv

\* What is known of a request.
LEMMA RequestFacts ==
    ASSUME Inv, NEW r \in Requests
    PROVE  LET g == request[r]
           IN /\ g \in RequestTypes /\ RequestOK(g) /\ g.op \in Operations
              /\ g.seen \subseteq KnownRows /\ IsFiniteSet(g.seen)
              /\ g.added \subseteq KnownRows
              /\ relation \in Relations
              /\ request \in [Requests -> RequestTypes]
              /\ PlanFits(PlanOf(g.op), g.op.method)
<1>1. Typed /\ RequestsOK
  BY DEF Inv
<1>2. request[r] \in RequestTypes /\ IsFiniteSet(request[r].seen)
  BY <1>1 DEF Typed
<1>3. request[r].op \in Operations
  BY <1>2 DEF RequestTypes
<1>4. request[r].seen \cup request[r].added \subseteq KnownRows
  BY DEF KnownRows
<1> QED BY <1>1, <1>2, <1>3, <1>4, PlanFacts DEF Typed, RequestsOK

\* A transaction ends without having written anything.
LEMMA EndedStep ==
    ASSUME Inv, NEW r \in Requests, NEW answer \in {"ok", "error"}, Ended(r, answer),
           UNCHANGED Tables
    PROVE  Inv'
<1> DEFINE g2 == AnsweredWith(request[r], answer)
<1>1. request[r] \in RequestTypes /\ relation \in Relations
  BY RequestFacts
<1>2. /\ g2 \in RequestTypes /\ RequestOK(g2)
      /\ g2.seen = {} /\ g2.removed = {} /\ g2.added = {}
  BY <1>1, AnsweredOK
<1>3. request' = [request EXCEPT ![r] = g2]
  BY DEF Ended, AnsweredWith
<1> HIDE DEF g2
<1> QED BY <1>2, <1>3, RequestStep, FS_EmptySet

\* A request begins an operation with nothing locked or written.
LEMMA BeginStep ==
    ASSUME Inv, NEW r \in Requests, Begin(r)
    PROVE  Inv'
<1>1. PICK op \in Calls[relation] :
         LET reads == PlanOf(op).reads
         IN request' = [request EXCEPT ![r] =
               [NoRequest EXCEPT !.op = op, !.done = request[r].done + 1,
                                 !.pc = IF reads \in {"entity", "query"}
                                           \/ (reads = "ifHooked" /\ op.hooks)
                                        THEN "selecting" ELSE "children"]]
  BY DEF Begin
<1> DEFINE pc == IF PlanOf(op).reads \in {"entity", "query"}
                    \/ (PlanOf(op).reads = "ifHooked" /\ op.hooks)
                 THEN "selecting" ELSE "children"
           g == AnsweredWith(request[r], "ok")
           g2 == [NoRequest EXCEPT !.op = op, !.done = request[r].done + 1, !.pc = pc]
<1>2. /\ request[r] \in RequestTypes /\ relation \in Relations /\ request[r].done + 1 \in Nat
      /\ op \in Operations /\ Fits(relation, op)
  BY RequestFacts, CallsFit DEF RequestTypes
<1>3. pc \in {"selecting", "children"} /\ (pc = "children" => PlanOf(op).reads # "entity")
  OBVIOUS
<1> HIDE DEF pc
<1>4. /\ NoRequest \in RequestTypes /\ NoRequest.seen = {} /\ NoRequest.removed = {}
      /\ NoRequest.added = {} /\ NoRequest.locks = {} /\ NoRequest.wanted = {}
      /\ NoRequest.answer = "none"
  BY EmptyRequest
<1>5. /\ g2 \in RequestTypes /\ g2.pc = pc /\ g2.op = op /\ g2.seen = {} /\ g2.removed = {}
      /\ g2.added = {} /\ g2.locks = {} /\ g2.wanted = {} /\ g2.answer = "none"
  BY <1>2, <1>3, <1>4 DEF RequestTypes
<1>6. request' = [request EXCEPT ![r] = g2] /\ UNCHANGED Tables
  BY <1>1 DEF Begin, pc
<1> HIDE DEF g2
<1>7. RequestOK(g2)
  BY <1>2, <1>3, <1>5 DEF RequestOK, RequestFits
<1> QED BY <1>5, <1>6, <1>7, RequestStep, FS_EmptySet

\* The select has found the row i for the operation op, which may be another one than
\* what was asked for.
LEMMA SelectingStep ==
    ASSUME Inv, NEW r \in Requests, UNCHANGED Tables, request[r].pc = "selecting",
           NEW op \in Operations, op.method = request[r].op.method, Fits(relation, op),
           NEW i \in Targets(op), Selecting(r, op, i)
    PROVE  Inv'
<1> DEFINE g == request[r]
           g2 == [g EXCEPT !.pc = "locking", !.op = op, !.entity = i,
                           !.wanted = Wants(op, i), !.seen = ChildrenOf(i)]
<1>1. /\ g \in RequestTypes /\ RequestOK(g) /\ request \in [Requests -> RequestTypes]
      /\ Typed /\ PlanFits(PlanOf(op), op.method)
  BY RequestFacts, PlanFacts DEF Inv
<1>2. Targets(op) \subseteq Existing /\ Existing \subseteq 1 .. serials.entities
      /\ serials.entities \in Nat
  BY <1>1 DEF Targets, Typed
<1>3. i \in 1 .. serials.entities /\ i # Nobody /\ i \in Nat
      /\ Wants(op, i) \subseteq 1 .. serials.entities /\ Wants(op, i) \in SUBSET Nat
  <2>1. i \in 1 .. serials.entities
    BY <1>2
  <2>2. Wants(op, i) \subseteq Targets(op)
    BY DEF Wants
  <2>3. i \in Nat /\ i # Nobody
    BY <1>2, <2>1 DEF Nobody
  <2>4. Wants(op, i) \subseteq 1 .. serials.entities
    BY <1>2, <2>2
  <2>5. 1 .. serials.entities \subseteq Nat
    BY <1>2
  <2> QED BY <2>1, <2>3, <2>4, <2>5
<1>4. PlanOf(op).reads = "entity" => Wants(op, i) = {i}
  BY <1>1 DEF PlanFits, Wants
<1>5. /\ ChildrenOf(i) \subseteq Children /\ ChildrenOf(i) \subseteq KnownRows
      /\ IsFiniteSet(ChildrenOf(i)) /\ \A c \in ChildrenOf(i) : c.parent = i
  BY <1>1, FS_Subset DEF Typed, ChildrenOf, KnownRows
<1>6. g.removed = {} /\ g.added = {} /\ g.locks \subseteq 1 .. serials.entities
      /\ g.answer = "none"
  BY <1>1 DEF RequestOK, RequestFits
<1>7. /\ g2 \in RequestTypes /\ g2.pc = "locking" /\ g2.op = op /\ g2.entity = i
      /\ g2.wanted = Wants(op, i) /\ g2.seen = ChildrenOf(i) /\ g2.removed = {}
      /\ g2.added = {} /\ g2.locks = g.locks /\ g2.answer = "none"
  <2> DEFINE w == Wants(op, i)
             s == ChildrenOf(i)
  <2>1. /\ w \in SUBSET Nat /\ s \in SUBSET Children /\ i \in Nat /\ g \in RequestTypes
        /\ g2 = [g EXCEPT !.pc = "locking", !.op = op, !.entity = i, !.wanted = w,
                          !.seen = s]
    BY <1>1, <1>3, <1>5
  <2> HIDE DEF w, s, g, g2
  <2>2. g2 \in RequestTypes
    BY <2>1 DEF RequestTypes
  <2>3. /\ g2.pc = "locking" /\ g2.op = op /\ g2.entity = i /\ g2.wanted = w
        /\ g2.seen = s /\ g2.removed = g.removed /\ g2.added = g.added
        /\ g2.locks = g.locks /\ g2.answer = g.answer
    BY <2>1 DEF RequestTypes
  <2> QED BY <1>6, <2>2, <2>3 DEF w, s
<1>8. request' = [request EXCEPT ![r] = g2]
  BY <1>1 DEF Selecting
<1> HIDE DEF g2, g
<1>9. RequestOK(g2)
  BY <1>3, <1>4, <1>5, <1>6, <1>7 DEF RequestOK, RequestFits
<1> QED BY <1>5, <1>7, <1>8, <1>9, RequestStep

\* It finds the entity, another one instead of it, or none.
LEMMA SelectEntityStep ==
    ASSUME Inv, NEW r \in Requests, SelectEntity(r)
    PROVE  Inv'
<1> DEFINE g == request[r]
           op == g.op
<1>1. /\ g \in RequestTypes /\ RequestOK(g) /\ op \in Operations /\ Typed
      /\ g.pc = "selecting" /\ UNCHANGED Tables /\ Fits(relation, op)
  BY RequestFacts DEF SelectEntity, Inv, RequestOK, RequestFits
<1>2. \/ Missing(r) /\ Targets(op) = {}
      \/ Ended(r, "ok")
      \/ \E i \in Targets(op) : Selecting(r, op, i)
  BY DEF SelectEntity
<1>3. ASSUME Missing(r)
      PROVE  \/ \E answer \in {"ok", "error"} : Ended(r, answer)
             \/ \E i \in Existing : Selecting(r, [op EXCEPT !.id = i, !.filter = NoName], i)
  <2>1. PlanOf(op).missing \in {"ok", "error"}
    BY <1>1, PlanFacts DEF PlanFits
  <2> QED BY <1>3, <2>1 DEF Missing
<1>4. ASSUME NEW i \in Existing, Selecting(r, [op EXCEPT !.id = i, !.filter = NoName], i)
      PROVE  Inv'
  <2> DEFINE op2 == [op EXCEPT !.id = i, !.filter = NoName]
  <2>1. i \in Nat
    BY <1>1 DEF Typed
  <2>2. op2 \in Operations
    BY <1>1, <2>1 DEF Operations
  <2>3. op2.method = op.method /\ op2.subs = op.subs /\ op2.id = i
    BY <1>1 DEF Operations
  <2>4. Fits(relation, op2)
    BY <1>1, <2>3 DEF Fits
  <2>5. i \in Targets(op2)
    BY <2>3 DEF Targets
  <2> HIDE DEF op2
  <2>6. Selecting(r, op2, i)
    BY <1>4 DEF op2
  <2> QED BY <1>1, <2>2, <2>3, <2>4, <2>5, <2>6, SelectingStep
<1>5. ASSUME NEW i \in Targets(op), Selecting(r, op, i)
      PROVE  Inv'
  BY <1>1, <1>5, SelectingStep
<1>6. ASSUME NEW answer \in {"ok", "error"}, Ended(r, answer)
      PROVE  Inv'
  BY <1>1, <1>6, EndedStep
<1> QED BY <1>2, <1>3, <1>4, <1>5, <1>6

\* It locks what it wants, and knows the version of what it has locked.
LEMMA LockEntityStep ==
    ASSUME Inv, NEW r \in Requests, LockEntity(r)
    PROVE  Inv'
<1> DEFINE g == request[r]
           op == g.op
           i == g.entity
<1>1. /\ g \in RequestTypes /\ RequestOK(g) /\ op \in Operations /\ Typed
      /\ g.seen \subseteq KnownRows /\ IsFiniteSet(g.seen)
      /\ request \in [Requests -> RequestTypes]
      /\ g.pc = "locking" /\ UNCHANGED Tables
  BY RequestFacts DEF LockEntity, Inv
<1>2. \/ request' = [request EXCEPT ![r].pc = "selecting"]
      \/ Ended(r, "error")
      \/ /\ i \in Targets(op)
         /\ request' = [request EXCEPT ![r].pc = AfterLocking(op), ![r].locks = Acquired(r),
                                       ![r].version = rows[i].version]
  BY DEF LockEntity
<1>3. /\ g.removed = {} /\ g.added = {} /\ g.answer = "none"
      /\ g.locks \subseteq 1 .. serials.entities /\ g.wanted \subseteq 1 .. serials.entities
      /\ \A c \in g.seen : c.parent = i
      /\ PlanOf(op).reads = "entity" => i # Nobody /\ g.wanted = {i}
      /\ Fits(relation, op)
  BY <1>1 DEF RequestOK, RequestFits
<1>4. CASE request' = [request EXCEPT ![r].pc = "selecting"]
  <2> DEFINE g2 == [g EXCEPT !.pc = "selecting"]
  <2>1. g2 \in RequestTypes
    BY <1>1 DEF RequestTypes
  <2>2. /\ g2.pc = "selecting" /\ g2.op = op /\ g2.entity = i /\ g2.seen = g.seen
        /\ g2.removed = g.removed /\ g2.added = g.added /\ g2.answer = g.answer
        /\ g2.locks = g.locks /\ g2.wanted = g.wanted
    BY <1>1 DEF RequestTypes
  <2>3. request' = [request EXCEPT ![r] = g2]
    BY <1>1, <1>4
  <2> HIDE DEF g2, g
  <2>4. RequestOK(g2)
    BY <1>3, <2>2 DEF RequestOK, RequestFits
  <2> QED BY <1>1, <1>3, <2>1, <2>2, <2>3, <2>4, RequestStep
<1>5. CASE /\ i \in Targets(op)
           /\ request' = [request EXCEPT ![r].pc = AfterLocking(op), ![r].locks = Acquired(r),
                                         ![r].version = rows[i].version]
  <2> DEFINE pc == AfterLocking(op)
             v == rows[i].version
             g2 == [g EXCEPT !.pc = pc, !.locks = g.wanted, !.version = v]
  <2>1. pc \in {"targets", "children"} /\ i \in Existing
    BY <1>5 DEF AfterLocking, Targets
  <2>2. v \in Nat
    BY <1>1, <2>1 DEF Typed, RowTypes
  <2>3. request' = [request EXCEPT ![r] = g2]
    BY <1>1, <1>5 DEF Acquired
  <2> HIDE DEF pc
  <2>4. v = rows[i].version
    OBVIOUS
  <2> HIDE DEF v
  <2>5. g2 \in RequestTypes
    BY <1>1, <2>1, <2>2 DEF RequestTypes
  <2>6. /\ g2.pc = pc /\ g2.op = op /\ g2.entity = i /\ g2.seen = g.seen
        /\ g2.removed = g.removed /\ g2.added = g.added /\ g2.answer = g.answer
        /\ g2.locks = g.wanted /\ g2.wanted = g.wanted /\ g2.version = v
    BY <1>1 DEF RequestTypes
  <2>7. PlanOf(g2.op).reads = "entity" => HoldsItsEntity(g2, rows)
    <3>1. PlanOf(g2.op).reads = "entity" => i \in g2.locks
      BY <1>3, <2>6
    <3>2. g2.entity \in DOMAIN rows /\ rows[g2.entity].version = g2.version
      BY <2>1, <2>4, <2>6 DEF Existing
    <3> HIDE DEF g2
    <3> QED BY <2>6, <3>1, <3>2 DEF HoldsItsEntity
  <2> HIDE DEF g2, g
  <2>8. RequestOK(g2)
    BY <1>3, <2>1, <2>6, <2>7 DEF RequestOK, RequestFits
  <2> QED BY <1>1, <1>3, <2>3, <2>5, <2>6, <2>8, RequestStep
<1>6. CASE Ended(r, "error")
  BY <1>1, <1>6, EndedStep
<1> QED BY <1>2, <1>4, <1>5, <1>6

\* It locks another entity as well.
LEMMA LockSubEntityStep ==
    ASSUME Inv, NEW r \in Requests, LockSubEntity(r)
    PROVE  Inv'
<1> DEFINE g == request[r]
           i == Min(g.op.subs \ g.locks)
<1>1. /\ g \in RequestTypes /\ RequestOK(g) /\ Typed
      /\ g.seen \subseteq KnownRows /\ IsFiniteSet(g.seen)
      /\ request \in [Requests -> RequestTypes]
      /\ g.pc = "targets" /\ UNCHANGED Tables
  BY RequestFacts DEF LockSubEntity, Inv
<1> HIDE DEF i
<1>2. \/ request' = [request EXCEPT ![r].pc = "children"]
      \/ i \in Existing /\ request' = [request EXCEPT ![r].locks = @ \cup {i}]
      \/ Ended(r, "error")
  BY DEF LockSubEntity, i
<1>3. /\ g.removed = {} /\ g.added = {} /\ g.answer = "none"
      /\ g.locks \subseteq 1 .. serials.entities /\ g.wanted \subseteq 1 .. serials.entities
      /\ g.locks \in SUBSET Nat
      /\ \A c \in g.seen : c.parent = g.entity
      /\ PlanOf(g.op).reads = "entity" => g.entity # Nobody /\ HoldsItsEntity(g, rows)
      /\ Fits(relation, g.op)
  BY <1>1 DEF RequestOK, RequestFits, RequestTypes
<1>4. ASSUME NEW pc \in {"targets", "children"}, NEW more \in SUBSET (1 .. serials.entities),
             request' = [request EXCEPT ![r].pc = pc, ![r].locks = g.locks \cup more]
      PROVE  Inv'
  <2> DEFINE locks == g.locks \cup more
             g2 == [g EXCEPT !.pc = pc, !.locks = locks]
  <2>1. locks \in SUBSET Nat /\ locks \subseteq 1 .. serials.entities /\ g.locks \subseteq locks
    <3>1. serials.entities \in Nat
      BY <1>1 DEF Typed
    <3>2. 1 .. serials.entities \subseteq Nat
      BY <3>1
    <3>3. locks \subseteq 1 .. serials.entities
      BY <1>3
    <3> QED BY <3>2, <3>3
  <2>2. request' = [request EXCEPT ![r] = g2]
    BY <1>1, <1>4
  <2> HIDE DEF locks
  <2>3. g2 \in RequestTypes
    BY <1>1, <2>1 DEF RequestTypes
  <2>4. /\ g2.pc = pc /\ g2.op = g.op /\ g2.entity = g.entity /\ g2.seen = g.seen
        /\ g2.removed = g.removed /\ g2.added = g.added /\ g2.answer = g.answer
        /\ g2.locks = locks /\ g2.wanted = g.wanted /\ g2.version = g.version
    BY <1>1 DEF RequestTypes
  <2> HIDE DEF g2, g
  <2>5. RequestOK(g2)
    BY <1>3, <2>1, <2>4 DEF RequestOK, RequestFits, HoldsItsEntity
  <2> QED BY <1>1, <1>3, <2>2, <2>3, <2>4, <2>5, RequestStep
<1>5. CASE request' = [request EXCEPT ![r].pc = "children"]
  <2>1. request' = [request EXCEPT ![r].pc = "children", ![r].locks = g.locks \cup {}]
    BY <1>1, <1>5 DEF RequestTypes
  <2>2. "children" \in {"targets", "children"} /\ {} \in SUBSET (1 .. serials.entities)
    OBVIOUS
  <2> HIDE DEF g
  <2> QED BY <1>4, <2>1, <2>2
<1>6. CASE i \in Existing /\ request' = [request EXCEPT ![r].locks = @ \cup {i}]
  <2>1. request' = [request EXCEPT ![r].pc = "targets", ![r].locks = g.locks \cup {i}]
    BY <1>1, <1>6 DEF RequestTypes
  <2>2. {i} \in SUBSET (1 .. serials.entities)
    BY <1>1, <1>6 DEF Typed
  <2>3. "targets" \in {"targets", "children"}
    OBVIOUS
  <2> HIDE DEF g
  <2> QED BY <1>4, <2>1, <2>2, <2>3
<1>7. CASE Ended(r, "error")
  BY <1>1, <1>7, EndedStep
<1> QED BY <1>2, <1>5, <1>6, <1>7
-----------------------------------------------------------------------------
(* Steps that write.                                                       *)

\* The last serial number is that of the newest row.
LEMMA KeysFollow ==
    ASSUME Typed, NEW added, RowsOK(added)
    PROVE  LET last == Max({serials.children} \cup {c.key : c \in added})
           IN last \in Nat /\ last >= serials.children /\ \A c \in added : c.key <= last
<1> DEFINE keys == {c.key : c \in added}
           S == {serials.children} \cup keys
           f == [c \in added |-> c.key]
<1>1. serials.children \in Nat /\ added \subseteq Children /\ IsFiniteSet(added)
  BY DEF Typed, RowsOK
<1>2. S \subseteq Nat /\ S # {} /\ serials.children \in S /\ \A c \in added : c.key \in S
  BY <1>1 DEF Children
<1>3. f \in [added -> keys] /\ \A y \in keys : \E c \in added : f[c] = y
  OBVIOUS
<1>4. IsFiniteSet(keys)
  <2> HIDE DEF f, keys
  <2> QED BY <1>1, <1>3, FiniteImage
<1>5. IsFiniteSet({serials.children})
  BY FS_Singleton
<1>6. IsFiniteSet(S)
  <2> HIDE DEF keys
  <2> QED BY <1>4, <1>5, FS_Union
<1> HIDE DEF S
<1>7. S \subseteq Int /\ \A x \in S : x \in Nat
  BY <1>2
<1>8. Max(S) \in S /\ \A x \in S : Max(S) >= x
  BY <1>2, <1>6, <1>7, MaxOfIntegers
<1>9. Max(S) \in Nat /\ Max(S) >= serials.children /\ \A c \in added : c.key <= Max(S)
  BY <1>2, <1>7, <1>8
<1> QED BY <1>9 DEF S

\* The slots of the model are those of the kind of relation.
LEMMA SlotsOfTheRelation ==
    \A cs : /\ Slots(cs) = SlotsIn(relation, cs)
            /\ Duplicates(cs) <=> DuplicatesIn(relation, cs)
<1>1. \A c : Slot(c) = SlotIn(relation, c)
  BY DEF Slot, SlotIn
<1> QED BY <1>1 DEF Slots, SlotsIn, Duplicates, DuplicatesIn

\* Rows with new serial numbers, and rows that keep theirs, keep their entities.
LEMMA RowsKeepTheirEntity ==
    ASSUME Typed, KeysOK, NEW added, RowsOK(added),
           NEW c \in KnownRows \cup added, NEW d \in KnownRows \cup added, c.key = d.key
    PROVE  c.parent = d.parent
<1>1. \A e \in KnownRows : e.key \in Nat /\ e.key <= serials.children
  BY DEF Typed, KeysOK
<1>2. \A e \in added : e.key \in Nat
  BY DEF RowsOK, Children
<1>3. serials.children \in Nat
  BY DEF Typed
<1>4. \A e \in KnownRows \cup added : ~(e.key > serials.children) =>
         \E k \in KnownRows : k.key = e.key /\ k.parent = e.parent
  BY DEF RowsOK, KnownRows
<1>5. \A e \in KnownRows \cup added : e.key > serials.children => e \in added
  BY <1>1, <1>3
<1>6. CASE c.key > serials.children
  BY <1>5, <1>6 DEF RowsOK
<1>7. CASE ~(c.key > serials.children)
  <2>1. PICK k \in KnownRows : k.key = c.key /\ k.parent = c.parent
    BY <1>4, <1>7
  <2>2. PICK l \in KnownRows : l.key = d.key /\ l.parent = d.parent
    BY <1>4, <1>7
  <2> QED BY <2>1, <2>2 DEF KeysOK
<1> QED BY <1>6, <1>7

\* A step that gives one request a new value leaves the others theirs.
LEMMA OneRequestChanges ==
    ASSUME NEW r \in Requests, NEW g \in RequestTypes,
           request \in [Requests -> RequestTypes], request' = [request EXCEPT ![r] = g]
    PROVE  /\ request' \in [Requests -> RequestTypes] /\ request'[r] = g
           /\ \A q \in Requests \ {r} : request'[q] = request[q]
  OBVIOUS

\* The rows of the relation are written, and no constraint refuses them.
LEMMA RowsAreWritten ==
    ASSUME Inv, NEW r \in Requests, request[r].pc = "children",
           NEW change, change = ChangeOfChildren(r), ~Violates(change),
           \A q \in Others(r) : ~ChildrenAreLocked(change, q),
           request' = [request EXCEPT
               ![r].pc = "row", ![r].removed = change.removed,
               ![r].added = change.added, ![r].shares = References(change)],
           serials' = [serials EXCEPT !.children =
                           Max({@} \cup {c.key : c \in change.added})],
           UNCHANGED <<relation, rows, children>>
    PROVE  Inv'
<1> DEFINE g == request[r]
           removed == change.removed
           added == change.added
           shares == References(change)
           last == Max({serials.children} \cup {c.key : c \in added})
           g2 == [g EXCEPT !.pc = "row", !.removed = removed, !.added = added,
                           !.shares = shares]
<1>1. /\ Typed /\ KeysOK /\ PlacesOK /\ UniqueOK /\ RequestsOK
      /\ g \in RequestTypes /\ RequestOK(g) /\ request \in [Requests -> RequestTypes]
      /\ relation' = relation /\ rows' = rows /\ children' = children
  BY RequestFacts DEF Inv
<1>2. Writing(g)
  BY <1>1, RequestFacts DEF Writing
<1>3. /\ removed \subseteq children /\ RowsOK(added)
      /\ KeepsToItsEntity(g.op) => \A c \in removed : c.parent = g.entity
  BY <1>2, ChangeOfChildrenOK DEF ChangeOK
<1>4. added \subseteq Children /\ IsFiniteSet(added) /\ removed \subseteq Children
  BY <1>1, <1>3 DEF RowsOK, Typed
<1>5. shares \in SUBSET Nat
  BY <1>4 DEF References, Children
<1>6. last \in Nat /\ last >= serials.children /\ \A c \in added : c.key <= last
  BY <1>1, <1>3, KeysFollow
<1>7. serials' = [serials EXCEPT !.children = last]
  OBVIOUS
<1> HIDE DEF last
<1>8. /\ serials' \in [entities : Nat, children : Nat]
      /\ serials'.entities = serials.entities /\ serials'.children = last
  BY <1>1, <1>6, <1>7 DEF Typed
<1>9. request' = [request EXCEPT ![r] = g2]
  BY <1>1
<1> HIDE DEF removed, added, shares
<1>10. /\ g2 \in RequestTypes
       /\ g2.pc = "row" /\ g2.op = g.op /\ g2.entity = g.entity /\ g2.seen = g.seen
       /\ g2.removed = removed /\ g2.added = added /\ g2.answer = g.answer
       /\ g2.locks = g.locks /\ g2.wanted = g.wanted /\ g2.version = g.version
  <2>1. g \in RequestTypes /\ removed \in SUBSET Children /\ added \in SUBSET Children
    BY <1>1, <1>4
  <2> HIDE DEF g
  <2> QED BY <1>5, <2>1 DEF RequestTypes
<1>11. /\ request' \in [Requests -> RequestTypes] /\ request'[r] = g2
       /\ \A q \in Requests \ {r} : request'[q] = request[q]
  <2>1. request \in [Requests -> RequestTypes] /\ g2 \in RequestTypes
    BY <1>1, <1>10
  <2> HIDE DEF g2, g
  <2> QED BY <1>9, <2>1, OneRequestChanges
<1> HIDE DEF g2
<1>12. KnownRows' \subseteq KnownRows \cup added
  <2>1. \A q \in Requests :
           request[q].seen \subseteq KnownRows /\ request[q].added \subseteq KnownRows
    BY DEF KnownRows
  <2>2. g2.seen \subseteq KnownRows /\ g2.added = added
    BY <1>10, <2>1
  <2>3. \A q \in Requests : request'[q].seen \cup request'[q].added \subseteq KnownRows \cup added
    BY <1>11, <2>1, <2>2
  <2>4. children' \subseteq KnownRows
    BY <1>1 DEF KnownRows
  <2> QED BY <2>3, <2>4 DEF KnownRows
<1>13. Typed'
  <2>1. /\ rows \in [Existing -> RowTypes] /\ Existing \subseteq 1 .. serials.entities
        /\ relation \in Relations /\ Existing' = Existing
        /\ children \subseteq Children /\ IsFiniteSet(children)
    BY <1>1 DEF Typed, Existing
  <2>2. ASSUME NEW q \in Requests
        PROVE  IsFiniteSet(request'[q].seen) /\ IsFiniteSet(request'[q].added)
    BY <1>1, <1>4, <1>10, <1>11 DEF Typed
  <2> QED BY <1>1, <1>8, <1>11, <2>1, <2>2 DEF Typed
<1>14. KeysOK'
  <2>1. ASSUME NEW c \in KnownRows \cup added
        PROVE  c.key \in 1 .. last
    <3>1. \A e \in KnownRows : e.key \in 1 .. serials.children
      BY <1>1 DEF KeysOK
    <3>2. serials.children \in Nat
      BY <1>1 DEF Typed
    <3>3. CASE c \in KnownRows
      BY <1>6, <3>1, <3>2, <3>3
    <3>4. CASE c \in added
      <4>1. c.key \in Nat /\ c.key <= last
        BY <1>4, <1>6, <3>4 DEF Children
      <4>2. c.key > serials.children \/ \E e \in KnownRows : e.key = c.key
        BY <1>3, <3>4 DEF RowsOK, KnownRows
      <4>3. c.key >= 1
        BY <3>1, <3>2, <4>1, <4>2
      <4> QED BY <1>6, <4>1, <4>3
    <3> QED BY <3>3, <3>4
  <2>2. \A c, d \in KnownRows \cup added : c.key = d.key => c.parent = d.parent
    BY <1>1, <1>3, RowsKeepTheirEntity
  <2>3. \A c \in KnownRows' : c.key \in 1 .. serials'.children
    BY <1>8, <1>12, <2>1
  <2>4. \A c, d \in KnownRows' : c.key = d.key => c.parent = d.parent
    BY <1>12, <2>2
  <2> QED BY <2>3, <2>4 DEF KeysOK
<1>15. PlacesOK'
  <2>1. \A c \in KnownRows \cup added : InRange(c)
    BY <1>1, <1>3 DEF PlacesOK, RowsOK
  <2> QED BY <1>1, <1>12, <2>1 DEF PlacesOK, InRange
<1>16. UniqueOK'
  <2>1. ~DuplicatesIn(relation, (children \ removed) \cup added)
    BY SlotsOfTheRelation DEF Violates, removed, added
  <2>2. ASSUME NEW q \in Requests \ {r}
        PROVE  SlotsIn(relation, added) \cap SlotsIn(relation, request[q].added) = {}
    <3>1. Slots(added) \cap Slots(request[q].removed \cup request[q].added) = {}
      BY DEF Others, ChildrenAreLocked, added
    <3>2. SlotsIn(relation, request[q].added)
             \subseteq SlotsIn(relation, request[q].removed \cup request[q].added)
      BY DEF SlotsIn
    <3> QED BY <3>1, <3>2, SlotsOfTheRelation
  <2>3. ~DuplicatesIn(relation', children')
    BY <1>1 DEF UniqueOK
  <2>4. ASSUME NEW q \in Requests
        PROVE  ~DuplicatesIn(relation', (children' \ request'[q].removed) \cup request'[q].added)
    <3>1. CASE q = r
      BY <1>1, <1>10, <1>11, <2>1, <3>1
    <3>2. CASE q # r
      BY <1>1, <1>11, <3>2 DEF UniqueOK
    <3> QED BY <3>1, <3>2
  <2>5. ASSUME NEW p \in Requests, NEW q \in Requests, p # q
        PROVE  SlotsIn(relation', request'[p].added)
                 \cap SlotsIn(relation', request'[q].added) = {}
    <3>1. CASE p = r
      BY <1>1, <1>10, <1>11, <2>2, <2>5, <3>1
    <3>2. CASE q = r
      BY <1>1, <1>10, <1>11, <2>2, <2>5, <3>2
    <3>3. CASE p # r /\ q # r
      BY <1>1, <1>11, <2>5, <3>3 DEF UniqueOK
    <3> QED BY <3>1, <3>2, <3>3
  <2> QED BY <2>3, <2>4, <2>5 DEF UniqueOK
<1>17. RequestsOK'
  <2>1. RequestFits(g2, relation, serials.entities, rows)
    <3>1. RequestFits(g, relation, serials.entities, rows) /\ g.pc = "children"
      BY <1>1 DEF RequestOK
    <3> HIDE DEF g
    <3>2. PlanOf(g2.op).reads = "entity" => g2.entity # Nobody /\ HoldsItsEntity(g2, rows)
      BY <1>10, <3>1 DEF RequestFits, HoldsItsEntity
    <3>3. KeepsToItsEntity(g2.op) => \A c \in g2.removed : c.parent = g2.entity
      BY <1>3, <1>10 DEF g
    <3> QED BY <1>10, <3>1, <3>2, <3>3 DEF RequestFits
  <2>2. \A q \in Requests : RequestFits(request'[q], relation, serials.entities, rows)
    BY <1>1, <1>11, <2>1 DEF RequestsOK, RequestOK
  <2> QED BY <1>1, <1>8, <2>2 DEF RequestsOK, RequestOK
<1> QED BY <1>13, <1>14, <1>15, <1>16, <1>17 DEF Inv

\* Or a constraint refuses the rows, and the transaction is rolled back.
LEMMA WriteChildrenStep ==
    ASSUME Inv, NEW r \in Requests, WriteChildren(r)
    PROVE  Inv'
<1>1. CASE RolledBack(r)
  BY <1>1, EndedStep DEF RolledBack, Tables
<1>2. CASE ~RolledBack(r)
  BY <1>2, RowsAreWritten DEF WriteChildren
<1> QED BY <1>1, <1>2

\* The row of the entity is written, and the transaction commits.
LEMMA CommitStep ==
    ASSUME Inv, NEW r \in Requests, request[r].pc = "row",
           NEW newRows, NEW newChildren, NEW n \in {0, 1},
           Commit(r, newRows, newChildren, n),
           newRows \in [DOMAIN newRows -> RowTypes],
           DOMAIN newRows \subseteq 1 .. serials.entities + n,
           newChildren \subseteq (children \ request[r].removed) \cup request[r].added,
           \A q \in Others(r) : \A i \in request[q].locks \cap Existing :
              i \in DOMAIN newRows /\ newRows[i] = rows[i]
    PROVE  Inv'
<1> DEFINE g == request[r]
           g2 == AnsweredWith(g, "ok")
           changed == (children \ g.removed) \cup g.added
<1>1. /\ Typed /\ KeysOK /\ PlacesOK /\ UniqueOK /\ RequestsOK
      /\ g \in RequestTypes /\ request \in [Requests -> RequestTypes]
      /\ relation \in Relations
      /\ relation' = relation /\ rows' = newRows /\ children' = newChildren
      /\ serials' = [serials EXCEPT !.entities = @ + n]
  BY RequestFacts DEF Inv, Commit
<1>2. /\ serials \in [entities : Nat, children : Nat]
      /\ serials' \in [entities : Nat, children : Nat]
      /\ serials'.entities = serials.entities + n /\ serials'.children = serials.children
  BY <1>1 DEF Typed
<1>3. /\ g2 \in RequestTypes
      /\ RequestFits(g2, relation, serials.entities, rows)
      /\ g2.seen = {} /\ g2.removed = {} /\ g2.added = {} /\ g2.pc = "idle"
  BY <1>1, AnsweredOK DEF RequestOK
<1>4. request' = [request EXCEPT ![r] = g2]
  BY DEF Commit, Ended, AnsweredWith
<1>5. /\ request' \in [Requests -> RequestTypes] /\ request'[r] = g2
      /\ \A q \in Requests \ {r} : request'[q] = request[q]
  BY <1>1, <1>3, <1>4
<1> HIDE DEF g2
<1>6. /\ children' \subseteq changed /\ g.added \subseteq KnownRows
      /\ children \subseteq KnownRows
  BY <1>1 DEF KnownRows
<1>7. KnownRows' \subseteq KnownRows
  <2>1. \A q \in Requests : request'[q].seen \cup request'[q].added \subseteq KnownRows
    BY <1>3, <1>5 DEF KnownRows
  <2> QED BY <1>6, <2>1 DEF KnownRows
<1>8. Typed'
  <2>1. IsFiniteSet(changed) /\ changed \subseteq Children
    <3>1. IsFiniteSet(children) /\ IsFiniteSet(g.added)
      BY <1>1 DEF Typed
    <3>2. IsFiniteSet(children \ g.removed)
      BY <3>1, FS_Subset
    <3> QED BY <1>1, <3>1, <3>2, FS_Union DEF Typed, RequestTypes
  <2>2. IsFiniteSet(children') /\ children' \subseteq Children
    BY <1>6, <2>1, FS_Subset
  <2>3. rows' \in [Existing' -> RowTypes] /\ Existing' \subseteq 1 .. serials'.entities
    BY <1>1, <1>2 DEF Existing
  <2>4. ASSUME NEW q \in Requests
        PROVE  IsFiniteSet(request'[q].seen) /\ IsFiniteSet(request'[q].added)
    BY <1>1, <1>3, <1>5, FS_EmptySet DEF Typed
  <2> QED BY <1>1, <1>2, <1>5, <2>2, <2>3, <2>4 DEF Typed
<1>9. KeysOK' /\ PlacesOK'
  BY <1>1, <1>2, <1>7 DEF KeysOK, PlacesOK, InRange
<1>10. UniqueOK'
  <2>1. /\ ~DuplicatesIn(relation, changed)
        /\ \A q \in Requests : ~DuplicatesIn(relation, (children \ request[q].removed)
                                                       \cup request[q].added)
        /\ \A q \in Requests \ {r} :
              SlotsIn(relation, g.added) \cap SlotsIn(relation, request[q].added) = {}
    BY <1>1 DEF UniqueOK
  <2>2. ~DuplicatesIn(relation, children')
    BY <1>6, <2>1 DEF DuplicatesIn
  <2>3. ASSUME NEW q \in Requests \ {r},
               NEW c \in (children' \ request[q].removed) \cup request[q].added,
               NEW d \in (children' \ request[q].removed) \cup request[q].added,
               c # d, c.parent # Nobody, SlotIn(relation, c) = SlotIn(relation, d)
        PROVE  FALSE
    <3>1. d.parent # Nobody
      BY <2>3 DEF SlotIn
    <3>2. c \notin children' \/ d \notin children'
      BY <2>2, <2>3 DEF DuplicatesIn
    <3>3. c \in g.added \/ d \in g.added
      BY <1>6, <2>1, <2>3 DEF DuplicatesIn
    <3>4. \A e, f : /\ e \in g.added /\ f \in request[q].added
                    /\ e.parent # Nobody /\ f.parent # Nobody
                    => SlotIn(relation, e) # SlotIn(relation, f)
      BY <2>1 DEF SlotsIn
    <3>5. ~DuplicatesIn(relation, (children \ request[q].removed) \cup request[q].added)
      BY <2>1
    <3> QED BY <1>6, <2>3, <3>1, <3>2, <3>3, <3>4, <3>5 DEF DuplicatesIn
  <2>4. ASSUME NEW q \in Requests
        PROVE  ~DuplicatesIn(relation, (children' \ request'[q].removed) \cup request'[q].added)
    <3>1. CASE q = r
      <4>1. (children' \ request'[q].removed) \cup request'[q].added = children'
        BY <1>3, <1>5, <3>1
      <4> QED BY <2>2, <4>1
    <3>2. CASE q # r
      BY <1>5, <2>3, <3>2 DEF DuplicatesIn
    <3> QED BY <3>1, <3>2
  <2>5. ASSUME NEW p \in Requests, NEW q \in Requests, p # q
        PROVE  SlotsIn(relation, request'[p].added) \cap SlotsIn(relation, request'[q].added) = {}
    <3>1. SlotsIn(relation, {}) = {}
      BY DEF SlotsIn
    <3> QED BY <1>1, <1>3, <1>5, <2>5, <3>1 DEF UniqueOK
  <2> QED BY <1>1, <2>2, <2>4, <2>5 DEF UniqueOK
<1>11. RequestsOK'
  <2>1. serials.entities \in Nat /\ 1 .. serials.entities \subseteq 1 .. serials'.entities
    BY <1>2
  <2>2. ASSUME NEW q \in Requests
        PROVE  RequestFits(request'[q], relation, serials'.entities, newRows)
    <3> DEFINE h == request'[q]
    <3>1. RequestFits(h, relation, serials.entities, rows)
      BY <1>1, <1>3, <1>5 DEF RequestsOK, RequestOK
    <3>2. HoldsItsEntity(h, rows) /\ q # r => HoldsItsEntity(h, newRows)
      BY <1>5 DEF HoldsItsEntity, Others, Existing
    <3>3. q = r => h.pc = "idle"
      BY <1>3, <1>5
    <3> HIDE DEF h
    <3>4. RequestFits(h, relation, serials'.entities, newRows)
      BY <2>1, <3>1, <3>2, <3>3 DEF RequestFits
    <3> QED BY <3>4 DEF h
  <2> QED BY <1>1, <2>2 DEF RequestsOK, RequestOK
<1> QED BY <1>8, <1>9, <1>10, <1>11 DEF Inv

\* Whatever is done to the row of the entity, rows locked by others stay.
LEMMA WriteRowStep ==
    ASSUME Inv, NEW r \in Requests, WriteRow(r)
    PROVE  Inv'
<1> DEFINE g == request[r]
           op == g.op
           onRow == PlanOf(op).onRow
           changed == (children \ g.removed) \cup g.added
           new == serials.entities + 1
           inserted == [i \in Existing \cup {new} |->
                           IF i = new THEN [version |-> 1, name |-> op.name] ELSE rows[i]]
           updated == [i \in Existing |-> IF i \in Written(r) THEN NewRow(r, i) ELSE rows[i]]
           kept == [i \in Existing \ Written(r) |-> rows[i]]
<1>1. /\ Typed /\ g \in RequestTypes /\ op \in Operations /\ g.pc = "row"
      /\ op.name \in Names \cup {NoName, "new"} /\ g.version \in Nat
  BY RequestFacts DEF Inv, WriteRow, RequestTypes, Operations
<1>2. /\ serials.entities \in Nat /\ new \in 1 .. serials.entities + 1
      /\ Existing \subseteq 1 .. serials.entities /\ new \notin Existing
      /\ rows \in [Existing -> RowTypes]
  BY <1>1 DEF Typed
<1>3. \A q \in Others(r) : Written(r) \cap request[q].locks = {}
  BY DEF WriteRow, RowIsLocked
<1>4. \/ RolledBack(r)
      \/ Commit(r, inserted, changed, 1)
      \/ onRow \in {"increment", "set"} /\ Commit(r, updated, changed, 0)
      \/ Commit(r, kept, changed \ Cascaded(r), 0)
      \/ Commit(r, rows, changed, 0)
  BY DEF WriteRow
<1>5. CASE RolledBack(r)
  BY <1>5, EndedStep DEF RolledBack, Tables
<1>6. CASE Commit(r, inserted, changed, 1)
  <2>1. DOMAIN inserted = Existing \cup {new}
    OBVIOUS
  <2>2. inserted \in [Existing \cup {new} -> RowTypes]
    <3>1. [version |-> 1, name |-> op.name] \in RowTypes
      BY <1>1 DEF RowTypes
    <3>2. \A i \in Existing : rows[i] \in RowTypes
      BY <1>2
    <3> HIDE DEF new
    <3> QED BY <3>1, <3>2
  <2>3. \A i \in Existing : inserted[i] = rows[i]
    BY <1>2
  <2>4. Existing \cup {new} \subseteq 1 .. serials.entities + 1
    <3>1. 1 .. serials.entities \subseteq 1 .. serials.entities + 1
      BY <1>2
    <3> HIDE DEF new
    <3> QED BY <1>2, <3>1
  <2>5. 1 \in {0, 1} /\ changed \subseteq changed
    OBVIOUS
  <2> HIDE DEF inserted, new
  <2> QED BY <1>1, <1>6, <2>1, <2>2, <2>3, <2>4, <2>5, CommitStep
<1>7. CASE onRow \in {"increment", "set"} /\ Commit(r, updated, changed, 0)
  <2>1. DOMAIN updated = Existing
    OBVIOUS
  <2>2. ASSUME NEW i \in Existing
        PROVE  NewRow(r, i) \in RowTypes
    <3>1. rows[i] \in RowTypes
      BY <1>2
    <3> QED BY <1>1, <3>1 DEF NewRow, RowTypes
  <2>3. updated \in [Existing -> RowTypes]
    BY <1>2, <2>2
  <2>4. \A i \in Existing \ Written(r) : updated[i] = rows[i]
    OBVIOUS
  <2>5. Existing \subseteq 1 .. serials.entities + 0
    BY <1>2
  <2>6. 0 \in {0, 1} /\ changed \subseteq changed
    OBVIOUS
  <2> HIDE DEF updated
  <2> QED BY <1>1, <1>3, <1>7, <2>1, <2>3, <2>4, <2>5, <2>6, CommitStep
<1>8. CASE Commit(r, kept, changed \ Cascaded(r), 0)
  <2>1. DOMAIN kept = Existing \ Written(r)
    OBVIOUS
  <2>2. kept \in [Existing \ Written(r) -> RowTypes]
    BY <1>2
  <2>3. \A i \in Existing \ Written(r) : kept[i] = rows[i]
    OBVIOUS
  <2>4. Existing \ Written(r) \subseteq 1 .. serials.entities + 0
    <3>1. serials.entities + 0 = serials.entities
      BY <1>2
    <3> QED BY <1>2, <3>1
  <2>5. 0 \in {0, 1} /\ changed \ Cascaded(r) \subseteq changed
    OBVIOUS
  <2> HIDE DEF kept
  <2> QED BY <1>1, <1>3, <1>8, <2>1, <2>2, <2>3, <2>4, <2>5, CommitStep
<1>9. CASE Commit(r, rows, changed, 0)
  <2>1. DOMAIN rows = Existing
    BY DEF Existing
  <2>2. Existing \subseteq 1 .. serials.entities + 0
    BY <1>2
  <2>3. 0 \in {0, 1} /\ changed \subseteq changed
    OBVIOUS
  <2> QED BY <1>1, <1>2, <1>9, <2>1, <2>2, <2>3, CommitStep
<1> QED BY <1>4, <1>5, <1>6, <1>7, <1>8, <1>9

\* The entities and sub-entities that exist at first satisfy the invariant.
LEMMA InitInv == Init => Inv
<1> SUFFICES ASSUME Init PROVE Inv
  OBVIOUS
<1>1. /\ relation \in Relations
      /\ rows = [i \in {1, 2} |-> [version |-> 1, name |-> IF i = 1 THEN "a" ELSE "b"]]
      /\ serials = [entities |-> 2, children |-> 3]
      /\ request = [r \in Requests |-> NoRequest]
  BY DEF Init
<1>2. children \subseteq {Child(1, 1, 0, 2), Child(1, 1, 0, 0), Child(2, 1, 1, 0),
                          Child(2, 1, 1, 1), Child(3, 2, 0, 0)}
  BY DEF Init
<1>3. \A c \in children :
         /\ c \in Children /\ c.key \in 1 .. 3 /\ c.parent \in {1, 2} /\ c.id \in {0, 1}
         /\ c.parent = (IF c.key = 3 THEN 2 ELSE 1)
  BY <1>2 DEF Child, Children
<1>4. \A r \in Requests : request[r] = NoRequest
  BY <1>1
<1>5. /\ NoRequest \in RequestTypes /\ NoRequest.seen = {} /\ NoRequest.removed = {}
      /\ NoRequest.added = {}
  BY EmptyRequest
<1>6. IsFiniteSet(children)
  <2>1. \A S, x : IsFiniteSet(S) => IsFiniteSet(S \cup {x})
    BY FS_AddElement
  <2>2. IsFiniteSet({} \cup {Child(1, 1, 0, 2)} \cup {Child(1, 1, 0, 0)}
                      \cup {Child(2, 1, 1, 0)} \cup {Child(2, 1, 1, 1)} \cup {Child(3, 2, 0, 0)})
    BY <2>1, FS_EmptySet
  <2> QED BY <1>2, <2>2, FS_Subset
<1>7. KnownRows = children
  BY <1>4, <1>5 DEF KnownRows
<1>8. Existing = {1, 2}
  BY <1>1 DEF Existing
<1>9. Typed
  <2>1. rows \in [Existing -> RowTypes]
    BY <1>1, <1>8 DEF RowTypes
  <2>2. serials \in [entities : Nat, children : Nat] /\ Existing \subseteq 1 .. serials.entities
    BY <1>1, <1>8
  <2>3. children \subseteq Children
    BY <1>3
  <2>4. request \in [Requests -> RequestTypes]
    BY <1>1, <1>5
  <2>5. \A r \in Requests : IsFiniteSet(request[r].seen) /\ IsFiniteSet(request[r].added)
    BY <1>4, <1>5, FS_EmptySet
  <2> QED BY <1>1, <1>6, <2>1, <2>2, <2>3, <2>4, <2>5 DEF Typed
<1>10. KeysOK /\ PlacesOK
  BY <1>1, <1>3, <1>7, SizesAssumption DEF KeysOK, PlacesOK, InRange
<1>11. ~DuplicatesIn(relation, children)
  <2>1. CASE relation = "manyToMany"
    BY <2>1 DEF Init, DuplicatesIn
  <2>2. CASE relation # "manyToMany"
    <3>1. \A c, d \in children : c.parent = d.parent /\ c.id = d.id => c = d
      BY <2>2 DEF Init, Child
    <3> QED BY <2>2, <3>1 DEF DuplicatesIn, SlotIn
  <2> QED BY <2>1, <2>2
<1>12. UniqueOK
  <2>1. SlotsIn(relation, {}) = {} /\ (children \ {}) \cup {} = children
    BY DEF SlotsIn
  <2> QED BY <1>4, <1>5, <1>11, <2>1 DEF UniqueOK
<1>13. RequestsOK
  <2>1. RequestFits(NoRequest, relation, serials.entities, rows)
    BY <1>1, EmptyRequest DEF RequestFits
  <2> QED BY <1>4, <2>1 DEF RequestsOK, RequestOK
<1> QED BY <1>9, <1>10, <1>12, <1>13 DEF Inv

\* The transaction that the database chooses to end a deadlock has written nothing.
LEMMA DeadlockStep ==
    ASSUME Inv, NEW r \in Requests, Deadlock(r)
    PROVE  Inv'
  BY EndedStep DEF Deadlock, RolledBack, Tables

\* The invariant is about the variables only.
LEMMA StutterInv ==
    ASSUME Inv, UNCHANGED vars
    PROVE  Inv'
<1>1. /\ relation' = relation /\ rows' = rows /\ children' = children
      /\ serials' = serials /\ request' = request
  BY DEF vars
<1>2. Typed'
  BY <1>1 DEF Inv, Typed, Existing
<1>3. KnownRows' = KnownRows
  BY <1>1 DEF KnownRows
<1>4. KeysOK' /\ PlacesOK' /\ UniqueOK' /\ RequestsOK'
  BY <1>1, <1>3 DEF Inv, KeysOK, PlacesOK, InRange, UniqueOK, RequestsOK, RequestOK
<1> QED BY <1>2, <1>4 DEF Inv

\* Every step keeps the invariant, one lemma for each action.
LEMMA StepInv == Inv /\ [Next]_vars => Inv'
<1> SUFFICES ASSUME Inv, [Next]_vars PROVE Inv'
  OBVIOUS
<1>1. CASE UNCHANGED vars
  BY <1>1, StutterInv
<1>2. ASSUME NEW r \in Requests, Begin(r) \/ Step(r)
      PROVE  Inv'
  <2>1. CASE Begin(r)
    BY <2>1, BeginStep
  <2>2. CASE SelectEntity(r)
    BY <2>2, SelectEntityStep
  <2>3. CASE LockEntity(r)
    BY <2>3, LockEntityStep
  <2>4. CASE LockSubEntity(r)
    BY <2>4, LockSubEntityStep
  <2>5. CASE WriteChildren(r)
    BY <2>5, WriteChildrenStep
  <2>6. CASE WriteRow(r)
    BY <2>6, WriteRowStep
  <2>7. CASE Deadlock(r)
    BY <2>7, DeadlockStep
  <2> QED BY <1>2, <2>1, <2>2, <2>3, <2>4, <2>5, <2>6, <2>7 DEF Step
<1> QED BY <1>1, <1>2 DEF Next

\* The invariant holds in every state that the transactions reach.
THEOREM Invariance == Spec => []Inv
<1>1. Init => Inv
  BY InitInv
<1>2. Inv /\ [Next]_vars => Inv'
  BY StepInv
<1> QED BY <1>1, <1>2, PTL DEF Spec

\* Rows, serial numbers and requests have their types, and a request that is over
\* holds neither locks nor rows.
THEOREM TypeCorrectness == Spec => []TypeOK
<1>1. Inv => TypeOK
  <2> SUFFICES ASSUME Inv PROVE TypeOK
    OBVIOUS
  <2>1. Typed /\ KeysOK /\ RequestsOK
    BY DEF Inv
  <2>2. \A i \in Existing : rows[i].version \in Nat \ {0} /\ i \in 1 .. serials.entities
    BY <2>1 DEF Typed, RowTypes
  <2>3. \A c \in children : c.key \in 1 .. serials.children
    BY <2>1 DEF KeysOK, KnownRows
  <2>4. ASSUME NEW r \in Requests
        PROVE  /\ request[r].pc \in {"idle", "selecting", "locking", "targets", "children", "row"}
               /\ request[r].answer \in {"none", "ok", "error"}
               /\ request[r].locks \subseteq 1 .. serials.entities
               /\ request[r].pc = "idle" => request[r].locks \cup request[r].removed = {}
    <3>1. request[r] \in RequestTypes /\ RequestOK(request[r])
      BY <2>1 DEF Typed, RequestsOK
    <3> QED BY <3>1 DEF RequestTypes, RequestOK, RequestFits
  <2> QED BY <2>1, <2>2, <2>3, <2>4 DEF TypeOK, Typed
<1> QED BY <1>1, Invariance, PTL

\* An entity has at most as many sub-entities as there are places.
LEMMA PlacesBound ==
    ASSUME Inv, relation \in OneToMany, NEW i \in Existing
    PROVE  Cardinality(ChildrenOf(i)) <= MaxSize
<1> DEFINE S == ChildrenOf(i)
           T == 0 .. MaxSize - 1
           place == [c \in S |-> c.id]
<1>1. Typed /\ PlacesOK /\ ~DuplicatesIn(relation, children)
  BY DEF Inv, UniqueOK
<1>2. i # Nobody
  BY <1>1 DEF Typed, Nobody
<1>3. ASSUME NEW c \in S
      PROVE  c \in children /\ c.parent = i /\ c.id \in T
  BY <1>1, <1>2 DEF ChildrenOf, PlacesOK, InRange, KnownRows
<1>4. ASSUME NEW c \in S, NEW d \in S, c.id = d.id
      PROVE  c = d
  <2>1. SlotIn(relation, c) = SlotIn(relation, d)
    BY <1>3, <1>4 DEF SlotIn, OneToMany
  <2> QED BY <1>1, <1>2, <1>3, <2>1 DEF DuplicatesIn
<1>5. place \in Injection(S, T)
  BY <1>3, <1>4 DEF Injection, IsInjective
<1>6. IsFiniteSet(T) /\ Cardinality(T) = MaxSize
  BY FS_Interval, SizesAssumption
<1> HIDE DEF S, T, place
<1>7. Cardinality(S) <= Cardinality(T)
  BY <1>5, <1>6, FS_Injection
<1> QED BY <1>6, <1>7 DEF S

\* A one-to-many relation keeps its maximum of sub-entities, although additions count
\* the sub-entities of a snapshot that may miss some (AbstractSqlDbManager's
\* addSubEntities): the places they give are below the maximum, and the unique index
\* lets a place be taken once.
THEOREM SubEntitiesKeepTheirMaximum == Spec => []MaximumIsKept
<1>1. Inv => MaximumIsKept
  BY PlacesBound DEF MaximumIsKept
<1> QED BY <1>1, Invariance, PTL

\* An update that has read its entity writes the version after the one the entity has
\* at its commit: the entity is locked from the check of its version and the hooks on
\* it, so nobody has written or deleted it in between.
THEOREM UpdatesBuildOnReads == Spec => UpdatesBuildOnTheirRead
<1> DEFINE A(r) == request[r].pc = "row" /\ request'[r].answer = "ok"
                      /\ PlanOf(request[r].op).onRow = "increment" =>
                   /\ request[r].entity \in Existing
                   /\ rows'[request[r].entity].version
                         = rows[request[r].entity].version + 1
<1>1. ASSUME Inv, [Next]_vars, NEW r \in Requests PROVE A(r)
  <2> SUFFICES ASSUME request[r].pc = "row", request'[r].answer = "ok",
                      PlanOf(request[r].op).onRow = "increment"
               PROVE  /\ request[r].entity \in Existing
                      /\ rows'[request[r].entity].version
                            = rows[request[r].entity].version + 1
    OBVIOUS
  <2> DEFINE g == request[r]
             i == g.entity
  <2>1. /\ g \in RequestTypes /\ RequestOK(g) /\ Typed
        /\ request \in [Requests -> RequestTypes]
        /\ PlanFits(PlanOf(g.op), g.op.method)
    BY <1>1, RequestFacts DEF Inv
  <2>2. HoldsItsEntity(g, rows) /\ g.answer = "none"
    BY <2>1 DEF PlanFits, RequestOK, RequestFits
  <2>3. i \in Existing /\ rows[i].version = g.version
    BY <2>2 DEF HoldsItsEntity, Existing
  <2>4. WriteRow(r)
    <3>1. request' # request
      BY <2>2
    <3>2. PICK q \in Requests : Begin(q) \/ Step(q)
      BY <1>1, <3>1 DEF Next, vars
    <3>3. q = r
      <4>1. ASSUME q # r PROVE request'[r] = request[r]
        BY <2>1, <3>2, <4>1 DEF Begin, Step, SelectEntity, Missing, Selecting, LockEntity,
              LockSubEntity,
              WriteChildren, WriteRow, Commit, Deadlock, RolledBack, Ended
      <4> QED BY <2>2, <4>1
    <3>4. ~Deadlock(r)
      BY <2>1 DEF Deadlock, RolledBack, Ended, NoRequest
    <3> QED BY <3>2, <3>3, <3>4 DEF Begin, Step, SelectEntity, LockEntity, LockSubEntity,
              WriteChildren
  <2>5. ~RolledBack(r)
    BY <2>1 DEF RolledBack, Ended, NoRequest
  <2>6. rows' = [j \in Existing |-> IF j \in Written(r) THEN NewRow(r, j) ELSE rows[j]]
    BY <2>4, <2>5 DEF WriteRow, Commit
  <2>7. Written(r) = {i} /\ NewRow(r, i) = [rows[i] EXCEPT !.version = g.version + 1]
    BY DEF Written, NewRow
  <2>8. rows[i] \in RowTypes
    BY <2>1, <2>3 DEF Typed
  <2>9. rows'[i] = [rows[i] EXCEPT !.version = g.version + 1]
    BY <2>3, <2>6, <2>7
  <2> QED BY <2>3, <2>8, <2>9 DEF RowTypes
<1>2. Inv /\ [Next]_vars => [\A r \in Requests : A(r)]_vars
  BY <1>1
<1> QED BY <1>2, Invariance, PTL DEF Spec, UpdatesBuildOnTheirRead

\* Operations on an entity take no sub-entity away from another entity, not even when
\* they delete by serial numbers that they read before others wrote: only deletions of
\* entities, and updateEntity with sub-entities, may.
THEOREM OthersAreSpared == Spec => OthersKeepTheirSubEntities
<1> DEFINE A(r) == LET plan == PlanOf(request[r].op)
                   IN /\ request[r] # request'[r]
                      /\ plan.onChildren # "cascade"
                      /\ plan.onChildren = "reconcile" => ~request[r].op.withRelation
                      => \A c \in children \ children' : c.parent = request[r].entity
<1>1. ASSUME Inv, [Next]_vars, NEW r \in Requests PROVE A(r)
  <2> SUFFICES ASSUME request[r] # request'[r], KeepsToItsEntity(request[r].op),
                      NEW c \in children, c \notin children'
               PROVE  c.parent = request[r].entity
    BY DEF KeepsToItsEntity
  <2> DEFINE g == request[r]
  <2>1. /\ g \in RequestTypes /\ RequestOK(g)
        /\ request \in [Requests -> RequestTypes]
        /\ PlanFits(PlanOf(g.op), g.op.method)
    BY <1>1, RequestFacts DEF Inv
  <2>2. PICK q \in Requests : WriteRow(q) /\ ~RolledBack(q)
    BY <1>1 DEF Next, vars, Step, Begin, SelectEntity, LockEntity, LockSubEntity, WriteChildren,
           Deadlock, RolledBack, Tables
  <2>3. q = r
    BY <2>1, <2>2 DEF WriteRow, Commit, Ended
  <2>4. PlanOf(g.op).onRow # "delete"
    BY <2>1 DEF PlanFits, KeepsToItsEntity
  <2>5. children' = (children \ g.removed) \cup g.added
    BY <2>2, <2>3, <2>4 DEF WriteRow, Commit
  <2>6. c \in g.removed
    BY <2>5
  <2> QED BY <2>1, <2>6 DEF RequestOK, RequestFits
<1>2. Inv /\ [Next]_vars => [\A r \in Requests : A(r)]_vars
  BY <1>1
<1> QED BY <1>2, Invariance, PTL DEF Spec, OthersKeepTheirSubEntities
=============================================================================
