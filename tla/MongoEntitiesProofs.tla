------------------------ MODULE MongoEntitiesProofs ------------------------
(***************************************************************************)
(* Proofs about MongoEntities, for any requests, entities, values and      *)
(* filters.  No statement is part of a transaction, so nothing of what an  *)
(* operation has read is still true when it writes.  What remains true is  *)
(* that the version it has read is not ahead of the statements that wrote  *)
(* the entity, whose number only grows, and that an operation has not yet  *)
(* written anything when it may still end with an error of its own.        *)
(*                                                                         *)
(* Of the lists it says that no sub-entity of the one that is rewritten    *)
(* lacks an id, so that each names a place.                                *)
(* What the loops over filters and lists compute is proved by induction.   *)
(***************************************************************************)
EXTENDS MongoEntities, FiniteSetTheorems, SequenceTheorems, TLAPS

-----------------------------------------------------------------------------
(* Induction and recursion, stated for sets and functions, from the        *)
(* well-foundedness of < on the naturals: the library's theorems on them   *)
(* take operators, which the provers do not instantiate.                   *)

\* A set of naturals has a smallest element.
LEMMA Smallest == \A T \in SUBSET Nat : T # {} => \E n \in T : \A m \in T : n <= m
<1> SUFFICES ASSUME NEW T \in SUBSET Nat, T # {}
             PROVE  \E n \in T : \A m \in T : n <= m
  OBVIOUS
<1> DEFINE R == OpToRel(<, Nat)
<1>1. IsWellFoundedOn(R, Nat)
  BY NatLessThanWellFounded
<1>2. \A x, y \in Nat : <<x, y>> \in R <=> x < y
  BY DEF OpToRel
<1> HIDE DEF R
<1>3. PICK x \in T : \A y \in T : ~ (<<y, x>> \in R)
  BY <1>1, WFMin
<1>4. ASSUME NEW y \in T
      PROVE  x <= y
  <2>1. ~ (<<y, x>> \in R)
    BY <1>3
  <2>2. x \in Nat /\ y \in Nat
    OBVIOUS
  <2>3. <<y, x>> \in R <=> y < x
    BY <1>2, <2>2, Zenon
  <2>4. ~ (y < x)
    BY <2>1, <2>3, Zenon
  <2> QED BY <2>2, <2>4
<1> QED BY <1>4

\* Induction up to N: over the elements of a set, and for a function that takes
\* its values in one.
LEMMA AllOf == \A N \in Nat : \A T :
    0 \in T /\ (\A n \in 1 .. N : n - 1 \in T => n \in T) => 0 .. N \subseteq T
<1> SUFFICES ASSUME NEW N \in Nat, NEW T, 0 \in T, \A n \in 1 .. N : n - 1 \in T => n \in T,
                    NEW k \in 0 .. N, k \notin T
             PROVE  FALSE
  OBVIOUS
<1> DEFINE M == {n \in 0 .. N : n \notin T}
<1>1. PICK n \in M : \A m \in M : n <= m
  <2>1. M \in SUBSET Nat /\ M # {}
    OBVIOUS
  <2> HIDE DEF M
  <2> QED BY <2>1, Smallest
<1>2. n \in 1 .. N /\ n - 1 \in 0 .. N /\ n - 1 \in T
  BY <1>1
<1> QED BY <1>1, <1>2

LEMMA StaysIn == \A N \in Nat : \A S, g :
    g[0] \in S /\ (\A n \in 1 .. N : g[n - 1] \in S => g[n] \in S) => g[N] \in S
<1> SUFFICES ASSUME NEW N \in Nat, NEW S, NEW g, g[0] \in S,
                    \A n \in 1 .. N : g[n - 1] \in S => g[n] \in S
             PROVE  g[N] \in S
  OBVIOUS
<1> DEFINE T == {n \in 0 .. N : g[n] \in S}
<1>1. 0 \in T /\ \A n \in 1 .. N : n - 1 \in T => n \in T
  OBVIOUS
<1>2. N \in 0 .. N
  OBVIOUS
<1> HIDE DEF T
<1>3. N \in T
  BY <1>1, <1>2, AllOf
<1> QED BY <1>3 DEF T

\* Recursion up to N: the function that a step defines from its value before.
Computes(u, N, S, base, step) ==
    /\ u \in [0 .. N -> S] /\ u[0] = base
    /\ \A n \in 1 .. N : u[n] = step[<<n, u[n - 1]>>]

LEMMA Recursion ==
    ASSUME NEW N \in Nat, NEW S, NEW base \in S, NEW step, step \in [(1 .. N) \X S -> S]
    PROVE  \E u : Computes(u, N, S, base, step)
<1> DEFINE Fits(u, k) == /\ u \in [0 .. k -> S] /\ u[0] = base
                         /\ \A n \in 1 .. k : u[n] = step[<<n, u[n - 1]>>]
           T == {k \in 0 .. N : \E u : Fits(u, k)}
<1>1. 0 \in T
  <2>1. Fits([n \in 0 .. 0 |-> base], 0)
    OBVIOUS
  <2> HIDE DEF Fits
  <2> QED BY <2>1
<1>2. ASSUME NEW n \in 1 .. N, n - 1 \in T
      PROVE  n \in T
  <2>1. PICK u : Fits(u, n - 1)
    BY <1>2
  <2> DEFINE next == step[<<n, u[n - 1]>>]
             w == [m \in 0 .. n |-> IF m = n THEN next ELSE u[m]]
  <2>2. u \in [0 .. n - 1 -> S] /\ n - 1 \in 0 .. n - 1 /\ u[n - 1] \in S
    BY <2>1
  <2>3. next \in S
    BY <2>2
  <2> HIDE DEF next
  <2>4. w \in [0 .. n -> S] /\ w[0] = base
    BY <2>1, <2>2, <2>3
  <2>5. ASSUME NEW m \in 1 .. n
        PROVE  w[m] = step[<<m, w[m - 1]>>]
    <3>1. CASE m = n
      <4>1. w[n] = next /\ w[n - 1] = u[n - 1]
        OBVIOUS
      <4> QED BY <3>1, <4>1 DEF next
    <3>2. CASE m # n
      <4>1. m \in 1 .. n - 1 /\ w[m] = u[m] /\ w[m - 1] = u[m - 1]
        BY <3>2
      <4>2. u[m] = step[<<m, u[m - 1]>>]
        BY <2>1, <4>1
      <4> QED BY <4>1, <4>2
    <3> QED BY <3>1, <3>2
  <2> HIDE DEF w
  <2>6. Fits(w, n)
    BY <2>4, <2>5
  <2> QED BY <2>6
<1> HIDE DEF T
<1>3. N \in T
  <2>1. N \in 0 .. N
    OBVIOUS
  <2> QED BY <1>1, <1>2, <2>1, AllOf
<1>4. PICK u : Fits(u, N)
  BY <1>3 DEF T
<1> QED BY <1>4 DEF Computes

-----------------------------------------------------------------------------
(* The operations that are asked for.                                      *)

MethodNames ==
    {"createEntity", "addSubEntitiesToEntityById", "addSubEntitiesToEntityByFilters",
     "addEntityArrayFieldValues", "updateEntity", "updateEntityByFilters",
     "updateEntitiesByFilters", "updateEntityByField", "removeSubEntityByIdFromEntityById",
     "removeSubEntityByIdFromEntityByFilters", "removeSubEntitiesByJsonPathFromEntityById",
     "removeSubEntitiesByJsonPathFromEntityByFilters", "removeEntityArrayFieldValues",
     "deleteEntityById", "deleteEntityByFilters", "deleteEntityByField",
     "deleteEntitiesByField", "deleteEntitiesByFilters", "deleteAllEntities",
     "getEntityById", "getEntityByFilters", "getEntityByField", "getEntitiesByField",
     "getEntitiesByFilters", "getEntitiesByIds", "getAllEntities", "getEntityCount",
     "doesEntityArrayFieldContainValue"}

CallFields == {"method", "filters", "id", "name", "value", "part", "version", "hook", "post",
               "substitute"}

\* An operation has a method, and updateEntity is given an id.
CallOK(op) ==
    /\ DOMAIN op = CallFields
    /\ op.method \in MethodNames
    /\ op.id \in Ids /\ op.name \in Names /\ op.value \in NewValues
    /\ op.post \in BOOLEAN
    /\ op.method = "updateEntity" => op.filters = <<>>

CallsOK(C) == \A op \in C : CallOK(op)

\* Every operation can be asked for by id, and all but updateEntity by filters.
LEMMA CallsAreOK ==
    /\ \A k \in MethodNames : CallOK(Call(k))
    /\ \A M \in SUBSET MethodNames : CallsOK(ById(M))
    /\ \A M \in SUBSET (MethodNames \ {"updateEntity"}) : CallsOK(ByFilters(M))
<1>1. ASSUME NEW k \in MethodNames
      PROVE  CallOK(Call(k)) /\ Call(k).method = k
  <2> DEFINE i == CHOOSE i \in Ids : TRUE
             n == CHOOSE n \in Names : TRUE
             v == CHOOSE v \in NewValues : TRUE
  <2>1. i \in Ids /\ n \in Names /\ v \in NewValues
    BY BoundsAssumption, NamesAssumption
  <2>2. Call(k) = [method |-> k, filters |-> <<>>, id |-> i, name |-> n, value |-> v,
                   part |-> "field", version |-> 0, hook |-> FALSE, post |-> FALSE,
                   substitute |-> FALSE]
    BY DEF Call
  <2> HIDE DEF i, n, v
  <2> QED BY <2>1, <2>2 DEF CallOK, CallFields
<1>2. ASSUME NEW M \in SUBSET MethodNames, NEW op \in ById(M)
      PROVE  CallOK(op)
  <2>1. PICK k \in M, i \in Ids : op = [Call(k) EXCEPT !.id = i]
    BY DEF ById
  <2>2. CallOK(Call(k))
    BY <1>1
  <2> QED BY <2>1, <2>2 DEF CallOK, CallFields
<1>3. ASSUME NEW M \in SUBSET (MethodNames \ {"updateEntity"}), NEW op \in ByFilters(M)
      PROVE  CallOK(op)
  <2>1. PICK k \in M, f \in FilterLists : op = [Call(k) EXCEPT !.filters = f]
    BY DEF ByFilters
  <2>2. CallOK(Call(k)) /\ Call(k).method = k /\ k # "updateEntity"
    BY <1>1
  <2> QED BY <2>1, <2>2 DEF CallOK, CallFields
<1> QED BY <1>1, <1>2, <1>3 DEF CallsOK

\* Hooks, substitutes, parts, names and versions do not change that.
LEMMA HooksAreOK ==
    \A C : CallsOK(C) => CallsOK(WithHooks(C)) /\ CallsOK(WithSubstitutes(C))
<1>1. ASSUME NEW o, CallOK(o)
      PROVE  CallOK([o EXCEPT !.hook = TRUE]) /\ CallOK([o EXCEPT !.substitute = TRUE])
  BY <1>1 DEF CallOK, CallFields
<1>2. ASSUME NEW o, CallOK(o)
      PROVE  CallOK([o EXCEPT !.post = TRUE])
  BY <1>2 DEF CallOK, CallFields
<1> QED BY <1>1, <1>2 DEF CallsOK, WithHooks, WithSubstitutes

LEMMA PartsAreOK == \A parts, C : CallsOK(C) => CallsOK(On(parts, C))
  BY DEF CallsOK, CallOK, CallFields, On

LEMMA UnionsAreOK == \A C, D : CallsOK(C) /\ CallsOK(D) => CallsOK(C \cup D)
  BY DEF CallsOK

\* The operations of each kind.
LEMMA AdditionsAreOK == CallsOK(Additions)
<1> DEFINE A == ById({"addSubEntitiesToEntityById"})
           B == ByFilters({"addSubEntitiesToEntityByFilters"})
           C == ById({"addEntityArrayFieldValues"})
           D == On({"subs", "links", "nested"}, A \cup B)
           E == On({"tags"}, C)
<1>1. CallsOK(A) /\ CallsOK(B) /\ CallsOK(C)
  BY CallsAreOK DEF MethodNames
<1>2. Additions = WithSubstitutes(WithHooks(D)) \cup WithHooks(E)
  BY DEF Additions
<1> HIDE DEF A, B, C
<1>3. CallsOK(A \cup B)
  BY <1>1, UnionsAreOK
<1>4. CallsOK(D)
  BY <1>3, PartsAreOK
<1>5. CallsOK(E)
  BY <1>1, PartsAreOK
<1> HIDE DEF D, E
<1>6. CallsOK(WithHooks(D)) /\ CallsOK(WithHooks(E))
  BY <1>4, <1>5, HooksAreOK
<1>7. CallsOK(WithSubstitutes(WithHooks(D)))
  BY <1>6, HooksAreOK
<1> QED BY <1>2, <1>6, <1>7, UnionsAreOK

LEMMA UpdatesAreOK == CallsOK(Updates)
<1> DEFINE A == ById({"updateEntity"})
           B == ByFilters({"updateEntityByFilters"})
           C == ByFilters({"updateEntitiesByFilters"})
           D == ByFilters({"updateEntityByField"})
           E == On({"field", "tags", "subs", "noSubs"}, A)
           F == On({"field", "name"}, B)
           G == On({"field", "name"}, C)
           H == {[o EXCEPT !.version = v] : o \in WithHooks(E), v \in {-1, 0, 1}}
           J == {[o EXCEPT !.name = n] : o \in WithHooks(F) \cup G, n \in Names}
<1>1. CallsOK(A) /\ CallsOK(B) /\ CallsOK(C) /\ CallsOK(D)
  BY CallsAreOK DEF MethodNames
<1>2. Updates = (H \cup J) \cup WithHooks(D)
  BY DEF Updates
<1> HIDE DEF A, B, C, D
<1>3. CallsOK(E) /\ CallsOK(F) /\ CallsOK(G)
  BY <1>1, PartsAreOK
<1> HIDE DEF E, F, G
<1>4. CallsOK(WithHooks(E)) /\ CallsOK(WithHooks(F)) /\ CallsOK(WithHooks(D))
  BY <1>1, <1>3, HooksAreOK
<1>5. CallsOK(WithHooks(F) \cup G)
  BY <1>3, <1>4, UnionsAreOK
<1>6. CallsOK(H)
  BY <1>4 DEF CallsOK, CallOK, CallFields
<1>7. CallsOK(J)
  BY <1>5 DEF CallsOK, CallOK, CallFields
<1> HIDE DEF H, J
<1> QED BY <1>2, <1>4, <1>6, <1>7, UnionsAreOK

LEMMA RemovalsAreOK == CallsOK(Removals)
<1> DEFINE A == ById({"removeSubEntityByIdFromEntityById"})
           B == ByFilters({"removeSubEntityByIdFromEntityByFilters"})
           C == ById({"removeSubEntitiesByJsonPathFromEntityById"})
           D == ByFilters({"removeSubEntitiesByJsonPathFromEntityByFilters"})
           E == ById({"removeEntityArrayFieldValues"})
           F == On({"subs", "links", "nested"}, A \cup B)
           G == On({"subs"}, C \cup D)
           H == On({"tags"}, E)
<1>1. CallsOK(A) /\ CallsOK(B) /\ CallsOK(C) /\ CallsOK(D) /\ CallsOK(E)
  BY CallsAreOK DEF MethodNames
<1>2. Removals = WithHooks((F \cup G) \cup H)
  BY DEF Removals
<1> HIDE DEF A, B, C, D, E
<1>3. CallsOK(A \cup B) /\ CallsOK(C \cup D)
  BY <1>1, UnionsAreOK
<1>4. CallsOK(F)
  BY <1>3, PartsAreOK
<1>5. CallsOK(G)
  BY <1>3, PartsAreOK
<1>6. CallsOK(H)
  BY <1>1, PartsAreOK
<1> HIDE DEF F, G, H
<1>7. CallsOK((F \cup G) \cup H)
  BY <1>4, <1>5, <1>6, UnionsAreOK
<1> QED BY <1>2, <1>7, HooksAreOK

LEMMA DeletionsAreOK == CallsOK(Deletions)
<1> DEFINE A == ById({"deleteEntityById"})
           B == ByFilters({"deleteEntityByFilters", "deleteEntityByField"})
           C == ByFilters({"deleteEntitiesByFilters", "deleteEntitiesByField"})
           D == {Call("deleteAllEntities")}
<1>1. CallsOK(A) /\ CallsOK(B) /\ CallsOK(C)
  BY CallsAreOK DEF MethodNames
<1>2. CallsOK(D)
  BY CallsAreOK DEF MethodNames, CallsOK
<1>3. Deletions = (WithHooks(A \cup B) \cup C) \cup D
  BY DEF Deletions
<1> HIDE DEF A, B, C, D
<1>4. CallsOK(A \cup B)
  BY <1>1, UnionsAreOK
<1>5. CallsOK(WithHooks(A \cup B))
  BY <1>4, HooksAreOK
<1>6. CallsOK(WithHooks(A \cup B) \cup C)
  BY <1>1, <1>5, UnionsAreOK
<1> QED BY <1>2, <1>3, <1>6, UnionsAreOK

LEMMA QueriesAreOK == CallsOK(Queries)
<1> DEFINE A == ById({"getEntityById"})
           B == ByFilters({"getEntityByFilters", "getEntityByField"})
           C == ByFilters({"getEntitiesByFilters"})
           D == ByFilters({"getEntitiesByField", "getEntityCount"})
           E == ById({"getEntitiesByIds", "doesEntityArrayFieldContainValue"})
           F == {Call("getAllEntities")}
<1>1. CallsOK(A) /\ CallsOK(B) /\ CallsOK(C) /\ CallsOK(D) /\ CallsOK(E)
  BY CallsAreOK DEF MethodNames
<1>2. CallsOK(F)
  BY CallsAreOK DEF MethodNames, CallsOK
<1>3. Queries = WithSubstitutes(WithHooks(A \cup B)) \cup (WithHooks(C) \cup (D \cup (E \cup F)))
  BY DEF Queries
<1> HIDE DEF A, B, C, D, E, F
<1>4. CallsOK(A \cup B) /\ CallsOK(E \cup F)
  BY <1>1, <1>2, UnionsAreOK
<1>5. CallsOK(WithHooks(A \cup B)) /\ CallsOK(WithHooks(C))
  BY <1>1, <1>4, HooksAreOK
<1>6. CallsOK(WithSubstitutes(WithHooks(A \cup B)))
  BY <1>5, HooksAreOK
<1>7. CallsOK(D \cup (E \cup F))
  BY <1>1, <1>4, UnionsAreOK
<1>8. CallsOK(WithHooks(C) \cup (D \cup (E \cup F)))
  BY <1>5, <1>7, UnionsAreOK
<1> QED BY <1>3, <1>6, <1>8, UnionsAreOK

\* Every operation that is asked for is one.
LEMMA AllCallsAreOK == CallsOK(AllCalls)
<1> DEFINE A == {[Call("createEntity") EXCEPT !.name = n] : n \in Names}
<1>1. CallsOK(A)
  <2>1. CallOK(Call("createEntity"))
    BY CallsAreOK DEF MethodNames
  <2> QED BY <2>1 DEF CallsOK, CallOK, CallFields
<1>2. AllCalls = WithHooks(A) \cup (Additions \cup (Updates \cup (Removals
                                     \cup (Deletions \cup Queries))))
  BY DEF AllCalls
<1> HIDE DEF A
<1>3. CallsOK(WithHooks(A))
  BY <1>1, HooksAreOK
<1>4. CallsOK(Removals \cup (Deletions \cup Queries))
  BY RemovalsAreOK, DeletionsAreOK, QueriesAreOK, UnionsAreOK
<1>5. CallsOK(Additions \cup (Updates \cup (Removals \cup (Deletions \cup Queries))))
  BY <1>4, AdditionsAreOK, UpdatesAreOK, UnionsAreOK
<1> QED BY <1>2, <1>3, <1>5, UnionsAreOK

\* What the properties tell apart in the plans.
PlanFits(plan, m) ==
    /\ plan.statement = "insert" => m = "createEntity" /\ ~plan.reads
    /\ plan.statement = "rewrite" => plan.reads
    /\ plan.statement = "set" => m = "updateEntity" /\ plan.missing = "error"
    /\ plan.missing \in {"substitute", "goOn", "ok", "error"}

LEMMA PlanFacts ==
    ASSUME NEW op, CallOK(op)
    PROVE  PlanFits(PlanOf(op), op.method)
<1> USE DEF CallOK, PlanOf, PlanFits, Plan, SubstituteOr
<1>1. CASE op.method \in {"createEntity", "addSubEntitiesToEntityById",
                          "addSubEntitiesToEntityByFilters", "addEntityArrayFieldValues"}
  BY <1>1 DEF createEntity, addSubEntitiesToEntityById, addSubEntitiesToEntityByFilters,
      addEntityArrayFieldValues, addSimpleSubEntitiesOrValuesByEntityId,
      addSimpleSubEntitiesOrValuesByFilters
<1>2. CASE op.method \in {"updateEntity", "updateEntityByFilters",
                          "updateEntitiesByFilters", "updateEntityByField"}
  BY <1>2 DEF updateEntity, updateEntityByFilters, updateEntitiesByFilters,
      updateEntityByField
<1>3. CASE op.method \in {"removeSubEntityByIdFromEntityById",
         "removeSubEntityByIdFromEntityByFilters", "removeSubEntitiesByJsonPathFromEntityById",
         "removeSubEntitiesByJsonPathFromEntityByFilters", "removeEntityArrayFieldValues"}
  BY <1>3 DEF removeSubEntityByIdFromEntityById, removeSubEntityByIdFromEntityByFilters,
      removeSubEntitiesByJsonPathFromEntityById, removeSubEntitiesByJsonPathFromEntityByFilters,
      removeEntityArrayFieldValues, removeSimpleSubEntityById,
      removeSimpleSubEntityByIdFromEntityByFilters, removeFieldValues
<1>4. CASE op.method \in {"deleteEntityById", "deleteEntityByFilters", "deleteEntityByField",
         "deleteEntitiesByField", "deleteEntitiesByFilters", "deleteAllEntities"}
  BY <1>4 DEF deleteEntityById, deleteEntityByFilters, deleteEntityByField,
      deleteEntitiesByField, deleteEntitiesByFilters, deleteAllEntities
<1>5. CASE op.method \in {"getEntityById", "getEntityByFilters", "getEntityByField",
         "getEntitiesByField", "getEntitiesByFilters", "getEntitiesByIds", "getAllEntities",
         "getEntityCount", "doesEntityArrayFieldContainValue"}
  BY <1>5 DEF getEntityById, getEntityByFilters, getEntityByField, getEntitiesByField,
      getEntitiesByFilters, getEntitiesByIds, getAllEntities, getEntityCount,
      doesEntityArrayFieldContainValue
<1>6. \/ op.method \in {"createEntity", "addSubEntitiesToEntityById",
                        "addSubEntitiesToEntityByFilters", "addEntityArrayFieldValues"}
      \/ op.method \in {"updateEntity", "updateEntityByFilters",
                        "updateEntitiesByFilters", "updateEntityByField"}
      \/ op.method \in {"removeSubEntityByIdFromEntityById",
         "removeSubEntityByIdFromEntityByFilters", "removeSubEntitiesByJsonPathFromEntityById",
         "removeSubEntitiesByJsonPathFromEntityByFilters", "removeEntityArrayFieldValues"}
      \/ op.method \in {"deleteEntityById", "deleteEntityByFilters", "deleteEntityByField",
         "deleteEntitiesByField", "deleteEntitiesByFilters", "deleteAllEntities"}
      \/ op.method \in {"getEntityById", "getEntityByFilters", "getEntityByField",
         "getEntitiesByField", "getEntitiesByFilters", "getEntitiesByIds", "getAllEntities",
         "getEntityCount", "doesEntityArrayFieldContainValue"}
  BY DEF MethodNames
<1> HIDE DEF CallOK, PlanOf, PlanFits, Plan, SubstituteOr
<1> QED BY <1>1, <1>2, <1>3, <1>4, <1>5, <1>6

-----------------------------------------------------------------------------
(* Filters.                                                                *)

\* What a match expression may be.
Entries == (SUBSET Names) \cup (SUBSET Values) \cup (SUBSET Conditions)
Keys == {"name", "field", "$where", "or"}
Expressions == UNION {[F -> Entries] : F \in SUBSET Keys}

LEMMA ConditionType ==
    ASSUME NEW c \in Conditions
    PROVE  /\ c.field \in {"name", "field"} /\ Key(c) \in Keys \ {"or"}
           /\ Accepted(c) \in Entries
<1>1. CASE c.function = "none"
  <2>1. c \in Plain("name", Names) \cup Plain("field", Values)
    BY <1>1, FunctionsAssumption DEF Conditions
  <2> QED BY <1>1, <2>1 DEF Plain, Key, Keys, Accepted, Entries
<1>2. CASE c.function # "none"
  <2>1. c.field = "field"
    BY <1>2 DEF Conditions, Plain
  <2>2. Accepted(c) \in SUBSET Values
    BY <1>2 DEF Accepted
  <2> QED BY <2>1, <2>2 DEF Key, Keys, Entries
<1> QED BY <1>1, <1>2

LEMMA WithConditionType ==
    \A e \in Expressions : \A c \in Conditions \cup Disjunctions :
        WithCondition(e, c) \in Expressions
<1> SUFFICES ASSUME NEW e \in Expressions, NEW c \in Conditions \cup Disjunctions
             PROVE  WithCondition(e, c) \in Expressions
  OBVIOUS
<1>1. PICK F \in SUBSET Keys : e \in [F -> Entries]
  BY DEF Expressions
<1>2. CASE c \in Disjunctions
  <2>1. c.field = "or" /\ c.value \in Entries
    BY <1>2 DEF Disjunctions, Entries
  <2>2. WithCondition(e, c) = [f \in {"or"} |-> c.value]
    BY <2>1 DEF WithCondition
  <2>3. WithCondition(e, c) \in [{"or"} -> Entries] /\ {"or"} \in SUBSET Keys
    BY <2>1, <2>2 DEF Keys
  <2> QED BY <2>3 DEF Expressions
<1>3. CASE c \in Conditions
  <2>1. c.field # "or" /\ Key(c) \in Keys /\ Accepted(c) \in Entries
    BY <1>3, ConditionType
  <2>2. WithCondition(e, c) =
            [f \in F \cup {Key(c)} |-> IF f = Key(c) THEN Accepted(c) ELSE e[f]]
    BY <1>1, <2>1 DEF WithCondition, Assign
  <2>3. WithCondition(e, c) \in [F \cup {Key(c)} -> Entries]
    BY <1>1, <2>1, <2>2
  <2> QED BY <2>1, <2>3 DEF Expressions
<1> QED BY <1>2, <1>3

\* What a condition asks for is accepted, unless it is misconverted.
LEMMA AskedIsAccepted ==
    ASSUME NEW c \in Conditions, c.function = "none"
                                 \/ (~c.in /\ Evaluated[c.function] = ResultOf[c.function])
    PROVE  Accepted(c) = Asked(c)
<1>1. c.in \in BOOLEAN
  BY DEF Conditions, Plain
<1>2. CASE c.function = "none"
  BY <1>2 DEF Accepted, Asked
<1>3. CASE c.function # "none"
  <2>1. ~c.in /\ Evaluated[c.function] = ResultOf[c.function]
    BY <1>3
  <2>2. Accepted(c) = {v \in Values : Evaluated[c.function][v] \in c.value}
    BY <1>3, <2>1 DEF Accepted
  <2> QED BY <1>3, <2>1, <2>2 DEF Asked
<1> QED BY <1>2, <1>3

\* A condition replaces one on its field, an OR replaces all.
LEMMA WithConditionMatches ==
    ASSUME NEW doc, NEW e \in Expressions, Matches(doc, e),
           NEW c \in Conditions \cup Disjunctions, Satisfies(doc, c), ~Misconverted(c)
    PROVE  Matches(doc, WithCondition(e, c))
<1> DEFINE new == WithCondition(e, c)
<1> SUFFICES ASSUME NEW f \in DOMAIN new
             PROVE  Accepts(doc, f, new[f])
  BY DEF Matches
<1>1. CASE c \in Disjunctions
  <2>1. c.field = "or" /\ c.value \subseteq Conditions
    BY <1>1 DEF Disjunctions
  <2>2. new = [or |-> c.value]
    BY <2>1 DEF WithCondition
  <2>3. f = "or" /\ new[f] = c.value
    BY <2>2
  <2> HIDE DEF new
  <2>4. PICK a \in c.value : doc[a.field] \in Asked(a)
    BY <2>1 DEF Satisfies
  <2>5. a.function = "none" \/ (~a.in /\ Evaluated[a.function] = ResultOf[a.function])
    BY <2>1, <2>4 DEF Misconverted
  <2>6. doc[a.field] \in Accepted(a)
    BY <2>1, <2>4, <2>5, AskedIsAccepted
  <2> QED BY <2>3, <2>4, <2>6 DEF Accepts
<1>2. CASE c \in Conditions
  <2>1. c.field \in {"name", "field"} /\ Key(c) \in Keys \ {"or"}
    BY <1>2, ConditionType
  <2>2. new = [g \in DOMAIN e \cup {Key(c)} |-> IF g = Key(c) THEN Accepted(c) ELSE e[g]]
    BY <2>1 DEF WithCondition, Assign
  <2> HIDE DEF new
  <2>3. CASE f = Key(c)
    <3>1. new[f] = Accepted(c) /\ f # "or"
      BY <2>1, <2>2, <2>3
    <3>2. c.function = "none" \/ (~c.in /\ Evaluated[c.function] = ResultOf[c.function])
      BY <2>1 DEF Misconverted
    <3>3. doc[c.field] \in Accepted(c)
      BY <1>2, <2>1, <3>2, AskedIsAccepted DEF Satisfies
    <3>4. CASE c.function = "none"
      <4>1. f = c.field /\ f # "$where"
        BY <2>1, <2>3, <3>4 DEF Key
      <4> QED BY <3>1, <3>3, <4>1 DEF Accepts
    <3>5. CASE c.function # "none"
      <4>1. f = "$where" /\ c.field = "field"
        BY <1>2, <2>3, <3>2, <3>5 DEF Key, Conditions, Plain
      <4> QED BY <3>1, <3>3, <4>1 DEF Accepts
    <3> QED BY <3>4, <3>5
  <2>4. CASE f # Key(c)
    <3>1. f \in DOMAIN e /\ new[f] = e[f]
      BY <2>2, <2>4
    <3> QED BY <3>1 DEF Matches
  <2> QED BY <2>3, <2>4
<1> QED BY <1>1, <1>2

\* An entity that satisfies all filters matches the expression of them all.
LEMMA MatchExpressionMatches ==
    ASSUME NEW doc, NEW filters \in Seq(Conditions \cup Disjunctions),
           \A k \in DOMAIN filters :
               ~Misconverted(filters[k]) /\ Satisfies(doc, filters[k])
    PROVE  Matches(doc, MatchExpression(filters))
<1> DEFINE N == Len(filters)
           C == Conditions \cup Disjunctions
           G(u) == [n \in 0 .. N |-> IF n = 0 THEN <<>> ELSE WithCondition(u[n - 1], filters[n])]
           g == CHOOSE u : u = G(u)
           step == [p \in (1 .. N) \X Expressions |-> WithCondition(p[2], filters[p[1]])]
<1>1. N \in Nat /\ (\A n \in 1 .. N : filters[n] \in C /\ n \in DOMAIN filters)
  BY LenProperties
<1>2. MatchExpression(filters) = g[N]
  BY Zenon DEF MatchExpression
<1> HIDE DEF N, C
<1>3. <<>> \in Expressions
  <2>1. <<>> \in [{} -> Entries]
    OBVIOUS
  <2> QED BY <2>1 DEF Expressions
<1>4. \A n \in 1 .. N : \A e \in Expressions :
          /\ WithCondition(e, filters[n]) \in Expressions
          /\ step[<<n, e>>] = WithCondition(e, filters[n])
  BY <1>1, WithConditionType DEF C
<1>5. step \in [(1 .. N) \X Expressions -> Expressions]
  BY <1>1, WithConditionType DEF C
<1> HIDE DEF step
<1>6. \E u : u = G(u)
  <2>0. PICK u : Computes(u, N, Expressions, <<>>, step)
    BY <1>1, <1>3, <1>5, Recursion
  <2>1. /\ u \in [0 .. N -> Expressions] /\ u[0] = <<>>
        /\ \A n \in 1 .. N : u[n] = step[<<n, u[n - 1]>>]
    BY <2>0 DEF Computes
  <2>2. ASSUME NEW n \in 0 .. N
        PROVE  u[n] = G(u)[n]
    <3>1. CASE n = 0
      BY <2>1, <3>1
    <3>2. CASE n # 0
      <4>1. n \in 1 .. N /\ n - 1 \in 0 .. N
        BY <1>1, <3>2
      <4>2. u[n] = WithCondition(u[n - 1], filters[n])
        BY <1>4, <2>1, <4>1
      <4> QED BY <3>2, <4>2
    <3> QED BY <3>1, <3>2
  <2>3. u = G(u)
    BY <2>1, <2>2
  <2> QED BY <2>3
<1>7. g = G(g)
  BY <1>6, Zenon
<1> HIDE DEF g
<1> DEFINE S == {e \in Expressions : Matches(doc, e)}
<1>8. g[0] = <<>> /\ \A n \in 1 .. N : g[n] = WithCondition(g[n - 1], filters[n])
  <2>1. g[0] = <<>>
    BY <1>1, <1>7
  <2>2. ASSUME NEW n \in 1 .. N
        PROVE  g[n] = WithCondition(g[n - 1], filters[n])
    <3>1. g[n] = G(g)[n] /\ n \in 0 .. N /\ n # 0
      BY <1>1, <1>7
    <3> QED BY <3>1
  <2> QED BY <2>1, <2>2
<1>9. g[0] \in S
  BY <1>3, <1>8 DEF Matches
<1>10. ASSUME NEW n \in 1 .. N, g[n - 1] \in S
       PROVE  g[n] \in S
  <2>1. /\ g[n - 1] \in Expressions /\ Matches(doc, g[n - 1])
        /\ filters[n] \in Conditions \cup Disjunctions
        /\ ~Misconverted(filters[n]) /\ Satisfies(doc, filters[n])
    BY <1>1, <1>10 DEF C
  <2>2. Matches(doc, WithCondition(g[n - 1], filters[n]))
    BY <2>1, WithConditionMatches
  <2> QED BY <1>4, <1>8, <2>1, <2>2
<1> HIDE DEF S
<1>11. g[N] \in S
  BY <1>1, <1>9, <1>10, StaysIn
<1> QED BY <1>2, <1>11 DEF S

-----------------------------------------------------------------------------
(* Lists.                                                                  *)

\* Every sub-entity of the old list is at its place in the new one.
KeepsIds(old, new) ==
    Len(old) <= Len(new) /\ \A k \in 1 .. Len(old) : new[k].id = old[k].id

LEMMA SetAtKeeps ==
    ASSUME NEW subs \in Seq(SubEntities), NEW sub \in SubEntities, sub.id \notin {NoId, Null}
    PROVE  SetAt(subs, sub) \in Seq(SubEntities) /\ KeepsIds(subs, SetAt(subs, sub))
<1> DEFINE index == sub.id + 1
           N == index - Len(subs)
           padding == [k \in 1 .. N |-> [id |-> IF k = N THEN NoId ELSE Null,
                                         content |-> sub.content]]
<1>1. index \in Nat /\ index >= 1 /\ sub.content \in Values /\ Len(subs) \in Nat
  BY DEF SubEntities
<1>2. CASE index <= Len(subs)
  <2> DEFINE new == [subs[index] EXCEPT !.content = sub.content]
  <2>1. SetAt(subs, sub) = [subs EXCEPT ![index] = new]
    BY <1>2 DEF SetAt
  <2>2. index \in 1 .. Len(subs) /\ subs[index] \in SubEntities
    BY <1>1, <1>2, ElementOfSeq
  <2>3. new \in SubEntities /\ new.id = subs[index].id
    BY <1>1, <2>2 DEF SubEntities
  <2> HIDE DEF new, index
  <2>4. /\ [subs EXCEPT ![index] = new] \in Seq(SubEntities)
        /\ Len([subs EXCEPT ![index] = new]) = Len(subs)
        /\ \A j \in 1 .. Len(subs) :
               [subs EXCEPT ![index] = new][j] = IF j = index THEN new ELSE subs[j]
    BY <2>2, <2>3, ExceptSeq
  <2> QED BY <1>1, <2>1, <2>3, <2>4 DEF KeepsIds
<1>3. CASE ~ (index <= Len(subs))
  <2>1. SetAt(subs, sub) = subs \o padding
    BY <1>3 DEF SetAt
  <2>2. N \in Nat
    BY <1>1, <1>3
  <2>3. padding \in Seq(SubEntities)
    <3>1. \A k \in 1 .. N : padding[k] \in SubEntities
      BY <1>1 DEF SubEntities
    <3> HIDE DEF N
    <3>2. padding \in [1 .. N -> SubEntities]
      BY <3>1
    <3> HIDE DEF padding
    <3> QED BY <2>2, <3>2
  <2> HIDE DEF padding
  <2>4. /\ subs \o padding \in Seq(SubEntities)
        /\ Len(subs \o padding) = Len(subs) + Len(padding) /\ Len(padding) \in Nat
        /\ \A j \in 1 .. Len(subs) : (subs \o padding)[j] = subs[j]
    BY <1>1, <2>3, ConcatProperties
  <2> QED BY <1>1, <2>1, <2>4 DEF KeepsIds
<1> QED BY <1>2, <1>3

LEMMA KeepsIdsIsTransitive ==
    ASSUME NEW a \in Seq(SubEntities), NEW b \in Seq(SubEntities), NEW c \in Seq(SubEntities),
           KeepsIds(a, b), KeepsIds(b, c)
    PROVE  KeepsIds(a, c)
<1>1. Len(a) \in Nat /\ Len(b) \in Nat /\ Len(c) \in Nat
  BY LenProperties
<1> QED BY <1>1 DEF KeepsIds

\* Unless it gives none, an update keeps the sub-entities there are.
LEMMA SetSubsKeeps ==
    ASSUME NEW subs \in Seq(SubEntities), NEW given \in Seq(SubEntities), ~ CannotSet(given)
    PROVE  /\ SetSubs(subs, given) \in Seq(SubEntities)
           /\ SetSubs(subs, given) = <<>> \/ KeepsIds(subs, SetSubs(subs, given))
<1> DEFINE L == Seq(SubEntities)
           N == Len(given)
           G(u) == [n \in 0 .. N |-> IF n = 0 THEN subs ELSE SetAt(u[n - 1], given[n])]
           g == CHOOSE u : u = G(u)
           step == [p \in (1 .. N) \X L |-> SetAt(p[2], given[p[1]])]
<1>1. N \in Nat /\ DOMAIN given = 1 .. N /\ \A n \in 1 .. N : given[n] \in SubEntities
  BY LenProperties
<1>2. CASE given = <<>>
  BY <1>2 DEF SetSubs
<1>3. CASE given # <<>>
  <2>1. SetSubs(subs, given) = g[N]
    BY <1>3, Zenon DEF SetSubs
  <2>2. \A n \in 1 .. N : given[n].id \notin {NoId, Null}
    BY <1>1 DEF CannotSet
  <2> HIDE DEF N, L
  <2>3. \A n \in 1 .. N : \A l \in L :
            /\ SetAt(l, given[n]) \in L /\ KeepsIds(l, SetAt(l, given[n]))
            /\ step[<<n, l>>] = SetAt(l, given[n])
    BY <1>1, <2>2, SetAtKeeps DEF L
  <2>4. step \in [(1 .. N) \X L -> L] /\ subs \in L
    BY <1>1, <2>2, SetAtKeeps DEF L
  <2> HIDE DEF step
  <2>5. \E u : u = G(u)
    <3>1. PICK u : Computes(u, N, L, subs, step)
      BY <1>1, <2>4, Recursion
    <3>2. /\ u \in [0 .. N -> L] /\ u[0] = subs
          /\ \A n \in 1 .. N : u[n] = step[<<n, u[n - 1]>>]
      BY <3>1 DEF Computes
    <3>3. ASSUME NEW n \in 0 .. N
          PROVE  u[n] = G(u)[n]
      <4>1. CASE n = 0
        BY <3>2, <4>1
      <4>2. CASE n # 0
        <5>1. n \in 1 .. N /\ n - 1 \in 0 .. N
          BY <1>1, <4>2
        <5>2. u[n] = SetAt(u[n - 1], given[n])
          BY <2>3, <3>2, <5>1
        <5> QED BY <4>2, <5>2
      <4> QED BY <4>1, <4>2
    <3>4. u = G(u)
      BY <3>2, <3>3
    <3> QED BY <3>4
  <2>6. g = G(g)
    BY <2>5, Zenon
  <2> HIDE DEF g
  <2> DEFINE S == {l \in L : KeepsIds(subs, l)}
  <2>7. g[0] = subs /\ \A n \in 1 .. N : g[n] = SetAt(g[n - 1], given[n])
    <3>1. g[0] = subs
      BY <1>1, <2>6
    <3>2. ASSUME NEW n \in 1 .. N
          PROVE  g[n] = SetAt(g[n - 1], given[n])
      <4>1. g[n] = G(g)[n] /\ n \in 0 .. N /\ n # 0
        BY <1>1, <2>6
      <4> QED BY <4>1
    <3> QED BY <3>1, <3>2
  <2>8. g[0] \in S
    <3>1. Len(subs) \in Nat
      BY LenProperties
    <3> QED BY <2>4, <2>7, <3>1 DEF KeepsIds
  <2>9. ASSUME NEW n \in 1 .. N, g[n - 1] \in S
        PROVE  g[n] \in S
    <3>1. g[n] \in L /\ KeepsIds(g[n - 1], g[n])
      BY <2>3, <2>7, <2>9
    <3> QED BY <2>9, <3>1, KeepsIdsIsTransitive DEF L
  <2> HIDE DEF S
  <2>10. g[N] \in S
    BY <1>1, <2>8, <2>9, StaysIn
  <2> QED BY <2>1, <2>10 DEF S, L
<1> QED BY <1>2, <1>3

LEMMA WithoutType ==
    ASSUME NEW S, NEW list \in Seq(S), NEW removed
    PROVE  Without(list, removed) \in Seq(S)
<1> DEFINE L == Seq(S)
           N == Len(list)
           next(l, n) == IF list[n] \in removed THEN l ELSE Append(l, list[n])
           G(u) == [n \in 0 .. N |->
                       CASE n = 0 -> <<>>
                         [] n > 0 /\ list[n] \in removed -> u[n - 1]
                         [] OTHER -> Append(u[n - 1], list[n])]
           g == CHOOSE u : u = G(u)
           step == [p \in (1 .. N) \X L |-> next(p[2], p[1])]
<1>1. N \in Nat /\ \A n \in 1 .. N : list[n] \in S
  BY LenProperties
<1>2. Without(list, removed) = g[N]
  BY Zenon DEF Without
<1> HIDE DEF N
<1>3. \A n \in 1 .. N : \A l \in L : next(l, n) \in L
  BY <1>1, AppendProperties
<1> HIDE DEF L
<1>4. ASSUME NEW u, NEW n \in 1 .. N
      PROVE  G(u)[n] = next(u[n - 1], n)
  <2>1. n \in 0 .. N /\ n # 0 /\ n > 0
    BY <1>1
  <2> QED BY <2>1
<1>5. ASSUME NEW u
      PROVE  G(u)[0] = <<>>
  BY <1>1
<1> HIDE DEF next
<1>6. step \in [(1 .. N) \X L -> L] /\ <<>> \in L
      /\ \A n \in 1 .. N : \A l \in L : step[<<n, l>>] = next(l, n)
  BY <1>3 DEF L
<1> HIDE DEF step
<1>7. \E u : u = G(u)
  <2>1. PICK u : Computes(u, N, L, <<>>, step)
    BY <1>1, <1>6, Recursion
  <2>2. /\ u \in [0 .. N -> L] /\ u[0] = <<>>
        /\ \A n \in 1 .. N : u[n] = step[<<n, u[n - 1]>>]
    BY <2>1 DEF Computes
  <2>3. ASSUME NEW n \in 0 .. N
        PROVE  u[n] = G(u)[n]
    <3>1. CASE n = 0
      BY <1>5, <2>2, <3>1
    <3>2. CASE n # 0
      <4>1. n \in 1 .. N /\ n - 1 \in 0 .. N
        BY <1>1, <3>2
      <4>2. u[n] = next(u[n - 1], n)
        BY <1>6, <2>2, <4>1
      <4> QED BY <1>4, <4>1, <4>2
    <3> QED BY <3>1, <3>2
  <2>4. u = G(u)
    BY <2>2, <2>3
  <2> QED BY <2>4
<1>8. g = G(g)
  BY <1>7, Zenon
<1> HIDE DEF g, G
<1>9. g[0] = <<>> /\ \A n \in 1 .. N : g[n] = next(g[n - 1], n)
  BY <1>4, <1>5, <1>8
<1>10. g[0] \in L /\ \A n \in 1 .. N : g[n - 1] \in L => g[n] \in L
  BY <1>3, <1>6, <1>9
<1>11. g[N] \in L
  BY <1>1, <1>10, StaysIn
<1> QED BY <1>2, <1>11 DEF L

-----------------------------------------------------------------------------
(* Documents.                                                              *)

\* A field of a document can be given any value of its type.
LEMMA ChangedDocuments ==
    ASSUME NEW d \in Documents
    PROVE  /\ \A v \in {NaN} \cup Nat :
                 [d EXCEPT !.version = v] \in Documents /\ [d EXCEPT !.version = v].version = v
           /\ \A n \in Names : [d EXCEPT !.name = n] \in Documents
           /\ \A v \in Values : [d EXCEPT !.field = v] \in Documents
           /\ \A l \in Seq(Values) : [d EXCEPT !.tags = l] \in Documents
           /\ \A l \in Seq(SubEntities) : [d EXCEPT !.subs = l] \in Documents
           /\ \A I \in SUBSET (0 .. 2 * MaxNested) : [d EXCEPT !.nested = I] \in Documents
           /\ \A I \in SUBSET Ids : [d EXCEPT !.links = I] \in Documents
  BY DEF Documents

LEMMA NewDocumentType ==
    ASSUME NEW n \in Names
    PROVE  NewDocument(n) \in Documents /\ NewDocument(n).version = 1
<1> DEFINE v == CHOOSE v \in Values : TRUE
           s == <<[id |-> 0, content |-> v], [id |-> 1, content |-> v]>>
<1>1. v \in Values
  BY BoundsAssumption
<1>2. NewDocument(n) = [version |-> 1, name |-> n, field |-> v, tags |-> <<>>, subs |-> s,
                        nested |-> {0}, links |-> {}]
  BY DEF NewDocument
<1> HIDE DEF v
<1>3. s \in Seq(SubEntities)
  BY <1>1 DEF SubEntities
<1>4. <<>> \in Seq(Values) /\ 0 \in 0 .. 2 * MaxNested
  BY BoundsAssumption
<1> HIDE DEF s
<1> QED BY <1>1, <1>2, <1>3, <1>4 DEF Documents

\* What Max chooses is there.
LEMMA Greatest ==
    ASSUME NEW n \in Nat, NEW S \in SUBSET (-1 .. n), S # {}
    PROVE  Max(S) \in S /\ \A x \in S : x <= Max(S)
<1> DEFINE T == {n - x : x \in S}
<1>1. T \in SUBSET Nat /\ T # {}
  OBVIOUS
<1> HIDE DEF T
<1>2. PICK t \in T : \A u \in T : t <= u
  BY <1>1, Smallest
<1>3. PICK x \in S : t = n - x
  BY <1>2 DEF T
<1>4. \A y \in S : x >= y
  BY <1>2, <1>3 DEF T
<1> QED BY <1>3, <1>4 DEF Max

\* Nested ids stay in bounds, since an addition that would exceed them is an
\* error before.
LEMMA RewrittenType ==
    ASSUME NEW op, NEW d \in Documents, ~ TooMany(op, d)
    PROVE  Rewritten(op, d) \in Documents
<1>1. CASE IsAddition(op)
  <2> DEFINE last == Max(d.nested \cup {-1})
             count == Cardinality(d.nested)
  <2>1. d.nested \in SUBSET (0 .. 2 * MaxNested) /\ MaxNested \in Nat
    BY BoundsAssumption DEF Documents
  <2>2. last \in -1 .. 2 * MaxNested
    <3>1. 2 * MaxNested \in Nat /\ d.nested \cup {-1} \in SUBSET (-1 .. 2 * MaxNested)
      BY <2>1
    <3> QED BY <3>1, Greatest
  <2>3. count \in Nat
    <3>1. IsFiniteSet(0 .. 2 * MaxNested)
      BY <2>1, FS_Interval
    <3> QED BY <2>1, <3>1, FS_Subset, FS_CardinalityType
  <2>4. last + count < MaxNested
    BY <1>1, <2>1, <2>2, <2>3 DEF TooMany
  <2>5. NestedAfterAddition(d.nested) = d.nested \cup {last + k : k \in 1 .. count}
    BY DEF NestedAfterAddition
  <2>6. Rewritten(op, d) = [d EXCEPT !.nested = NestedAfterAddition(d.nested)]
    BY <1>1 DEF Rewritten
  <2> HIDE DEF last, count
  <2>7. NestedAfterAddition(d.nested) \in SUBSET (0 .. 2 * MaxNested)
    BY <2>1, <2>2, <2>3, <2>4, <2>5
  <2> QED BY <2>6, <2>7, ChangedDocuments
<1>2. CASE ~ IsAddition(op) /\ op.part = "nested"
  <2>1. \E I \in SUBSET (0 .. 2 * MaxNested) : Rewritten(op, d) = [d EXCEPT !.nested = I]
    BY <1>2 DEF Rewritten, Documents
  <2> QED BY <2>1, ChangedDocuments
<1>3. CASE ~ IsAddition(op) /\ op.part # "nested"
  <2>1. Rewritten(op, d) = [d EXCEPT !.subs = Without(d.subs, WithIdZero)]
    BY <1>3 DEF Rewritten
  <2>2. d.subs \in Seq(SubEntities)
    BY DEF Documents
  <2> QED BY <2>1, <2>2, WithoutType, ChangedDocuments
<1> QED BY <1>1, <1>2, <1>3

LEMMA AppendTypes ==
    ASSUME NEW d \in Documents, NEW v \in Values
    PROVE  /\ [d EXCEPT !.tags = Append(d.tags, v)] \in Documents
           /\ [d EXCEPT !.subs = Append(d.subs, [id |-> NoId, content |-> v])] \in Documents
<1>1. d.tags \in Seq(Values) /\ d.subs \in Seq(SubEntities)
  BY DEF Documents
<1>2. [id |-> NoId, content |-> v] \in SubEntities
  BY DEF SubEntities
<1>3. /\ Append(d.tags, v) \in Seq(Values)
      /\ Append(d.subs, [id |-> NoId, content |-> v]) \in Seq(SubEntities)
  BY <1>1, <1>2, AppendProperties
<1> QED BY <1>3, ChangedDocuments

-----------------------------------------------------------------------------
(* The invariant.                                                          *)

\* A document, or what was read of it, when w statements have written it.
DocFits(d, w) ==
    /\ d \in Documents
    /\ d.version <= 1 + w

DocsOK ==
    /\ Existing \subseteq created /\ created \subseteq Ids
    /\ written \in [Ids -> Nat]
    /\ \A i \in Existing : DocFits(docs[i], written[i])

RequestFields == {"pc", "op", "target", "seen", "answer", "partial", "wrote", "done"}

\* What a request is doing, when wr[i] statements have written entity i: the
\* version it holds is not ahead of them, an operation that can still fail
\* on its own has not written, updateEntity has read what it will write, and
\* what is rewritten has no sub-entity without an id.
RequestFits(q, wr) ==
    /\ DOMAIN q = RequestFields
    /\ q.op \in AllCalls /\ CallOK(q.op)
    /\ q.pc \in {"idle", "reading", "rereading", "writing", "written", "readingBack"}
    /\ q.answer \in {"none", "ok", "error"} /\ q.target \in Ids
    /\ q.wrote \in BOOLEAN /\ q.partial \in BOOLEAN /\ q.done \in 0 .. MaxOperations
    /\ q.pc # "idle" => q.answer = "none"
    /\ q.pc \in {"reading", "rereading", "writing"} => ~q.wrote
    /\ q.pc = "reading" \/ q.seen # {} => PlanOf(q.op).reads
    /\ \/ q.pc = "rereading"
       \/ q.pc = "writing" /\ PlanOf(q.op).statement = "rewrite"
       => q.seen # {}
    /\ q.pc = "writing" /\ PlanOf(q.op).statement = "rewrite" =>
          \A d \in q.seen : ~ CannotSet(d.subs)
    /\ PlanOf(q.op).statement = "set" /\ q.seen # {} => q.target = q.op.id
    /\ q.pc = "written" => q.op.post
    /\ q.pc = "readingBack" => q.op.method = "createEntity"
    /\ q.answer = "error" => q.partial \/ ~q.wrote
    /\ \A d \in q.seen : DocFits(d, wr[q.target])

RequestsOK ==
    /\ DOMAIN request = Requests
    /\ \A r \in Requests : RequestFits(request[r], written)

Inv == DocsOK /\ RequestsOK

-----------------------------------------------------------------------------
(* Steps.                                                                  *)

\* What a statement does to the collection.
DocsStep ==
    /\ DocsOK'
    /\ \A i \in Ids : written[i] <= written'[i]
    /\ Existing' \ Existing \subseteq created' \ created

\* What becomes of the request that executes it.
Becomes(r) ==
    \E q : request' = [request EXCEPT ![r] = q] /\ RequestFits(q, written')

\* Nothing that the other requests have read is ahead of more statements.
LEMMA InvIsKept ==
    ASSUME Inv, NEW r \in Requests, DocsStep, Becomes(r)
    PROVE  Inv'
<1>1. PICK q : request' = [request EXCEPT ![r] = q] /\ RequestFits(q, written')
  BY DEF Becomes
<1>2. \A i \in Ids : written[i] <= written'[i] /\ written[i] \in Nat /\ written'[i] \in Nat
  BY DEF Inv, DocsOK, DocsStep
<1>3. ASSUME NEW i \in Ids, NEW d, DocFits(d, written[i])
      PROVE  DocFits(d, written'[i])
  BY <1>2, <1>3 DEF DocFits, Documents, NaN
<1>4. ASSUME NEW s \in Requests
      PROVE  RequestFits(request'[s], written')
  <2>1. CASE s = r
    BY <1>1, <2>1 DEF Inv, RequestsOK
  <2>2. CASE s # r
    <3>1. request'[s] = request[s] /\ RequestFits(request[s], written)
      BY <1>1, <2>2 DEF Inv, RequestsOK
    <3> QED BY <3>1, <1>3 DEF RequestFits
  <2> QED BY <2>1, <2>2
<1>5. DOMAIN request' = Requests
  BY <1>1 DEF Inv, RequestsOK
<1> QED BY <1>4, <1>5 DEF Inv, RequestsOK, DocsStep

LEMMA NothingIsStored ==
    ASSUME DocsOK, StoresNothing
    PROVE  DocsStep
  BY DEF DocsOK, StoresNothing, DocsStep, Existing

\* A statement that writes one entity.
LEMMA StoreFits ==
    ASSUME DocsOK
    PROVE  \A i \in Existing : \A doc :
               Store(i, doc) /\ DocFits(doc, written[i] + 1) => DocsStep
<1> SUFFICES ASSUME NEW i \in Existing, NEW doc, Store(i, doc), DocFits(doc, written[i] + 1)
             PROVE  DocsStep
  OBVIOUS
<1>1. /\ docs' = [docs EXCEPT ![i] = doc] /\ created' = created
      /\ written' = [written EXCEPT ![i] = written[i] + 1]
  BY DEF Store
<1>2. i \in Ids /\ written \in [Ids -> Nat]
  BY DEF DocsOK
<1>3. written' \in [Ids -> Nat] /\ \A j \in Ids : written[j] <= written'[j]
  BY <1>1, <1>2
<1>4. Existing' = Existing
  BY <1>1 DEF Existing
<1>5. ASSUME NEW j \in Existing
      PROVE  DocFits(docs'[j], written'[j])
  <2>1. CASE j = i
    BY <1>1, <1>2, <2>1 DEF Existing
  <2>2. CASE j # i
    <3>1. docs'[j] = docs[j] /\ written'[j] = written[j]
      BY <1>1, <1>2, <2>2 DEF Existing, DocsOK
    <3> QED BY <3>1 DEF DocsOK
  <2> QED BY <2>1, <2>2
<1> QED BY <1>1, <1>3, <1>4, <1>5 DEF DocsOK, DocsStep

\* A version and its increment, with one statement more.
LEMMA IncrementFits ==
    ASSUME NEW d, NEW w \in Nat, DocFits(d, w)
    PROVE  /\ Increment(d.version) \in {NaN} \cup Nat
           /\ Increment(d.version) <= 1 + (w + 1)
  BY DEF DocFits, Documents, Increment, NaN

LEMMA TargetsExist ==
    ASSUME NEW op
    PROVE  /\ Targets(op) \subseteq Existing
           /\ CallOK(op) /\ op.method = "updateEntity" => Targets(op) \subseteq {op.id}
  BY DEF Targets, Matching, CallOK

LEMMA NoRequestFits ==
    /\ DOMAIN NoRequest = RequestFields
    /\ NoRequest.op \in AllCalls /\ CallOK(NoRequest.op)
    /\ NoRequest.seen = {} /\ NoRequest.pc = "idle"
    /\ NoRequest.answer = "none" /\ ~NoRequest.wrote /\ ~NoRequest.partial
    /\ NoRequest.wrote \in BOOLEAN /\ NoRequest.partial \in BOOLEAN
    /\ NoRequest.done \in 0 .. MaxOperations /\ NoRequest.target \in Ids
<1>1. Call("deleteAllEntities") \in AllCalls /\ CallOK(Call("deleteAllEntities"))
  BY CallsAreOK DEF AllCalls, Deletions, MethodNames
<1> QED BY <1>1, BoundsAssumption DEF NoRequest, RequestFields

LEMMA MayFailLateType ==
    ASSUME NEW op, CallOK(op)
    PROVE  MayFailLate(op) \in BOOLEAN
  BY DEF MayFailLate, CallOK

\* The ends of an operation.
LEMMA EndedFits ==
    ASSUME Inv, NEW r \in Requests, NEW answer \in {"ok", "error"}, NEW wrote \in BOOLEAN,
           Ended(r, answer, wrote),
           answer = "error" => MayFailLate(request[r].op) \/ ~wrote
    PROVE  Becomes(r)
<1> DEFINE q == [NoRequest EXCEPT !.answer = answer, !.wrote = wrote, !.done = request[r].done,
                                  !.partial = MayFailLate(request[r].op)]
<1>1. request' = [request EXCEPT ![r] = q]
  BY DEF Ended
<1>2. /\ DOMAIN q = RequestFields /\ q.op = NoRequest.op /\ q.pc = "idle" /\ q.seen = {}
      /\ q.answer = answer /\ q.wrote = wrote /\ q.partial = MayFailLate(request[r].op)
      /\ q.done = request[r].done /\ q.target = NoRequest.target
  BY NoRequestFits DEF RequestFields
<1> HIDE DEF q
<1>3. MayFailLate(request[r].op) \in BOOLEAN /\ request[r].done \in 0 .. MaxOperations
  BY MayFailLateType DEF Inv, RequestsOK, RequestFits
<1>4. RequestFits(q, written')
  BY <1>2, <1>3, NoRequestFits DEF RequestFits
<1> QED BY <1>1, <1>4 DEF Becomes

LEMMA AnswerFits ==
    ASSUME Inv, NEW r \in Requests, NEW answer \in {"ok", "error"}, Answer(r, answer),
           request[r].pc \in {"reading", "rereading", "writing", "written", "readingBack"}
    PROVE  Becomes(r)
<1>1. RequestFits(request[r], written)
  BY DEF Inv, RequestsOK
<1>2. Ended(r, answer, request[r].wrote)
  BY DEF Answer
<1>3. (MayFailLate(request[r].op) \/ ~request[r].wrote) /\ request[r].wrote \in BOOLEAN
  BY <1>1 DEF RequestFits, MayFailLate
<1> QED BY <1>2, <1>3, EndedFits

LEMMA FinishFits ==
    ASSUME Inv, NEW r \in Requests, NEW wrote \in BOOLEAN, Finish(r, wrote),
           request[r].pc # "idle"
    PROVE  Becomes(r)
<1>1. RequestFits(request[r], written)
  BY DEF Inv, RequestsOK
<1>2. CASE request[r].op.post
  <2> DEFINE q == [request[r] EXCEPT !.pc = "written", !.wrote = wrote, !.seen = {}]
  <2>1. request' = [request EXCEPT ![r] = q]
    BY <1>2 DEF Finish, Inv, RequestsOK
  <2>2. DOMAIN request[r] = RequestFields
    BY <1>1 DEF RequestFits
  <2>3. /\ DOMAIN q = RequestFields /\ q.op = request[r].op /\ q.pc = "written"
        /\ q.seen = {} /\ q.answer = request[r].answer /\ q.target = request[r].target
        /\ q.wrote = wrote /\ q.partial = request[r].partial /\ q.done = request[r].done
    BY <2>2 DEF RequestFields
  <2> HIDE DEF q
  <2>4. RequestFits(q, written')
    BY <1>1, <1>2, <2>3 DEF RequestFits
  <2> QED BY <2>1, <2>4 DEF Becomes
<1>3. CASE ~request[r].op.post
  <2>1. Ended(r, "ok", wrote)
    BY <1>3 DEF Finish
  <2> QED BY <2>1, EndedFits
<1> QED BY <1>2, <1>3

\* What is read, or read again, becomes what the request has seen.
LEMMA SeenFits ==
    ASSUME Inv, NEW r \in Requests, NEW i \in Ids, NEW d, DocFits(d, written[i]),
           UNCHANGED written, PlanOf(request[r].op).reads, request[r].pc # "idle",
           PlanOf(request[r].op).statement = "set" => i = request[r].op.id,
           NEW pc \in {"rereading", "writing"}, ~request[r].wrote,
           pc = "writing" => PlanOf(request[r].op).statement # "rewrite",
           request' = [request EXCEPT ![r] = [@ EXCEPT !.target = i, !.seen = {d}, !.pc = pc]]
    PROVE  Becomes(r)
<1> DEFINE q == [request[r] EXCEPT !.target = i, !.seen = {d}, !.pc = pc]
<1>1. RequestFits(request[r], written)
  BY DEF Inv, RequestsOK
<1>2. request' = [request EXCEPT ![r] = q]
  BY DEF Inv, RequestsOK
<1>3. DOMAIN request[r] = RequestFields
  BY <1>1 DEF RequestFits
<1>4. /\ DOMAIN q = RequestFields /\ q.op = request[r].op /\ q.pc = pc /\ q.target = i
      /\ q.seen = {d} /\ q.answer = request[r].answer /\ q.wrote = request[r].wrote
      /\ q.partial = request[r].partial /\ q.done = request[r].done
  BY <1>3 DEF RequestFields
<1> HIDE DEF q
<1>5. RequestFits(q, written')
  BY <1>1, <1>4 DEF RequestFits
<1> QED BY <1>2, <1>5 DEF Becomes

LEMMA BeginStep ==
    ASSUME Inv, NEW r \in Requests, Begin(r)
    PROVE  DocsStep /\ Becomes(r)
<1>1. DocsStep
  BY NothingIsStored DEF Inv, Begin
<1>2. PICK op \in AllCalls :
          request' = [request EXCEPT ![r] =
              [NoRequest EXCEPT !.op = op, !.done = request[r].done + 1,
                                !.pc = IF PlanOf(op).reads THEN "reading" ELSE "writing"]]
  BY DEF Begin
<1> DEFINE q == [NoRequest EXCEPT !.op = op, !.done = request[r].done + 1,
                                  !.pc = IF PlanOf(op).reads THEN "reading" ELSE "writing"]
<1>3. CallOK(op) /\ PlanFits(PlanOf(op), op.method)
  BY AllCallsAreOK, PlanFacts DEF CallsOK
<1>4. /\ DOMAIN q = RequestFields /\ q.op = op
      /\ q.pc = IF PlanOf(op).reads THEN "reading" ELSE "writing"
      /\ q.seen = {} /\ q.answer = "none" /\ ~q.wrote /\ q.wrote \in BOOLEAN
      /\ q.partial \in BOOLEAN /\ q.target \in Ids /\ q.done = request[r].done + 1
  BY NoRequestFits DEF RequestFields
<1> HIDE DEF q
<1>5. q.done \in 0 .. MaxOperations
  BY <1>4, BoundsAssumption DEF Begin, Inv, RequestsOK, RequestFits
<1>6. RequestFits(q, written')
  BY <1>3, <1>4, <1>5 DEF RequestFits, PlanFits
<1> QED BY <1>1, <1>2, <1>6 DEF Becomes, q

\* The document that a query returns.
LEMMA RowFits ==
    ASSUME DocsOK, NEW i \in Existing
    PROVE  DocFits(Row(i), written[i])
<1>1. DocFits(docs[i], written[i])
  BY DEF DocsOK
<1>2. \E I \in SUBSET Ids : Row(i) = [docs[i] EXCEPT !.links = I]
  BY <1>1 DEF Row, DocFits, Documents
<1>3. Row(i) \in Documents
  BY <1>1, <1>2, ChangedDocuments DEF DocFits
<1>4. Row(i).version = docs[i].version
  BY <1>1, <1>2 DEF DocFits, Documents
<1> QED BY <1>1, <1>3, <1>4 DEF DocFits

LEMMA ReadEntityStep ==
    ASSUME Inv, NEW r \in Requests, ReadEntity(r)
    PROVE  DocsStep /\ Becomes(r)
<1> DEFINE op == request[r].op
           plan == PlanOf(op)
           proceed(i) ==
               IF plan.statement = "none" THEN Finish(r, FALSE)
               ELSE request' = [request EXCEPT ![r] =
                       [@ EXCEPT !.target = i, !.seen = {Row(i)},
                                 !.pc = IF plan.statement = "rewrite" THEN "rereading"
                                        ELSE "writing"]]
<1>1. DocsStep /\ UNCHANGED written
  BY NothingIsStored DEF Inv, ReadEntity, StoresNothing
<1>2. request[r].pc = "reading" /\ RequestFits(request[r], written)
  BY DEF Inv, RequestsOK, ReadEntity
<1>3. CallOK(op) /\ PlanFits(plan, op.method) /\ plan.reads /\ ~request[r].wrote
  BY <1>2, PlanFacts DEF RequestFits
<1>4. ASSUME NEW i \in Existing, proceed(i), plan.statement = "set" => i = op.id
      PROVE  Becomes(r)
  <2>1. CASE plan.statement = "none"
    BY <1>2, <1>4, <2>1, FinishFits
  <2>2. CASE plan.statement # "none"
    <3> DEFINE pc == IF plan.statement = "rewrite" THEN "rereading" ELSE "writing"
    <3>1. request' = [request EXCEPT ![r] =
                         [@ EXCEPT !.target = i, !.seen = {Row(i)}, !.pc = pc]]
      BY <1>4, <2>2
    <3>2. pc \in {"rereading", "writing"} /\ (pc = "writing" => plan.statement # "rewrite")
      OBVIOUS
    <3>3. i \in Ids /\ DocFits(Row(i), written[i])
      BY RowFits DEF Inv, DocsOK
    <3> HIDE DEF pc
    <3> QED BY <1>1, <1>2, <1>3, <1>4, <3>1, <3>2, <3>3, SeenFits
  <2> QED BY <2>1, <2>2
<1>5. ASSUME NEW i \in Targets(op), NEW ok,
             IF ok /\ ~VersionMismatch(op, i) THEN proceed(i) ELSE Answer(r, "error")
      PROVE  Becomes(r)
  <2>1. i \in Existing /\ (plan.statement = "set" => i = op.id)
    BY <1>3, TargetsExist DEF PlanFits
  <2> QED BY <1>2, <1>4, <1>5, <2>1, AnswerFits
<1>6. ASSUME plan.missing = "substitute", NEW i \in Existing, proceed(i)
      PROVE  Becomes(r)
  BY <1>3, <1>4, <1>6 DEF PlanFits
<1>7. \/ \E i \in Targets(op) : \E ok \in IF op.hook THEN EntityPreHookOutcomes ELSE {TRUE} :
             IF ok /\ ~VersionMismatch(op, i) THEN proceed(i) ELSE Answer(r, "error")
      \/ plan.missing = "substitute" /\ \E i \in Existing : proceed(i)
      \/ Finish(r, FALSE)
      \/ \E answer \in {"ok", "error"} : Answer(r, answer)
  BY <1>3 DEF ReadEntity, PlanFits
<1> HIDE DEF proceed, op, plan
<1>8. CASE \E i \in Targets(op) : \E ok \in IF op.hook THEN EntityPreHookOutcomes ELSE {TRUE} :
             IF ok /\ ~VersionMismatch(op, i) THEN proceed(i) ELSE Answer(r, "error")
  BY <1>1, <1>5, <1>8
<1>9. CASE plan.missing = "substitute" /\ \E i \in Existing : proceed(i)
  BY <1>1, <1>6, <1>9
<1>10. CASE Finish(r, FALSE) \/ \E answer \in {"ok", "error"} : Answer(r, answer)
  BY <1>1, <1>2, <1>10, FinishFits, AnswerFits
<1> QED BY <1>7, <1>8, <1>9, <1>10

LEMMA InnerErrorFits ==
    ASSUME Inv, NEW r \in Requests, InnerError(r), request[r].pc \in {"rereading", "writing"}
    PROVE  Becomes(r)
  BY AnswerFits, FinishFits DEF InnerError

LEMMA RewrittenFits ==
    ASSUME NEW op, NEW d \in Documents, ~ TooMany(op, d),
           NEW v \in {NaN} \cup Nat, NEW w, v <= 1 + w
    PROVE  DocFits([Rewritten(op, d) EXCEPT !.version = v], w)
  BY RewrittenType, ChangedDocuments DEF DocFits

LEMMA ReadAgainStep ==
    ASSUME Inv, NEW r \in Requests, ReadAgain(r)
    PROVE  DocsStep /\ Becomes(r)
<1> DEFINE op == request[r].op
           i == request[r].target
           seen == CHOOSE d \in request[r].seen : TRUE
           new == Rewritten(op, seen)
           read == [new EXCEPT !.version = docs[i].version]
<1>1. DocsStep /\ UNCHANGED written
  BY NothingIsStored DEF Inv, ReadAgain, StoresNothing
<1>2. request[r].pc = "rereading" /\ RequestFits(request[r], written)
  BY DEF Inv, RequestsOK, ReadAgain
<1>3. seen \in request[r].seen
  BY <1>2 DEF RequestFits
<1>4. seen \in Documents /\ DOMAIN request[r] = RequestFields
  BY <1>2, <1>3 DEF RequestFits, DocFits
<1>5. \/ Answer(r, "error") \/ Finish(r, FALSE) \/ InnerError(r)
      \/ /\ i \in Existing /\ ~ TooMany(op, seen) /\ ~ CannotSet(new.subs)
         /\ request' = [request EXCEPT ![r].pc = "writing", ![r].seen = {read}]
  BY DEF ReadAgain
<1>6. ASSUME i \in Existing, ~ TooMany(op, seen), ~ CannotSet(new.subs),
             request' = [request EXCEPT ![r].pc = "writing", ![r].seen = {read}]
      PROVE  Becomes(r)
  <2> DEFINE q == [request[r] EXCEPT !.pc = "writing", !.seen = {read}]
  <2>1. DocFits(docs[i], written[i]) /\ i \in Ids
    BY <1>6 DEF Inv, DocsOK
  <2>2. DocFits(read, written[i]) /\ ~ CannotSet(read.subs)
    <3>1. docs[i].version \in {NaN} \cup Nat
      BY <2>1 DEF DocFits, Documents
    <3>2. DocFits(read, written[i])
      BY <1>4, <1>6, <2>1, <3>1, RewrittenFits DEF DocFits
    <3>3. new \in Documents
      BY <1>4, <1>6, RewrittenType
    <3> HIDE DEF new
    <3>4. read.subs = new.subs
      BY <3>3 DEF Documents
    <3> QED BY <1>6, <3>2, <3>4
  <2> HIDE DEF read
  <2>3. request' = [request EXCEPT ![r] = q]
    BY <1>6 DEF Inv, RequestsOK
  <2>4. /\ DOMAIN q = RequestFields /\ q.op = op /\ q.pc = "writing" /\ q.target = i
        /\ q.seen = {read} /\ q.answer = request[r].answer /\ q.wrote = request[r].wrote
        /\ q.partial = request[r].partial /\ q.done = request[r].done
    BY <1>4 DEF RequestFields
  <2> HIDE DEF q
  <2>5. RequestFits(q, written')
    BY <1>1, <1>2, <1>3, <2>1, <2>2, <2>4 DEF RequestFits
  <2> QED BY <2>3, <2>5 DEF Becomes
<1> HIDE DEF read, i
<1> QED BY <1>1, <1>2, <1>5, <1>6, AnswerFits, FinishFits, InnerErrorFits

\* A request that executes its statement.
LEMMA WritingFacts ==
    ASSUME Inv, NEW r \in Requests, NEW statement, Writes(r, statement)
    PROVE  /\ request[r].pc = "writing" /\ ~request[r].wrote
           /\ RequestFits(request[r], written)
           /\ CallOK(request[r].op) /\ PlanOf(request[r].op).statement = statement
           /\ PlanFits(PlanOf(request[r].op), request[r].op.method)
<1>1. RequestFits(request[r], written)
  BY DEF Inv, RequestsOK
<1>2. CallOK(request[r].op)
  BY <1>1 DEF RequestFits
<1> QED BY <1>1, <1>2, PlanFacts DEF Writes, RequestFits

LEMMA RewriteEntityStep ==
    ASSUME Inv, NEW r \in Requests, RewriteEntity(r)
    PROVE  DocsStep /\ Becomes(r)
<1> DEFINE i == request[r].target
           new == CHOOSE d \in request[r].seen : TRUE
           doc == [new EXCEPT !.version = Increment(@), !.subs = SetSubs(docs[i].subs, @)]
<1>1. Writes(r, "rewrite")
  BY DEF RewriteEntity
<1>2. new \in request[r].seen
  BY <1>1, WritingFacts DEF RequestFits
<1>3. i \in Ids /\ DocFits(new, written[i]) /\ written[i] \in Nat
  BY <1>1, <1>2, WritingFacts DEF RequestFits, Inv, DocsOK
<1>4. \/ i \in Existing /\ Store(i, doc) /\ Finish(r, TRUE)
      \/ StoresNothing /\ InnerError(r)
  BY DEF RewriteEntity
<1>5. new \in Documents /\ new.subs \in Seq(SubEntities) /\ ~ CannotSet(new.subs)
  BY <1>1, <1>2, <1>3, WritingFacts DEF RequestFits, DocFits, Documents
<1>6. /\ Increment(new.version) \in {NaN} \cup Nat
      /\ Increment(new.version) <= 1 + (written[i] + 1)
  BY <1>3, IncrementFits
<1>7. CASE i \in Existing /\ Store(i, doc) /\ Finish(r, TRUE)
  <2> HIDE DEF new, i
  <2>1. docs[i].subs \in Seq(SubEntities)
    BY <1>7 DEF Inv, DocsOK, DocFits, Documents
  <2>2. SetSubs(docs[i].subs, new.subs) \in Seq(SubEntities)
    BY <1>5, <2>1, SetSubsKeeps
  <2>3. DocFits(doc, written[i] + 1)
    BY <1>5, <1>6, <2>2 DEF DocFits, Documents
  <2> HIDE DEF doc
  <2> QED BY <1>1, <1>7, <2>3, StoreFits, FinishFits, WritingFacts DEF Inv
<1>8. CASE StoresNothing /\ InnerError(r)
  BY <1>1, <1>8, NothingIsStored, InnerErrorFits, WritingFacts DEF Inv
<1> QED BY <1>4, <1>7, <1>8

\* What updateEntity sets has an id, or is an empty list.
LEMMA GivenKeeps ==
    ASSUME NEW subs \in Seq(SubEntities), NEW v \in Values
    PROVE  LET given == <<[id |-> 1, content |-> v]>>
           IN /\ SetSubs(subs, given) \in Seq(SubEntities)
              /\ SetSubs(subs, given) = <<>> \/ KeepsIds(subs, SetSubs(subs, given))
              /\ SetSubs(subs, <<>>) \in Seq(SubEntities) /\ SetSubs(subs, <<>>) = <<>>
<1> DEFINE given == <<[id |-> 1, content |-> v]>>
<1>1. given \in Seq(SubEntities) /\ ~ CannotSet(given)
  BY DEF SubEntities, CannotSet, NoId, Null
<1> HIDE DEF given
<1>2. SetSubs(subs, <<>>) = <<>> /\ <<>> \in Seq(SubEntities)
  BY DEF SetSubs
<1> QED BY <1>1, <1>2, SetSubsKeeps DEF given

\* The version of updateEntity comes from the entity it writes, read before.
LEMMA UpdateEntityStep ==
    ASSUME Inv, NEW r \in Requests, UpdateEntity(r)
    PROVE  DocsStep /\ Becomes(r)
<1> DEFINE op == request[r].op
           i == op.id
           seen == CHOOSE d \in request[r].seen : TRUE
           version == IF request[r].seen = {} THEN NaN ELSE Increment(seen.version)
<1>1. Writes(r, "set")
  BY DEF UpdateEntity
<1>2. CASE i \in Existing
  <2>1. DocFits(docs[i], written[i]) /\ i \in Ids /\ written[i] \in Nat
    BY <1>2 DEF Inv, DocsOK
  <2> DEFINE given == <<[id |-> 1, content |-> op.value]>>
             doc == CASE op.part = "field" -> [docs[i] EXCEPT !.field = op.value]
                      [] op.part = "tags" -> [docs[i] EXCEPT !.tags = <<op.value>>]
                      [] op.part = "subs" -> [docs[i] EXCEPT !.subs = SetSubs(@, given)]
                      [] OTHER -> [docs[i] EXCEPT !.subs = SetSubs(@, <<>>)]
  <2>2. /\ doc \in Documents
        /\ Store(i, [doc EXCEPT !.version = version]) /\ Finish(r, TRUE)
    <3>1. Store(i, [doc EXCEPT !.version = version]) /\ Finish(r, TRUE)
      BY <1>2 DEF UpdateEntity
    <3>2. docs[i] \in Documents /\ docs[i].subs \in Seq(SubEntities) /\ op.value \in Values
      BY <1>1, <2>1, BoundsAssumption, WritingFacts DEF DocFits, Documents, CallOK
    <3>3. /\ SetSubs(docs[i].subs, given) \in Seq(SubEntities)
          /\ SetSubs(docs[i].subs, <<>>) \in Seq(SubEntities)
      BY <3>2, GivenKeeps
    <3>4. <<op.value>> \in Seq(Values)
      BY <3>2
    <3>5. doc \in Documents
      <4> DEFINE l == SetSubs(docs[i].subs, given)
                 m == SetSubs(docs[i].subs, <<>>)
      <4> HIDE DEF given, l, m
      <4>1. /\ [docs[i] EXCEPT !.field = op.value] \in Documents
            /\ [docs[i] EXCEPT !.tags = <<op.value>>] \in Documents
            /\ [docs[i] EXCEPT !.subs = l] \in Documents
            /\ [docs[i] EXCEPT !.subs = m] \in Documents
        BY <3>2, <3>3, <3>4, ChangedDocuments DEF l, m
      <4> QED BY <4>1 DEF l, m
    <3> QED BY <3>1, <3>5
  <2> HIDE DEF doc
  <2>3. version \in {NaN} \cup Nat /\ version <= 1 + (written[i] + 1)
    <3>1. CASE request[r].seen = {}
      BY <2>1, <3>1 DEF NaN
    <3>2. CASE request[r].seen # {}
      <4>1. seen \in request[r].seen
        BY <3>2
      <4>2. DocFits(seen, written[i])
        BY <1>1, <4>1, WritingFacts DEF RequestFits
      <4> HIDE DEF seen
      <4> QED BY <2>1, <3>2, <4>2, IncrementFits
    <3> QED BY <3>1, <3>2
  <2> HIDE DEF version
  <2>4. DocFits([doc EXCEPT !.version = version], written[i] + 1)
    BY <2>1, <2>2, <2>3, ChangedDocuments DEF DocFits
  <2> QED BY <1>1, <1>2, <2>2, <2>4, StoreFits, FinishFits, WritingFacts DEF Inv
<1>3. CASE i \notin Existing
  <2>1. StoresNothing /\ Answer(r, "error")
    BY <1>3 DEF UpdateEntity
  <2> QED BY <1>1, <2>1, NothingIsStored, AnswerFits, WritingFacts DEF Inv
<1> QED BY <1>2, <1>3

LEMMA UpdateEntityByFieldStep ==
    ASSUME Inv, NEW r \in Requests, UpdateEntityByField(r)
    PROVE  DocsStep /\ Becomes(r)
<1> DEFINE i == request[r].target
           doc == [docs[i] EXCEPT !.field = request[r].op.value, !.version = NaN]
<1>1. Writes(r, "setByField") /\ Finish(r, i \in Existing)
  BY DEF UpdateEntityByField
<1>2. Becomes(r)
  <2>1. (i \in Existing) \in BOOLEAN
    OBVIOUS
  <2> QED BY <1>1, <2>1, FinishFits, WritingFacts
<1>3. CASE i \in Existing
  <2>1. Store(i, doc)
    BY <1>3 DEF UpdateEntityByField
  <2>2. DocFits(docs[i], written[i]) /\ written[i] \in Nat
    BY <1>3 DEF Inv, DocsOK
  <2>3. request[r].op.value \in Values
    BY <1>1, BoundsAssumption, WritingFacts DEF CallOK
  <2>4. DocFits(doc, written[i] + 1)
    <3>1. /\ doc = [[docs[i] EXCEPT !.field = request[r].op.value] EXCEPT !.version = NaN]
          /\ [docs[i] EXCEPT !.field = request[r].op.value] \in Documents
      BY <2>2, <2>3, ChangedDocuments DEF DocFits
    <3>2. doc \in Documents /\ doc.version = NaN
      BY <3>1, ChangedDocuments
    <3> QED BY <2>2, <3>2 DEF DocFits, NaN
  <2> HIDE DEF doc
  <2> QED BY <1>2, <1>3, <2>1, <2>4, StoreFits DEF Inv
<1>4. CASE i \notin Existing
  BY <1>2, <1>4, NothingIsStored DEF UpdateEntityByField, Inv
<1> QED BY <1>3, <1>4

LEMMA CreateEntityStep ==
    ASSUME Inv, NEW r \in Requests, CreateEntity(r)
    PROVE  DocsStep /\ Becomes(r)
<1> DEFINE op == request[r].op
<1>1. Writes(r, "insert")
  BY DEF CreateEntity
<1>2. op.method = "createEntity" /\ request[r].seen = {} /\ DOMAIN request[r] = RequestFields
  BY <1>1, WritingFacts DEF PlanFits, RequestFits
<1>3. CASE StoresNothing /\ Answer(r, "error")
  BY <1>1, <1>3, NothingIsStored, AnswerFits, WritingFacts DEF Inv
<1>4. ASSUME NEW i \in Ids \ created,
             docs' = [j \in Existing \cup {i} |->
                         IF j = i THEN NewDocument(op.name) ELSE docs[j]],
             created' = created \cup {i},
             written' = [written EXCEPT ![i] = @ + 1],
             request' = [request EXCEPT ![r].pc = "readingBack", ![r].target = i,
                                        ![r].wrote = TRUE]
      PROVE  DocsStep /\ Becomes(r)
  <2>1. NewDocument(op.name) \in Documents /\ NewDocument(op.name).version = 1
    BY <1>1, NewDocumentType, WritingFacts DEF CallOK
  <2>2. /\ written \in [Ids -> Nat] /\ written' \in [Ids -> Nat]
        /\ \A j \in Ids : written[j] <= written'[j]
        /\ \A j \in Ids : j # i => written'[j] = written[j]
    BY <1>4 DEF Inv, DocsOK
  <2>3. /\ Existing' = Existing \cup {i} /\ i \notin Existing
        /\ docs'[i] = NewDocument(op.name)
        /\ \A j \in Existing : docs'[j] = docs[j]
    <3> DEFINE doc == NewDocument(op.name)
    <3> HIDE DEF doc
    <3>1. docs' = [j \in Existing \cup {i} |-> IF j = i THEN doc ELSE docs[j]]
      BY <1>4 DEF doc
    <3>2. i \notin Existing
      BY DEF Inv, DocsOK
    <3>3. /\ Existing' = Existing \cup {i} /\ docs'[i] = doc
          /\ \A j \in Existing : docs'[j] = docs[j]
      BY <3>1, <3>2 DEF Existing
    <3> QED BY <3>2, <3>3 DEF doc
  <2>4. DocFits(docs'[i], written'[i])
    BY <2>1, <2>2, <2>3 DEF DocFits, NaN
  <2>5. \A j \in Existing : DocFits(docs'[j], written'[j])
    BY <2>2, <2>3 DEF Inv, DocsOK
  <2>6. DocsOK'
    BY <1>4, <2>2, <2>3, <2>4, <2>5 DEF DocsOK, Inv
  <2>7. DocsStep
    BY <1>4, <2>2, <2>3, <2>6 DEF DocsStep
  <2> DEFINE q == [request[r] EXCEPT !.pc = "readingBack", !.target = i, !.wrote = TRUE]
  <2>8. request' = [request EXCEPT ![r] = q]
    BY <1>4 DEF Inv, RequestsOK
  <2>9. /\ DOMAIN q = RequestFields /\ q.op = op /\ q.pc = "readingBack" /\ q.seen = {}
        /\ q.answer = request[r].answer /\ q.target = i /\ q.wrote = TRUE
        /\ q.partial = request[r].partial /\ q.done = request[r].done
    BY <1>2 DEF RequestFields
  <2> HIDE DEF q
  <2>10. RequestFits(q, written')
    BY <1>1, <1>2, <2>9, WritingFacts DEF RequestFits
  <2> QED BY <2>7, <2>8, <2>10 DEF Becomes
<1> QED BY <1>3, <1>4 DEF CreateEntity

LEMMA ReadBackStep ==
    ASSUME Inv, NEW r \in Requests, ReadBack(r)
    PROVE  DocsStep /\ Becomes(r)
  BY NothingIsStored, AnswerFits, FinishFits DEF ReadBack, Inv

\* A statement that changes an entity and increments its version.
LEMMA IncrementingStore ==
    ASSUME DocsOK
    PROVE  \A i \in Existing : \A doc :
               /\ doc \in Documents /\ doc.version = docs[i].version
               /\ Store(i, [doc EXCEPT !.version = Increment(@)])
               => DocsStep
<1> SUFFICES ASSUME NEW i \in Existing, NEW doc,
                    doc \in Documents, doc.version = docs[i].version,
                    Store(i, [doc EXCEPT !.version = Increment(@)])
             PROVE  DocsStep
  OBVIOUS
<1> DEFINE new == [doc EXCEPT !.version = Increment(@)]
<1>1. DocFits(docs[i], written[i]) /\ written[i] \in Nat
  BY DEF DocsOK
<1>2. new \in Documents /\ new.version = Increment(docs[i].version)
  BY <1>1, IncrementFits, ChangedDocuments
<1>3. Store(i, new)
  OBVIOUS
<1> HIDE DEF new
<1>4. DocFits(new, written[i] + 1)
  BY <1>1, <1>2, IncrementFits DEF DocFits
<1> QED BY <1>3, <1>4, StoreFits

LEMMA AddSimpleStep ==
    ASSUME Inv, NEW r \in Requests, AddSimple(r)
    PROVE  DocsStep /\ Becomes(r)
<1> DEFINE op == request[r].op
           push(doc) ==
               CASE op.part = "tags" -> [doc EXCEPT !.tags = Append(@, op.value)]
                 [] op.part = "subs" ->
                       [doc EXCEPT !.subs = Append(@, [id |-> NoId, content |-> op.value])]
                 [] OTHER -> [doc EXCEPT !.links = @ \cup {op.id}]
<1>1. Writes(r, "push")
  BY DEF AddSimple
<1>2. ASSUME NEW i \in Targets(op),
             Store(i, [push(docs[i]) EXCEPT !.version = Increment(@)]), Finish(r, TRUE)
      PROVE  DocsStep /\ Becomes(r)
  <2>1. i \in Existing
    BY TargetsExist
  <2>2. push(docs[i]) \in Documents
    <3>1. docs[i] \in Documents /\ docs[i].links \in SUBSET Ids
      BY <2>1 DEF Inv, DocsOK, DocFits, Documents
    <3>2. op.value \in Values /\ op.id \in Ids
      BY <1>1, BoundsAssumption, WritingFacts DEF CallOK
    <3>3. docs[i].links \cup {op.id} \in SUBSET Ids
      BY <3>1, <3>2
    <3>4. [docs[i] EXCEPT !.links = docs[i].links \cup {op.id}] \in Documents
      BY <3>1, <3>3, ChangedDocuments
    <3> QED BY <3>1, <3>2, <3>4, AppendTypes
  <2>3. push(docs[i]).version = docs[i].version
    BY <2>1 DEF Inv, DocsOK, DocFits, Documents
  <2>4. DocsStep
    <3> HIDE DEF push
    <3> QED BY <1>2, <2>1, <2>2, <2>3, IncrementingStore DEF Inv
  <2> QED BY <1>1, <1>2, <2>4, FinishFits, WritingFacts
<1>3. CASE StoresNothing /\ Finish(r, FALSE)
  BY <1>1, <1>3, NothingIsStored, FinishFits, WritingFacts DEF Inv
<1> QED BY <1>2, <1>3 DEF AddSimple

LEMMA PullSimpleStep ==
    ASSUME Inv, NEW r \in Requests, PullSimple(r)
    PROVE  DocsStep /\ Becomes(r)
<1> DEFINE op == request[r].op
           pull(doc) ==
               CASE op.part = "tags" -> [doc EXCEPT !.tags = Without(@, {op.value})]
                 [] op.part = "subs" -> [doc EXCEPT !.subs = Without(@, WithIdZero)]
                 [] OTHER -> [doc EXCEPT !.links = @ \ {op.id}]
           pulled(i, found) == IF found THEN pull(docs[i]) ELSE docs[i]
<1>1. Writes(r, "pull")
  BY DEF PullSimple
<1>2. ASSUME NEW i \in Targets(op), NEW found \in BOOLEAN,
             Store(i, [pulled(i, found) EXCEPT !.version = Increment(@)]), Finish(r, TRUE)
      PROVE  DocsStep /\ Becomes(r)
  <2>1. i \in Existing
    BY TargetsExist
  <2>2. pulled(i, found) \in Documents
    <3>1. /\ docs[i] \in Documents /\ docs[i].links \in SUBSET Ids
          /\ docs[i].tags \in Seq(Values) /\ docs[i].subs \in Seq(SubEntities)
      BY <2>1 DEF Inv, DocsOK, DocFits, Documents
    <3>2. /\ Without(docs[i].tags, {op.value}) \in Seq(Values)
          /\ Without(docs[i].subs, WithIdZero) \in Seq(SubEntities)
      BY <3>1, WithoutType
    <3>3. /\ [docs[i] EXCEPT !.tags = Without(docs[i].tags, {op.value})] \in Documents
          /\ [docs[i] EXCEPT !.subs = Without(docs[i].subs, WithIdZero)] \in Documents
          /\ [docs[i] EXCEPT !.links = docs[i].links \ {op.id}] \in Documents
      BY <3>1, <3>2, ChangedDocuments
    <3> QED BY <3>1, <3>3
  <2>3. pulled(i, found).version = docs[i].version
    BY <2>1 DEF Inv, DocsOK, DocFits, Documents
  <2>4. DocsStep
    <3> HIDE DEF pulled
    <3> QED BY <1>2, <2>1, <2>2, <2>3, IncrementingStore DEF Inv
  <2> QED BY <1>1, <1>2, <2>4, FinishFits, WritingFacts
<1>3. CASE StoresNothing /\ Finish(r, FALSE)
  BY <1>1, <1>3, NothingIsStored, FinishFits, WritingFacts DEF Inv
<1> QED BY <1>2, <1>3 DEF PullSimple

LEMMA UpdateMatchesStep ==
    ASSUME Inv, NEW r \in Requests, UpdateMatches(r)
    PROVE  DocsStep /\ Becomes(r)
<1> DEFINE op == request[r].op
           changed(doc) == IF op.part = "name" THEN [doc EXCEPT !.name = op.name]
                           ELSE [doc EXCEPT !.field = op.value]
           update(doc) == [changed(doc) EXCEPT !.version = Increment(@)]
           store(hit) ==
               /\ docs' = [i \in Existing |-> IF i \in hit THEN update(docs[i]) ELSE docs[i]]
               /\ written' = [i \in Ids |-> IF i \in hit THEN written[i] + 1 ELSE written[i]]
               /\ UNCHANGED created
<1>1. Writes(r, "setMatches")
  BY DEF UpdateMatches
<1>2. ASSUME NEW hit, store(hit)
      PROVE  DocsStep
  <2>1. written \in [Ids -> Nat] /\ Existing \subseteq Ids
    BY DEF Inv, DocsOK
  <2>2. written' \in [Ids -> Nat] /\ \A i \in Ids : written[i] <= written'[i]
    BY <1>2, <2>1
  <2>3. ASSUME NEW i \in Existing
        PROVE  DocFits(docs'[i], written'[i])
    <3>1. DocFits(docs[i], written[i]) /\ written[i] \in Nat
      BY DEF Inv, DocsOK
    <3>2. CASE i \in hit
      <4>1. docs'[i] = update(docs[i]) /\ written'[i] = written[i] + 1
        BY <1>2, <2>1, <3>2
      <4>2. changed(docs[i]) \in Documents /\ changed(docs[i]).version = docs[i].version
        <5>1. docs[i] \in Documents /\ op.name \in Names /\ op.value \in Values
          BY <1>1, <3>1, BoundsAssumption, WritingFacts DEF DocFits, CallOK
        <5>2. changed(docs[i]) \in Documents
          BY <5>1, ChangedDocuments
        <5>3. changed(docs[i]).version = docs[i].version
          BY <5>1 DEF Documents
        <5> QED BY <5>2, <5>3
      <4> HIDE DEF changed
      <4>3. /\ update(docs[i]) \in Documents
            /\ update(docs[i]).version = Increment(docs[i].version)
        BY <3>1, <4>2, IncrementFits, ChangedDocuments
      <4> HIDE DEF update
      <4> QED BY <3>1, <4>1, <4>2, <4>3, IncrementFits DEF DocFits
    <3>3. CASE i \notin hit
      <4> HIDE DEF update
      <4> QED BY <1>2, <2>1, <3>1, <3>3
    <3> QED BY <3>2, <3>3
  <2>4. Existing' = Existing /\ created' = created
    <3> HIDE DEF update
    <3> QED BY <1>2 DEF Existing
  <2> QED BY <2>2, <2>3, <2>4 DEF Inv, DocsOK, DocsStep
<1>3. \/ \E hit : store(hit) /\ Finish(r, hit # {})
      \/ op.part = "name" /\ \E hit : store(hit) /\ Ended(r, "error", hit # {})
  BY DEF UpdateMatches
<1> HIDE DEF store
<1>4. CASE \E hit : store(hit) /\ Finish(r, hit # {})
  BY <1>1, <1>2, <1>4, FinishFits, WritingFacts
<1>5. CASE op.part = "name" /\ \E hit : store(hit) /\ Ended(r, "error", hit # {})
  <2>1. MayFailLate(op)
    BY <1>1, <1>5, WritingFacts DEF MayFailLate
  <2> QED BY <1>2, <1>5, <2>1, EndedFits
<1> QED BY <1>3, <1>4, <1>5

LEMMA DeleteEntitiesStep ==
    ASSUME Inv, NEW r \in Requests, DeleteEntities(r)
    PROVE  DocsStep /\ Becomes(r)
<1>1. request[r].pc = "writing"
  BY DEF DeleteEntities, Writes
<1>2. PICK gone : /\ docs' = [i \in Existing \ gone |-> docs[i]]
                  /\ UNCHANGED <<created, written>>
                  /\ Finish(r, gone # {})
  BY DEF DeleteEntities
<1>3. Existing' = Existing \ gone /\ \A i \in Existing' : docs'[i] = docs[i]
  BY <1>2 DEF Existing
<1>4. DocsStep
  BY <1>2, <1>3 DEF Inv, DocsOK, DocsStep
<1> QED BY <1>1, <1>2, <1>4, FinishFits

LEMMA AfterHookStep ==
    ASSUME Inv, NEW r \in Requests, AfterHook(r)
    PROVE  DocsStep /\ Becomes(r)
<1>1. /\ request[r].pc = "written" /\ StoresNothing
      /\ \E answer \in {"ok", "error"} : Answer(r, answer)
  BY DEF AfterHook
<1> QED BY <1>1, NothingIsStored, AnswerFits DEF Inv

-----------------------------------------------------------------------------
(* What the statements do to lists of sub-entities.                        *)

\* What a statement may do to a list, unless it pulls from it.
Survive(old, new) == new = <<>> \/ KeepsIds(old, new)

SubsStep == \A i \in Existing \cap Existing' : Survive(docs[i].subs, docs'[i].subs)

LEMMA SurviveSame ==
    ASSUME NEW subs \in Seq(SubEntities)
    PROVE  Survive(subs, subs)
<1>1. Len(subs) \in Nat
  BY LenProperties
<1> QED BY <1>1 DEF Survive, KeepsIds

\* A statement that writes one entity.
LEMMA StoreKeepsSubs ==
    ASSUME Inv, NEW i \in Existing, NEW doc, Store(i, doc), Survive(docs[i].subs, doc.subs)
    PROVE  SubsStep
<1>1. docs' = [docs EXCEPT ![i] = doc]
  BY DEF Store
<1>2. \A j \in Existing : docs'[j] = IF j = i THEN doc ELSE docs[j]
  BY <1>1 DEF Existing
<1>3. \A j \in Existing : docs[j].subs \in Seq(SubEntities)
  BY DEF Inv, DocsOK, DocFits, Documents
<1> QED BY <1>2, <1>3, SurviveSame DEF SubsStep

\* One that leaves the lists alone.
LEMMA SameSubs ==
    ASSUME Inv, \A i \in Existing \cap Existing' : docs'[i].subs = docs[i].subs
    PROVE  SubsStep
<1>1. \A j \in Existing : docs[j].subs \in Seq(SubEntities)
  BY DEF Inv, DocsOK, DocFits, Documents
<1> QED BY <1>1, SurviveSame DEF SubsStep

LEMMA RewriteEntityKeepsSubs ==
    ASSUME Inv, NEW r \in Requests, RewriteEntity(r)
    PROVE  SubsStep
<1> DEFINE i == request[r].target
           new == CHOOSE d \in request[r].seen : TRUE
           doc == [new EXCEPT !.version = Increment(@), !.subs = SetSubs(docs[i].subs, @)]
<1>1. Writes(r, "rewrite")
  BY DEF RewriteEntity
<1>2. new \in request[r].seen
  BY <1>1, WritingFacts DEF RequestFits
<1>3. new \in Documents /\ new.subs \in Seq(SubEntities) /\ ~ CannotSet(new.subs)
  BY <1>1, <1>2, WritingFacts DEF RequestFits, DocFits, Documents
<1>4. (i \in Existing /\ Store(i, doc)) \/ StoresNothing
  BY DEF RewriteEntity
<1> HIDE DEF new, i
<1>5. CASE i \in Existing /\ Store(i, doc)
  <2>1. docs[i].subs \in Seq(SubEntities)
    BY <1>5 DEF Inv, DocsOK, DocFits, Documents
  <2>2. doc.subs = SetSubs(docs[i].subs, new.subs)
    BY <1>3 DEF Documents
  <2>3. Survive(docs[i].subs, doc.subs)
    BY <1>3, <2>1, <2>2, SetSubsKeeps DEF Survive
  <2> HIDE DEF doc
  <2> QED BY <1>5, <2>3, StoreKeepsSubs
<1>6. CASE StoresNothing
  BY <1>6, SameSubs DEF StoresNothing
<1> QED BY <1>4, <1>5, <1>6

LEMMA UpdateEntityKeepsSubs ==
    ASSUME Inv, NEW r \in Requests, UpdateEntity(r)
    PROVE  SubsStep
<1> DEFINE op == request[r].op
           i == op.id
           given == <<[id |-> 1, content |-> op.value]>>
           version == IF request[r].seen = {} THEN NaN
                      ELSE Increment((CHOOSE d \in request[r].seen : TRUE).version)
           doc == CASE op.part = "field" -> [docs[i] EXCEPT !.field = op.value]
                    [] op.part = "tags" -> [docs[i] EXCEPT !.tags = <<op.value>>]
                    [] op.part = "subs" -> [docs[i] EXCEPT !.subs = SetSubs(@, given)]
                    [] OTHER -> [docs[i] EXCEPT !.subs = SetSubs(@, <<>>)]
<1>1. Writes(r, "set")
  BY DEF UpdateEntity
<1>2. (i \in Existing /\ Store(i, [doc EXCEPT !.version = version])) \/ StoresNothing
  BY DEF UpdateEntity
<1>3. CASE i \in Existing /\ Store(i, [doc EXCEPT !.version = version])
  <2>1. docs[i] \in Documents /\ docs[i].subs \in Seq(SubEntities) /\ op.value \in Values
    BY <1>1, <1>3, BoundsAssumption, WritingFacts DEF Inv, DocsOK, DocFits, Documents, CallOK
  <2>2. [doc EXCEPT !.version = version].subs = doc.subs
    <3> HIDE DEF doc, version
    <3> QED OBVIOUS
  <2>3. \/ doc.subs = docs[i].subs
        \/ doc.subs = SetSubs(docs[i].subs, given)
        \/ doc.subs = SetSubs(docs[i].subs, <<>>)
    <3> DEFINE l == SetSubs(docs[i].subs, given)
               m == SetSubs(docs[i].subs, <<>>)
    <3> HIDE DEF given, l, m
    <3>1. /\ [docs[i] EXCEPT !.field = op.value].subs = docs[i].subs
          /\ [docs[i] EXCEPT !.tags = <<op.value>>].subs = docs[i].subs
          /\ [docs[i] EXCEPT !.subs = l].subs = l /\ [docs[i] EXCEPT !.subs = m].subs = m
      BY <2>1 DEF Documents
    <3> QED BY <3>1 DEF l, m
  <2>4. Survive(docs[i].subs, doc.subs)
    <3> HIDE DEF doc
    <3> QED BY <2>1, <2>3, GivenKeeps, SurviveSame DEF Survive
  <2> HIDE DEF doc, version
  <2> QED BY <1>3, <2>2, <2>4, StoreKeepsSubs
<1>4. CASE StoresNothing
  BY <1>4, SameSubs DEF StoresNothing
<1> QED BY <1>2, <1>3, <1>4

LEMMA UpdateEntityByFieldKeepsSubs ==
    ASSUME Inv, NEW r \in Requests, UpdateEntityByField(r)
    PROVE  SubsStep
<1> DEFINE i == request[r].target
           doc == [docs[i] EXCEPT !.field = request[r].op.value, !.version = NaN]
<1>1. (i \in Existing /\ Store(i, doc)) \/ StoresNothing
  BY DEF UpdateEntityByField
<1>2. CASE i \in Existing /\ Store(i, doc)
  <2>1. docs[i] \in Documents /\ docs[i].subs \in Seq(SubEntities)
    BY <1>2 DEF Inv, DocsOK, DocFits, Documents
  <2>2. doc.subs = docs[i].subs
    OBVIOUS
  <2> HIDE DEF doc
  <2> QED BY <1>2, <2>1, <2>2, SurviveSame, StoreKeepsSubs
<1>3. CASE StoresNothing
  BY <1>3, SameSubs DEF StoresNothing
<1> QED BY <1>1, <1>2, <1>3

LEMMA CreateEntityKeepsSubs ==
    ASSUME Inv, NEW r \in Requests, CreateEntity(r)
    PROVE  SubsStep
<1>1. CASE StoresNothing
  BY <1>1, SameSubs DEF StoresNothing
<1>2. ASSUME NEW i \in Ids \ created, NEW doc,
             docs' = [j \in Existing \cup {i} |-> IF j = i THEN doc ELSE docs[j]]
      PROVE  SubsStep
  <2>1. \A j \in Existing : docs'[j] = docs[j]
    BY <1>2 DEF Inv, DocsOK
  <2> QED BY <2>1, SameSubs
<1> QED BY <1>1, <1>2 DEF CreateEntity

LEMMA AddSimpleKeepsSubs ==
    ASSUME Inv, NEW r \in Requests, AddSimple(r)
    PROVE  SubsStep
<1> DEFINE op == request[r].op
           added == [id |-> NoId, content |-> op.value]
           push(doc) ==
               CASE op.part = "tags" -> [doc EXCEPT !.tags = Append(@, op.value)]
                 [] op.part = "subs" -> [doc EXCEPT !.subs = Append(@, added)]
                 [] OTHER -> [doc EXCEPT !.links = @ \cup {op.id}]
<1>1. Writes(r, "push")
  BY DEF AddSimple
<1>2. ASSUME NEW i \in Targets(op), Store(i, [push(docs[i]) EXCEPT !.version = Increment(@)])
      PROVE  SubsStep
  <2> DEFINE doc == push(docs[i])
  <2>1. i \in Existing
    BY TargetsExist
  <2>2. docs[i] \in Documents /\ docs[i].subs \in Seq(SubEntities) /\ added \in SubEntities
    BY <1>1, <2>1, BoundsAssumption, WritingFacts
    DEF Inv, DocsOK, DocFits, Documents, CallOK, SubEntities
  <2>3. doc.subs = docs[i].subs \/ doc.subs = Append(docs[i].subs, added)
    <3> HIDE DEF added
    <3> QED BY <2>2 DEF Documents
  <2>4. KeepsIds(docs[i].subs, Append(docs[i].subs, added))
    <3> HIDE DEF added
    <3>1. Len(docs[i].subs) \in Nat
      BY <2>2, LenProperties
    <3> QED BY <2>2, <3>1, AppendProperties DEF KeepsIds
  <2>5. Survive(docs[i].subs, doc.subs)
    <3> HIDE DEF doc, added
    <3> QED BY <2>2, <2>3, <2>4, SurviveSame DEF Survive
  <2> HIDE DEF push
  <2>6. [doc EXCEPT !.version = Increment(@)].subs = doc.subs
    OBVIOUS
  <2> QED BY <1>2, <2>1, <2>5, <2>6, StoreKeepsSubs
<1>3. CASE StoresNothing
  BY <1>3, SameSubs DEF StoresNothing
<1> QED BY <1>2, <1>3 DEF AddSimple

\* A pull ends its operation, or leaves it to the hook after it.
LEMMA PullSimplePulls ==
    ASSUME Inv, NEW r \in Requests, PullSimple(r)
    PROVE  Pulls
<1>1. Writes(r, "pull") /\ \E wrote : Finish(r, wrote)
  BY DEF PullSimple
<1>2. DOMAIN request = Requests /\ DOMAIN request[r] = RequestFields
  BY DEF Inv, RequestsOK, RequestFits
<1>3. request'[r].pc \in {"written", "idle"}
  <2>1. CASE request[r].op.post
    <3>1. PICK wrote : request' = [request EXCEPT ![r].pc = "written", ![r].wrote = wrote,
                                                  ![r].seen = {}]
      BY <1>1, <2>1 DEF Finish
    <3>2. request'[r].pc = "written"
      BY <1>2, <3>1 DEF RequestFields
    <3> QED BY <3>2
  <2>2. CASE ~ request[r].op.post
    <3>1. PICK wrote : Ended(r, "ok", wrote)
      BY <1>1, <2>2 DEF Finish
    <3>2. request'[r].pc = NoRequest.pc
      BY <1>2, <3>1, NoRequestFits DEF Ended, RequestFields
    <3> QED BY <3>2, NoRequestFits
  <2> QED BY <2>1, <2>2
<1> QED BY <1>1, <1>3 DEF Pulls, Writes

LEMMA UpdateMatchesKeepsSubs ==
    ASSUME Inv, NEW r \in Requests, UpdateMatches(r)
    PROVE  SubsStep
<1> DEFINE op == request[r].op
           changed(doc) == IF op.part = "name" THEN [doc EXCEPT !.name = op.name]
                           ELSE [doc EXCEPT !.field = op.value]
           update(doc) == [changed(doc) EXCEPT !.version = Increment(@)]
<1>1. PICK hit : docs' = [i \in Existing |-> IF i \in hit THEN update(docs[i]) ELSE docs[i]]
  BY DEF UpdateMatches
<1>2. \A d : update(d).subs = d.subs
  OBVIOUS
<1> HIDE DEF update
<1>3. \A i \in Existing : docs'[i].subs = docs[i].subs
  BY <1>1, <1>2
<1> QED BY <1>3, SameSubs

LEMMA DeleteEntitiesKeepsSubs ==
    ASSUME Inv, NEW r \in Requests, DeleteEntities(r)
    PROVE  SubsStep
<1>1. PICK gone : docs' = [i \in Existing \ gone |-> docs[i]]
  BY DEF DeleteEntities
<1>2. \A i \in Existing' : docs'[i] = docs[i]
  BY <1>1 DEF Existing
<1> QED BY <1>2, SameSubs

\* What operations keep is a prefix of the ids.
LEMMA SurvivorsArePrefix ==
    ASSUME NEW a \in Seq(SubEntities), NEW b \in Seq(SubEntities), KeepsIds(a, b)
    PROVE  IsPrefix([k \in DOMAIN a |-> a[k].id], [k \in DOMAIN b |-> b[k].id])
<1> DEFINE I == {NoId, Null} \cup Nat
           s == [k \in DOMAIN a |-> a[k].id]
           t == [k \in DOMAIN b |-> b[k].id]
<1>1. /\ Len(a) \in Nat /\ DOMAIN a = 1 .. Len(a) /\ \A k \in 1 .. Len(a) : a[k] \in SubEntities
      /\ Len(b) \in Nat /\ DOMAIN b = 1 .. Len(b) /\ \A k \in 1 .. Len(b) : b[k] \in SubEntities
  BY LenProperties
<1>2. s \in [1 .. Len(a) -> I] /\ t \in [1 .. Len(b) -> I]
  BY <1>1 DEF SubEntities
<1>3. \A k \in 1 .. Len(a) : s[k] = t[k]
  BY <1>1 DEF KeepsIds
<1> HIDE DEF s, t, I
<1>4. s \in Seq(I) /\ t \in Seq(I) /\ Len(s) = Len(a) /\ Len(t) = Len(b)
  BY <1>1, <1>2
<1>5. Len(a) <= Len(b)
  BY DEF KeepsIds
<1>6. \A k \in 1 .. Len(a) : s[k] \in I /\ t[k] \in I
  BY <1>1, <1>2, <1>5
<1>7. /\ SubSeq(s, 1, Len(a)) \in Seq(I) /\ SubSeq(t, 1, Len(a)) \in Seq(I)
      /\ Len(SubSeq(s, 1, Len(a))) = Len(SubSeq(t, 1, Len(a)))
      /\ \A k \in 1 .. Len(SubSeq(s, 1, Len(a))) :
             SubSeq(s, 1, Len(a))[k] = SubSeq(t, 1, Len(a))[k]
  <2>1. /\ SubSeq(s, 1, Len(a)) \in Seq(I)
        /\ Len(SubSeq(s, 1, Len(a))) = IF 1 <= Len(a) THEN Len(a) - 1 + 1 ELSE 0
        /\ \A k \in 1 .. Len(a) - 1 + 1 : SubSeq(s, 1, Len(a))[k] = s[1 + k - 1]
    BY <1>1, <1>6, SubSeqProperties
  <2>2. /\ SubSeq(t, 1, Len(a)) \in Seq(I)
        /\ Len(SubSeq(t, 1, Len(a))) = IF 1 <= Len(a) THEN Len(a) - 1 + 1 ELSE 0
        /\ \A k \in 1 .. Len(a) - 1 + 1 : SubSeq(t, 1, Len(a))[k] = t[1 + k - 1]
    BY <1>1, <1>6, SubSeqProperties
  <2>3. Len(SubSeq(s, 1, Len(a))) = Len(a) /\ Len(SubSeq(t, 1, Len(a))) = Len(a)
    BY <1>1, <2>1, <2>2
  <2>4. ASSUME NEW k \in 1 .. Len(a)
        PROVE  SubSeq(s, 1, Len(a))[k] = SubSeq(t, 1, Len(a))[k]
    <3>1. k \in 1 .. Len(a) - 1 + 1 /\ 1 + k - 1 = k
      BY <1>1
    <3> QED BY <1>3, <2>1, <2>2, <3>1
  <2> QED BY <2>1, <2>2, <2>3, <2>4
<1>8. SubSeq(s, 1, Len(a)) = SubSeq(t, 1, Len(a))
  BY <1>7, SeqEqual
<1> QED BY <1>4, <1>5, <1>8 DEF IsPrefix, s, t

-----------------------------------------------------------------------------
(* Theorems.                                                               *)

\* In the beginning, an entity has been written by nobody and has version 1.
LEMMA InitFits == Init => Inv
<1> SUFFICES ASSUME Init PROVE Inv
  OBVIOUS
<1>1. created \subseteq Ids /\ written = [i \in Ids |-> 0]
      /\ request = [r \in Requests |-> NoRequest]
  BY DEF Init
<1>2. PICK name \in [Ids -> Names] : docs = [i \in created |-> NewDocument(name[i])]
  BY NamesAssumption DEF Init
<1>3. ASSUME NEW n \in Names
      PROVE  DocFits(NewDocument(n), 0)
  BY NewDocumentType DEF DocFits
<1>4. DocsOK
  BY <1>1, <1>2, <1>3 DEF DocsOK, Existing
<1>5. RequestFits(NoRequest, written)
  BY NoRequestFits DEF RequestFits
<1>6. RequestsOK
  BY <1>1, <1>5 DEF RequestsOK
<1> QED BY <1>4, <1>6 DEF Inv

\* The steps of a request, one lemma each.
LEMMA NextStep ==
    ASSUME Inv, Next
    PROVE  Inv' /\ DocsStep
<1>1. PICK r \in Requests : Begin(r) \/ Step(r)
  BY DEF Next
<1>2. DocsStep /\ Becomes(r)
  BY <1>1, BeginStep, ReadEntityStep, ReadAgainStep, RewriteEntityStep, UpdateEntityStep,
     UpdateEntityByFieldStep, CreateEntityStep, ReadBackStep, AddSimpleStep, PullSimpleStep,
     UpdateMatchesStep, DeleteEntitiesStep, AfterHookStep DEF Step
<1> QED BY <1>2, InvIsKept

\* In every reachable state the documents and the requests on them fit.
THEOREM Invariance == Spec => []Inv
<1>1. Inv /\ UNCHANGED vars => Inv'
  BY DEF Inv, DocsOK, RequestsOK, Existing, vars
<1>2. Inv /\ [Next]_vars => Inv'
  BY <1>1, NextStep
<1> QED BY InitFits, <1>2, PTL DEF Spec

\* The state is what it is meant to be, although versions are computed from
\* undefined and lists are padded behind their end.
THEOREM TypeCorrectness == Spec => []TypeOK
<1>1. Inv => TypeOK
  <2> SUFFICES ASSUME Inv
               PROVE  TypeOK
    OBVIOUS
  <2>1. \A i \in Existing : docs[i] \in Documents
    BY DEF Inv, DocsOK, DocFits
  <2>2. ASSUME NEW r \in Requests
        PROVE  request[r].seen \subseteq Documents
    BY DEF Inv, RequestsOK, RequestFits, DocFits
  <2> QED BY <2>1, <2>2 DEF TypeOK, Inv, DocsOK, RequestsOK, RequestFits
<1> QED BY <1>1, Invariance, PTL

\* An entity that satisfies all filters matches what
\* convertUserDefinedFiltersToMatchExpression makes of them, whatever filters
\* replace each other there, if getWhereExpression turns none of them into
\* another one (IN on a function, DAY, MONTH): operations leave none out.
THEOREM FiltersMissNone == Spec => []FiltersMissNothing
<1>1. FiltersMissNothing
  <2> SUFFICES ASSUME NEW filters \in FilterLists, NEW i \in Existing,
                      \A k \in DOMAIN filters :
                          ~Misconverted(filters[k]) /\ Satisfies(docs[i], filters[k])
               PROVE  i \in Matching(filters)
    BY DEF FiltersMissNothing
  <2>1. filters \in Seq(Conditions \cup Disjunctions)
    BY FiltersAssumption
  <2>2. Matches(docs[i], MatchExpression(filters))
    BY <2>1, MatchExpressionMatches
  <2> QED BY <2>2 DEF Matching
<1> QED BY <1>1, PTL

\* No version is ahead of the statements that wrote the entity: whatever
\* increments concurrent operations of MongoDbManager lose, none is made up.
THEOREM VersionsComeFromWrites == Spec => []VersionsAreNotInvented
<1>1. Inv => VersionsAreNotInvented
  BY DEF Inv, DocsOK, DocFits, VersionsAreNotInvented
<1> QED BY <1>1, Invariance, PTL

\* An operation that ends with an error has written nothing, although no
\* statement of MongoDbManager is rolled back, unless the error is one of those
\* that come after a statement.
THEOREM FailedOperationsLeaveNothing == Spec => []ErrorsLeaveNothing
<1>1. Inv => ErrorsLeaveNothing
  BY DEF Inv, RequestsOK, RequestFits, ErrorsLeaveNothing
<1> QED BY <1>1, Invariance, PTL

\* Whatever operations interleave, a sub-entity that is in an entity stays at
\* its place in the list, except for removals and for an update that gives an
\* empty list: what was read before another operation pushed does not
\* overwrite it.
THEOREM SubEntitiesStay == Spec => SubEntitiesSurviveRewrites
<1> DEFINE Stay == \A i \in Existing \cap Existing' :
                       LET ids(subs) == [k \in DOMAIN subs |-> subs[k].id]
                       IN \/ Pulls
                          \/ docs'[i].subs = <<>>
                          \/ IsPrefix(ids(docs[i].subs), ids(docs'[i].subs))
<1>1. ASSUME Inv, Next
      PROVE  Pulls \/ SubsStep
  <2>1. PICK r \in Requests : Begin(r) \/ Step(r)
    BY <1>1 DEF Next
  <2>2. CASE \/ Begin(r) \/ ReadEntity(r) \/ ReadAgain(r) \/ ReadBack(r) \/ AfterHook(r)
    <3>1. StoresNothing
      BY <2>2 DEF Begin, ReadEntity, ReadAgain, ReadBack, AfterHook
    <3> QED BY <1>1, <3>1, SameSubs DEF StoresNothing
  <2> QED BY <1>1, <2>1, <2>2, RewriteEntityKeepsSubs, UpdateEntityKeepsSubs,
             UpdateEntityByFieldKeepsSubs, CreateEntityKeepsSubs, AddSimpleKeepsSubs,
             PullSimplePulls, UpdateMatchesKeepsSubs, DeleteEntitiesKeepsSubs DEF Step
<1>2. Inv /\ [Next]_vars => [Stay]_vars
  <2> SUFFICES ASSUME Inv, Next, ~ Pulls, NEW i \in Existing, i \in Existing',
                      docs'[i].subs # <<>>
               PROVE  LET ids(subs) == [k \in DOMAIN subs |-> subs[k].id]
                      IN  IsPrefix(ids(docs[i].subs), ids(docs'[i].subs))
    OBVIOUS
  <2>1. KeepsIds(docs[i].subs, docs'[i].subs)
    BY <1>1 DEF SubsStep, Survive
  <2>2. Inv'
    BY NextStep
  <2>3. docs[i].subs \in Seq(SubEntities) /\ docs'[i].subs \in Seq(SubEntities)
    BY <2>2 DEF Inv, DocsOK, DocFits, Documents
  <2> QED BY <2>1, <2>3, SurvivorsArePrefix
<1> QED BY <1>2, Invariance, PTL DEF Spec, SubEntitiesSurviveRewrites

\* Whatever an operation has read before an entity was deleted, writing it
\* later does not bring it back: only createEntity adds documents, and with
\* ids that none had.
THEOREM DeletedEntitiesStayAway == Spec => DeletionsAreFinal
<1> DEFINE Final == Existing' \ Existing \subseteq created' \ created
<1>1. Inv /\ [Next]_vars => [Final]_vars
  BY NextStep DEF DocsStep
<1>2. Spec => [][Final]_vars
  BY <1>1, Invariance, PTL DEF Spec
<1> QED BY <1>2 DEF DeletionsAreFinal
=============================================================================
