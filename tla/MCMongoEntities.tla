-------------------------- MODULE MCMongoEntities --------------------------
(***************************************************************************)
(* Two requests of one operation each on two entities.                     *)
(***************************************************************************)
EXTENDS MongoEntities

CONSTANTS n1, n2, v1, v2

MCNames == {n1, n2}
MCValues == {v1, v2}
MCNewValues == {v2}

\* Two days of the first quarter, of January and of February.
MCFunctions == {"MONTH", "QUARTER"}
MCResults == 0 .. 2
MCResultOf == [f \in MCFunctions |-> [v \in MCValues |-> IF f = "MONTH" /\ v = v2 THEN 2 ELSE 1]]
MCEvaluated == [MCResultOf EXCEPT !["MONTH"] = [v \in MCValues |-> IF v = v2 THEN 1 ELSE 0]]

Is(field, v) == [field |-> field, function |-> "none", in |-> FALSE, value |-> {v}]
Of(function, in, result) == [field |-> "field", function |-> function, in |-> in, value |-> {result}]
AnyOf(conditions) == [field |-> "or", value |-> conditions]

\* One entity; conditions of which one is lost; an OR that drops a condition; a
\* function with a field; functions that miss entities.
MCFilterLists ==
    {<<Is("name", n1)>>,
     <<Is("field", v2), Is("field", v1)>>,
     <<Is("name", n2), AnyOf({Is("field", v1), Is("name", n1)})>>,
     <<Of("QUARTER", FALSE, 1), Is("field", v2)>>,
     <<Of("QUARTER", FALSE, 1), AnyOf({Of("MONTH", FALSE, 1), Of("QUARTER", TRUE, 1)})>>}

Symmetry == Permutations(Requests)
=============================================================================
