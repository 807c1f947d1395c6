--------------------------- MODULE MCSqlEntities ---------------------------
(***************************************************************************)
(* Two requests of one operation each, on two entities.                    *)
(***************************************************************************)
EXTENDS SqlEntities

MCNames == {"a", "b"}

AllMethods == DOMAIN Additions \cup DOMAIN Queries \cup DOMAIN Updates
              \cup DOMAIN Deletions \cup DOMAIN Removals \cup DOMAIN ValueOperations

\* Operations that lock entities, sub-entities or both, in different orders.
LockingMethods == {"addSubEntityToEntityById", "removeSubEntitiesByJsonPathFromEntityById",
                   "addEntityArrayFieldValues", "updateEntity", "deleteEntityById",
                   "deleteEntitiesByFilters", "getEntitiesByFilters"}
=============================================================================
