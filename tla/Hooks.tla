-------------------------------- MODULE Hooks --------------------------------
(***************************************************************************)
(* Hooks of database operations.  A hook is a function, with a condition   *)
(* or without one; a condition and a function give a value, a pair with an *)
(* error in it, or an exception.                                           *)
(***************************************************************************)

HookCalls == [condition : {"none", "true", "false", "error", "exception"},
              result : {"nothing", "true", "false", "pair", "error", "object", "exception"}]

IsExecuted(hook) == hook.condition \in {"none", "true"}

\* Before the statement: a condition that fails is an exception, a result that
\* is an object (and no pair) is taken for an error.
tryExecutePreHooks(hook) ==
    /\ hook.condition \notin {"error", "exception"}
    /\ IsExecuted(hook) => hook.result \notin {"false", "error", "object", "exception"}

tryExecuteEntityPreHooks(hook) ==
    /\ hook.condition \notin {"error", "exception"}
    /\ IsExecuted(hook) => hook.result \notin {"false", "error", "object", "exception"}

\* After the statement: the condition is not awaited, a pair with an error is as
\* true as any other, and objects are no errors.
tryExecutePostHook(hook) ==
    /\ hook.condition # "exception"
    /\ IsExecuted(hook) \/ hook.condition = "error" =>
          hook.result \notin {"false", "error", "exception"}

tryExecuteEntitiesPostHook(hook) ==
    /\ hook.condition # "exception"
    /\ IsExecuted(hook) \/ hook.condition = "error" =>
          hook.result \notin {"false", "error", "exception"}

PreHookOutcomes == {tryExecutePreHooks(h) : h \in HookCalls}
EntityPreHookOutcomes == {tryExecuteEntityPreHooks(h) : h \in HookCalls}
PostHookOutcomes == {tryExecutePostHook(h) : h \in HookCalls}
EntitiesPostHookOutcomes == {tryExecuteEntitiesPostHook(h) : h \in HookCalls}
=============================================================================
