---------------------------- MODULE ExtensionHost ----------------------------
(***************************************************************************)
(* The extensions of a running Controller (extension_host/manager.py):     *)
(* their start in the order of their dependencies, the processes they own  *)
(* (plugin_system/processes.py), what the unexpected exit of one of them   *)
(* does to its owner and to whoever depends on it (runtime_failure.py),    *)
(* and the shutdown.                                                       *)
(*                                                                         *)
(* Extensions are 1..ExCount, numbered in the load order.  Three kinds of  *)
(* task interleave at their awaits: the start, which runs once, one        *)
(* handler for each process that exits, and the stop.                      *)
(***************************************************************************)
EXTENDS Integers, FiniteSets

CONSTANTS
  ExCount,
  ExGraphs,    \* dependencies to explore: functions from Exts to sets of them
  ExWithProcess, \* extensions that declare a process
  ExMaxFails   \* bound: stages and hooks that fail, and processes that exit

Exts == 1..ExCount

ASSUME ExAssumption ==
  /\ ExCount \in Nat \ {0}
  /\ \A d \in ExGraphs : \A e \in Exts : d[e] \subseteq 1..(e - 1)
  /\ ExWithProcess \subseteq Exts /\ ExMaxFails \in Nat

VARIABLES
  exDeps, exBroken, \* manifest.dependencies, and what cannot be loaded
  exState,    \* _states[e]["status"]
  exStarted,  \* _started_extensions
  exTools,    \* _registered_tool_owners
  exHook,     \* extensions between the end of their start() and that of their stop()
  exProc,     \* the process of e: "none", "up" or "dead"
  exStopReq,  \* stop_requested of that process
  exBoot,     \* the start: the extension it is at, and where
  exHandler,  \* handle_managed_process_exit of e: where, and at which dependent
  exDegrading, \* _degrading_extensions
  exStop,     \* the stop: the extension it is at, and where
  exRaced,    \* history: begun while a dependency was being degraded
  exFails     \* counter

exOwned == <<exStarted, exTools, exHook, exProc, exStopReq>>
exTasks == <<exBoot, exHandler, exDegrading, exStop>>
exGiven == <<exDeps, exBroken>>
exVars  == <<exGiven, exState, exOwned, exTasks, exRaced, exFails>>

\* Whoever depends on o, directly or not, and o.
ExUpon(deps, o) ==
  {e \in Exts : \A S \in SUBSET Exts :
     o \in S /\ (\A x \in Exts : deps[x] \cap S # {} => x \in S) => e \in S}

\* load_and_register: an extension whose code or resources cannot be loaded is
\* degraded, and one whose dependencies are not loaded is blocked.
ExLoaded(deps, broken) ==
  [e \in Exts |-> IF e \in broken THEN "degraded"
                  ELSE IF \E b \in broken : e \in ExUpon(deps, b) THEN "blocked" ELSE "loaded"]

ExInit ==
  /\ exDeps \in ExGraphs
  /\ exBroken \in {{}} \cup {{e} : e \in Exts}
  /\ exState = ExLoaded(exDeps, exBroken)
  /\ exStarted = {} /\ exTools = {} /\ exHook = {}
  /\ exProc = [e \in Exts |-> "none"] /\ exStopReq = [e \in Exts |-> FALSE]
  /\ exBoot = [at |-> 1, pc |-> "next", why |-> ""]
  /\ exHandler = [e \in Exts |-> [pc |-> "none", at |-> 0]]
  /\ exDegrading = {}
  /\ exStop = [at |-> 0, pc |-> "off", why |-> ""]
  /\ exRaced = {} /\ exFails = 0

ExAffected(o) == ExUpon(exDeps, o)

DependenciesRun(e) == \A d \in exDeps[e] : exState[d] = "running"

-----------------------------------------------------------------------------
(***************************************************************************)
(* _deactivate_owner: tools are taken away and the process is told at once;*)
(* the extension's own stop() and the end of its process are awaited.      *)
(***************************************************************************)
ExRelease(e) ==
  /\ exTools' = exTools \ {e}
  /\ exStarted' = exStarted \ {e}
  /\ exStopReq' = [exStopReq EXCEPT ![e] = TRUE]

ExReleasePc(e) == IF e \in exStarted THEN "stopping" ELSE "killing"

ExHookStops(e) == exHook' = exHook \ {e} /\ UNCHANGED <<exStarted, exTools, exProc, exStopReq>>

\* ProcessManager.stop, whose lock the start of another process holds.
ExKill(e) == exBoot.pc # "process" /\ exProc' = [exProc EXCEPT ![e] = "none"]

-----------------------------------------------------------------------------
(***************************************************************************)
(* start: an extension passes a checkpoint after each stage                *)
(***************************************************************************)
ExStages == <<"migrate", "process", "start", "health", "tools", "next">>
ExFollowing(stage) == ExStages[1 + CHOOSE i \in 1..5 : ExStages[i] = stage]
ExInStage == exBoot.pc \in {"migrate", "process", "start", "health", "tools"}
ExBootNext == exBoot' = [at |-> exBoot.at + 1, pc |-> "next", why |-> ""]
ExBootDone == exBoot.pc = "next" /\ exBoot.at > ExCount

ExBegin ==
  LET e == exBoot.at IN
  /\ exBoot.pc = "next" /\ e <= ExCount
  /\ \/ exState[e] # "loaded" /\ ExBootNext /\ UNCHANGED <<exState, exRaced>>
     \/ /\ exState[e] = "loaded" /\ ~DependenciesRun(e)
        /\ exState' = [exState EXCEPT ![e] = "blocked"]
        /\ ExBootNext /\ UNCHANGED exRaced
     \/ /\ exState[e] = "loaded" /\ DependenciesRun(e)
        /\ exState' = [exState EXCEPT ![e] = "starting"]
        /\ exBoot' = [exBoot EXCEPT !.pc = "migrate"]
        /\ exRaced' = exRaced \cup {x \in {e} : \E o \in exDegrading : x \in ExAffected(o)}
  /\ UNCHANGED <<exGiven, exOwned, exHandler, exDegrading, exStop, exFails>>

\* ensure_runtime_start_allowed
Bug_Unchecked(e) == TRUE
ExMayGoOn(e) == exState[e] # "blocked" /\ DependenciesRun(e)

\* What a stage leaves behind when it returns.
ExStageReturns ==
  LET e == exBoot.at IN
  /\ ExInStage
  /\ exHook' = IF exBoot.pc = "start" THEN exHook \cup {e} ELSE exHook
  /\ exProc' = IF exBoot.pc = "process" /\ e \in ExWithProcess
               THEN [exProc EXCEPT ![e] = "up"] ELSE exProc

ExStagePasses ==
  LET e == exBoot.at IN
  /\ ExStageReturns /\ ExMayGoOn(e)
  /\ exStarted' = IF exBoot.pc = "process" THEN exStarted \cup {e} ELSE exStarted
  /\ exTools' = IF exBoot.pc = "tools" THEN exTools \cup {e} ELSE exTools
  /\ exState' = IF exBoot.pc = "tools" THEN [exState EXCEPT ![e] = "running"] ELSE exState
  /\ IF exBoot.pc = "tools" THEN ExBootNext
     ELSE exBoot' = [exBoot EXCEPT !.pc = ExFollowing(@)]
  /\ UNCHANGED <<exGiven, exStopReq, exHandler, exDegrading, exStop, exRaced, exFails>>

\* cleanup_blocked_start
ExStageBlocked ==
  LET e == exBoot.at IN
  /\ ExStageReturns /\ ~ExMayGoOn(e)
  /\ ExRelease(e)
  /\ exState' = [exState EXCEPT ![e] = "blocked"]
  /\ exBoot' = [exBoot EXCEPT !.pc = ExReleasePc(e), !.why = "blocked"]
  /\ UNCHANGED <<exGiven, exHandler, exDegrading, exStop, exRaced, exFails>>

\* _degrade_runtime_extension, from the except clause of start.
ExStageFails ==
  LET e == exBoot.at IN
  /\ ExInStage /\ exFails < ExMaxFails
  /\ exFails' = exFails + 1
  /\ ExRelease(e)
  /\ exBoot' = [exBoot EXCEPT !.pc = ExReleasePc(e), !.why = "degraded"]
  /\ UNCHANGED <<exGiven, exState, exHook, exProc, exHandler, exDegrading, exStop, exRaced>>

ExBootStops ==
  /\ exBoot.pc = "stopping" /\ ExHookStops(exBoot.at)
  /\ exBoot' = [exBoot EXCEPT !.pc = "killing"]
  /\ UNCHANGED <<exGiven, exState, exHandler, exDegrading, exStop, exRaced, exFails>>

ExBootKills ==
  /\ exBoot.pc = "killing" /\ ExKill(exBoot.at)
  /\ exState' = [exState EXCEPT ![exBoot.at] = IF exBoot.why = "degraded" THEN "degraded" ELSE @]
  /\ ExBootNext
  /\ UNCHANGED <<exGiven, exStarted, exTools, exHook, exStopReq, exHandler, exDegrading,
                 exStop, exRaced, exFails>>

-----------------------------------------------------------------------------
(***************************************************************************)
(* A process exits                                                         *)
(***************************************************************************)
ExHandlerAt(e, pc, at) == exHandler' = [exHandler EXCEPT ![e] = [pc |-> pc, at |-> at]]

ExExits(e) ==
  /\ exProc[e] = "up" /\ exHandler[e].pc = "none" /\ exFails < ExMaxFails
  /\ exFails' = exFails + 1
  /\ exProc' = [exProc EXCEPT ![e] = "dead"]
  /\ ExHandlerAt(e, "watch", 0)
  /\ UNCHANGED <<exGiven, exState, exStarted, exTools, exHook, exStopReq, exBoot,
                 exDegrading, exStop, exRaced>>

\* _watch_process: an exit that was asked for is no news.
ExWatches(e) ==
  /\ exHandler[e].pc = "watch"
  /\ ExHandlerAt(e, IF exStopReq[e] THEN "none" ELSE "wait", 0)
  /\ UNCHANGED <<exGiven, exState, exOwned, exBoot, exDegrading, exStop, exRaced, exFails>>

\* The event of _starting_extensions
Bug_NoWait(e) == FALSE
ExStarting(e) == exBoot.at = e /\ exBoot.pc # "next"

ExIgnores(e) == exStop.pc # "off" \/ e \in exDegrading \/ exState[e] # "running"

ExIgnoresExit(e) ==
  /\ exHandler[e].pc = "wait" /\ ~ExStarting(e) /\ ExIgnores(e)
  /\ ExHandlerAt(e, "none", 0)
  /\ UNCHANGED <<exGiven, exState, exOwned, exBoot, exDegrading, exStop, exRaced, exFails>>

\* block_runtime_dependents: its first loop, and where its second one goes on.
Bug_StartingForgotten(o) == exState
ExBlocked(o) ==
  [e \in Exts |-> IF e # o /\ e \in ExAffected(o) /\ exState[e] = "starting"
                  THEN "blocked" ELSE exState[e]]
ExTarget(o, t, below, state) ==
  LET stillUp == {e \in ExAffected(o) : o < e /\ e < below /\ state[e] = "running"}
  IN t \in {o} \cup stillUp /\ \A e \in stillUp : e <= t

ExHandles(o) ==
  /\ exHandler[o].pc = "wait" /\ ~ExStarting(o) /\ ~ExIgnores(o)
  /\ exDegrading' = exDegrading \cup {o}
  /\ exState' = ExBlocked(o)
  /\ \E target \in Exts :
       /\ ExTarget(o, target, ExCount + 1, ExBlocked(o))
       /\ ExRelease(target) /\ ExHandlerAt(o, ExReleasePc(target), target)
  /\ UNCHANGED <<exGiven, exHook, exProc, exBoot, exStop, exRaced, exFails>>

ExHandlerStops(o) ==
  /\ exHandler[o].pc = "stopping" /\ ExHookStops(exHandler[o].at)
  /\ exHandler' = [exHandler EXCEPT ![o].pc = "killing"]
  /\ UNCHANGED <<exGiven, exState, exBoot, exDegrading, exStop, exRaced, exFails>>

\* A dependent is down, and the next one comes, the owner last.
ExHandlerKills(o) ==
  LET v == exHandler[o].at
      down == [exState EXCEPT ![v] = IF v = o THEN "degraded" ELSE "blocked"]
  IN
  /\ exHandler[o].pc = "killing" /\ ExKill(v)
  /\ exState' = down
  /\ \/ /\ v = o
        /\ ExHandlerAt(o, "none", 0) /\ exDegrading' = exDegrading \ {o}
        /\ UNCHANGED <<exStarted, exTools, exStopReq>>
     \/ /\ v # o
        /\ \E target \in Exts :
             /\ ExTarget(o, target, v, down)
             /\ ExRelease(target) /\ ExHandlerAt(o, ExReleasePc(target), target)
        /\ UNCHANGED exDegrading
  /\ UNCHANGED <<exGiven, exHook, exBoot, exStop, exRaced, exFails>>

-----------------------------------------------------------------------------
(***************************************************************************)
(* stop                                                                    *)
(***************************************************************************)
ExShutdown ==
  /\ ExBootDone /\ exStop.pc = "off"
  /\ exStop' = [at |-> ExCount, pc |-> "walk", why |-> ""]
  /\ UNCHANGED <<exGiven, exState, exOwned, exBoot, exHandler, exDegrading, exRaced, exFails>>

\* What was never started, or is being stopped by a handler, is passed over.
ExStopWalks ==
  LET e == exStop.at IN
  /\ exStop.pc = "walk" /\ e > 0
  /\ exTools' = exTools \ {e}
  /\ \/ /\ e \notin exStarted
        /\ exState' = [exState EXCEPT ![e] =
                         IF @ = "blocked" /\ ExLoaded(exDeps, exBroken)[e] = "loaded"
                         THEN "loaded" ELSE @]
        /\ exStop' = [exStop EXCEPT !.at = @ - 1]
        /\ UNCHANGED <<exStarted, exStopReq>>
     \/ /\ e \in exStarted
        /\ exStarted' = exStarted \ {e}
        /\ exStopReq' = [exStopReq EXCEPT ![e] = TRUE]
        /\ exStop' = [exStop EXCEPT !.pc = "stopping"]
        /\ UNCHANGED exState
  /\ UNCHANGED <<exGiven, exHook, exProc, exBoot, exHandler, exDegrading, exRaced, exFails>>

ExStopStops ==
  /\ exStop.pc = "stopping" /\ ExHookStops(exStop.at)
  /\ \/ exStop' = [exStop EXCEPT !.pc = "killing", !.why = ""] /\ UNCHANGED exFails
     \/ /\ exFails < ExMaxFails /\ exFails' = exFails + 1
        /\ exStop' = [exStop EXCEPT !.pc = "killing", !.why = "degraded"]
  /\ UNCHANGED <<exGiven, exState, exBoot, exHandler, exDegrading, exRaced>>

ExStopKills ==
  /\ exStop.pc = "killing" /\ ExKill(exStop.at)
  /\ exState' = [exState EXCEPT ![exStop.at] = IF exStop.why = "" THEN "loaded" ELSE "degraded"]
  /\ exStop' = [at |-> exStop.at - 1, pc |-> "walk", why |-> ""]
  /\ UNCHANGED <<exGiven, exStarted, exTools, exHook, exStopReq, exBoot, exHandler,
                 exDegrading, exRaced, exFails>>

ExNext ==
  \/ ExBegin \/ ExStagePasses \/ ExStageBlocked \/ ExStageFails \/ ExBootStops \/ ExBootKills
  \/ \E e \in Exts :
       \/ ExExits(e) \/ ExWatches(e) \/ ExIgnoresExit(e) \/ ExHandles(e)
       \/ ExHandlerStops(e) \/ ExHandlerKills(e)
  \/ ExShutdown \/ ExStopWalks \/ ExStopStops \/ ExStopKills

-----------------------------------------------------------------------------
(***************************************************************************)
(* Properties                                                              *)
(***************************************************************************)
ExTypeOK ==
  /\ exState \in [Exts -> {"loaded", "starting", "running", "blocked", "degraded"}]
  /\ exStarted \cup exTools \cup exHook \cup exDegrading \cup exRaced \subseteq Exts
  /\ exProc \in [Exts -> {"none", "up", "dead"}]
  /\ exBoot.at \in 1..(ExCount + 1) /\ exStop.at \in 0..ExCount

ExBusy(e) ==
  \/ ExStarting(e)
  \/ \E o \in Exts : exHandler[o].pc # "none" /\ e \in {o, exHandler[o].at}
  \/ exStop.pc \in {"stopping", "killing"} /\ exStop.at = e

\* manager.py: an extension that does not run has left nothing behind, however its
\* start, its exit, that of a dependency and the shutdown came together.
ExNothingLeft ==
  \A e \in Exts :
    ~ExBusy(e) /\ exState[e] # "running" =>
      e \notin exTools \cup exHook \cup exStarted /\ exProc[e] # "up"

\* One that runs has its tools, its hook and its process, and what it depends on runs
\* too, unless its start began while a dependency was already being taken down.
ExFoundationStands ==
  exStop.pc = "off" =>
    \A e \in Exts :
      exState[e] = "running" /\ ~ExBusy(e) =>
        /\ e \in exTools \cap exHook \cap exStarted
        /\ e \in ExWithProcess => exProc[e] = "up"
        /\ \A d \in exDeps[e] : exState[d] = "running" \/ e \in exRaced \/ ExBusy(d)

ExHostOrderly == ExNothingLeft /\ ExFoundationStands
===============================================================================
