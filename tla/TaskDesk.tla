------------------------------- MODULE TaskDesk -------------------------------
(***************************************************************************)
(* What users and agents do with workflow definitions and tasks while      *)
(* tasks run: the manager's operations (workflow/manager.py,               *)
(* main_task_creation.py), the identities a task is frozen with            *)
(* (runtime_guards.py), the tools of an agent that owns tasks and waits    *)
(* for them (tools.py, core/change_broadcaster.py), and the page that      *)
(* edits a definition (web/workflow_routes.py).                            *)
(*                                                                         *)
(* One workflow: a node whose agent is named by a variable, and another    *)
(* node.  How a task walks through its plan is WorkflowTask's and          *)
(* WorkflowPlan's matter, who may be admitted ExecutorPool's.  Left out:   *)
(* names, versions, workspaces, the other variables, extensions that own   *)
(* workflows, and models chosen for one task.                              *)
(***************************************************************************)
EXTENDS Integers, FiniteSets

CONSTANTS
  DkTasks,     \* tasks, by number in the order of their files
  DkAgentNode, \* the node an agent executes
  DkShapes,    \* the sets of nodes a definition may have, and a scheme may select
  DkDefault,   \* the agent the variable names when it is not given
  DkAgents,    \* the agents there are
  DkValues,    \* what the variable may be given; "" when it is left out
  DkMaxSchemes, \* bound: schemes there are at a time
  DkMaxOps     \* bound: operations of users and agents, failed saves, failed sessions, changes of agents

\* The variable's value when nobody gives one.
LeftOut == ""
ASSUME DkAssumption ==
  /\ DkTasks \subseteq Nat \ {0} /\ DkMaxSchemes \in Nat /\ DkMaxOps \in Nat
  /\ DkShapes # {} /\ {} \notin DkShapes
  /\ DkValues \subseteq DkAgents \cup {LeftOut} /\ DkDefault \in DkAgents /\ LeftOut \notin DkAgents

VARIABLES
  dkDef,    \* the definition: its nodes, and its schemes as pairs of a number and nodes
  dkDir,    \* the workflow's directory is there
  dkPage,   \* the definition as the page of an editor has it
  dkAgent,  \* how often each agent's definition changed
  dkFile,   \* the tasks on disk
  dkRun,    \* what the runner of a task has in memory
  dkBegun,  \* what pre_start_task has in memory while a session is made
  dkDel,    \* a deletion of the workflow: the task it waits for, those after it
  dkWait,   \* the task the session's agent waits for, 0 for none, and whether it is woken
  dkTold,   \* history: the schemes users were told to be there
  dkMade,   \* history: of each task what its maker saw selected, and its variable as told
  dkSpoilt, \* history: why something is no longer claimed, of which task
  dkOps

dkVars == <<dkDef, dkDir, dkPage, dkAgent, dkFile, dkRun, dkBegun, dkDel, dkWait, dkTold, dkMade, dkSpoilt, dkOps>>

NoDef == [nodes |-> {}, schemes |-> {}]
NoGuard == [agent |-> LeftOut, at |-> 0]
NoTask == [status |-> "none", nodes |-> {}, off |-> {}, who |-> LeftOut, guard |-> NoGuard, main |-> FALSE, done |-> {}]
NotDone == [task |-> NoTask, cancel |-> FALSE]
NoDeletion == [on |-> 0, left |-> {}]
NobodyWaits == [on |-> 0, woken |-> FALSE]

\* The session's agent made a task already.
Earlier == [NoTask EXCEPT !.status = "pre_running", !.nodes = UNION DkShapes, !.guard.agent = DkDefault, !.main = TRUE]
DkInit ==
  /\ dkDef = [nodes |-> UNION DkShapes, schemes |-> {}] /\ dkDir = TRUE /\ dkPage = dkDef
  /\ dkAgent = [a \in DkAgents |-> 0]
  /\ dkFile = [t \in DkTasks |-> IF t = 1 THEN Earlier ELSE NoTask] /\ dkRun = [t \in DkTasks |-> NotDone]
  /\ dkBegun = [t \in DkTasks |-> NoTask] /\ dkDel = NoDeletion /\ dkWait = NobodyWaits
  /\ dkTold = {} /\ dkMade = [t \in DkTasks |-> IF t = 1 THEN [nodes |-> UNION DkShapes, who |-> DkDefault] ELSE [nodes |-> {}, who |-> LeftOut]] /\ dkSpoilt = {}
  /\ dkOps = 0

DkOp == dkOps < DkMaxOps /\ dkOps' = dkOps + 1
DkFree == UNCHANGED dkOps
Spoils(why, ts) == dkSpoilt' = dkSpoilt \cup ({why} \X ts)

-----------------------------------------------------------------------------
(***************************************************************************)
(* The definition and its schemes                                          *)
(***************************************************************************)
DkTasksStay == UNCHANGED <<dkAgent, dkFile, dkRun, dkBegun, dkDel, dkWait, dkMade>>

\* The page shows the definition.
DkLoads ==
  /\ dkDef # NoDef /\ dkPage # dkDef /\ dkPage' = dkDef
  /\ UNCHANGED <<dkDef, dkDir, dkTold, dkSpoilt>> /\ DkTasksStay /\ DkFree

\* update_workflow replaces everything by what the page sends, schemes included,
\* whatever others saved since the page was loaded.
Stale == dkPage.schemes # dkDef.schemes
DkSaves ==
  /\ DkOp /\ dkDef # NoDef
  /\ \E ns \in DkShapes : dkDef' = [dkPage EXCEPT !.nodes = ns] /\ dkPage' = dkDef'
  /\ IF Stale THEN Spoils("overwritten", {0}) ELSE UNCHANGED dkSpoilt
  /\ UNCHANGED <<dkDir, dkTold>> /\ DkTasksStay

\* create_workflow needs a directory that is not there.
DkCreates ==
  /\ DkOp /\ ~dkDir /\ dkDir' = TRUE
  /\ \E ns \in DkShapes : dkDef' = [nodes |-> ns, schemes |-> {}] /\ dkPage' = dkDef'
  /\ dkTold' = {} /\ dkSpoilt' = dkSpoilt \ {<<"overwritten", 0>>} /\ DkTasksStay

\* The schemes of the file, one of them changed and saved with the rest as it is.
Changed(schemes) == [dkDef EXCEPT !.schemes = schemes]
DkMakesScheme ==
  /\ DkOp /\ dkDef # NoDef
  /\ \E sel \in DkShapes :
       LET new == <<dkOps + 1, sel>>
       IN /\ sel \subseteq dkDef.nodes /\ Cardinality(dkDef.schemes) < DkMaxSchemes
          /\ dkDef' = Changed(dkDef.schemes \cup {new}) /\ dkTold' = dkTold \cup {new}
  /\ UNCHANGED <<dkDir, dkPage, dkSpoilt>> /\ DkTasksStay
DkChangesScheme ==
  /\ DkOp /\ dkDef # NoDef
  /\ \E s \in dkDef.schemes, sel \in DkShapes :
       LET new == <<s[1], sel>>
       IN /\ new # s /\ sel \subseteq dkDef.nodes /\ dkDef' = Changed((dkDef.schemes \ {s}) \cup {new})
          /\ dkTold' = {x \in dkTold : x[1] # s[1]} \cup {new}
  /\ UNCHANGED <<dkDir, dkPage, dkSpoilt>> /\ DkTasksStay
DkDropsScheme ==
  /\ DkOp /\ dkDef # NoDef
  /\ \E s \in dkDef.schemes : dkDef' = Changed(dkDef.schemes \ {s}) /\ dkTold' = {x \in dkTold : x[1] # s[1]}
  /\ UNCHANGED <<dkDir, dkPage, dkSpoilt>> /\ DkTasksStay

-----------------------------------------------------------------------------
(***************************************************************************)
(* Making a task                                                           *)
(***************************************************************************)
\* What a task is asked for with: everything, a scheme as the page shows it, or nodes.
Everything == [how |-> "all", scheme |-> <<0, {}>>]
DkAsked ==
  {Everything} \cup [how : {"scheme"}, scheme : dkPage.schemes] \cup [how : {"nodes"}, scheme : {0} \X DkShapes]

\* _resolve_disabled_nodes: all but the nodes, or but those of the scheme as it is now;
\* a scheme that is not there disables nothing.
SchemeOf(schemes, asked) == {s \in schemes : asked.how = "scheme" /\ s[1] = asked.scheme[1]}
Bug_Selected(schemes, asked) == IF asked.how = "all" THEN {} ELSE dkDef.nodes \cap asked.scheme[2]
Disabled(schemes, asked) ==
  IF asked.how = "nodes" THEN dkDef.nodes \ asked.scheme[2]
  ELSE IF SchemeOf(schemes, asked) = {} THEN {} ELSE dkDef.nodes \ (CHOOSE s \in SchemeOf(schemes, asked) : TRUE)[2]

\* runtime_guards: the agent a variable names, and its definition as it is now.
Named(who) == IF who = LeftOut THEN DkDefault ELSE who
Frozen(who) == [agent |-> Named(who), at |-> dkAgent[Named(who)]]

\* The event of whoever waits for one of these tasks is set.
Bug_Unheard(ts) == UNCHANGED dkWait
Signal(ts) == dkWait' = IF dkWait.on \in ts THEN [dkWait EXCEPT !.woken = TRUE] ELSE dkWait

DkNewTask(status, main, asked, who) ==
  [status |-> status, nodes |-> dkDef.nodes, off |-> Disabled(dkDef.schemes, asked),
   who |-> who, guard |-> Frozen(who), main |-> main, done |-> {}]
Lowest(S) == {t \in S : \A u \in S : t <= u}
Unmade == {t \in DkTasks : dkMade[t].who = LeftOut}
Meant(asked) == IF asked.how = "all" THEN dkDef.nodes ELSE dkDef.nodes \cap asked.scheme[2]
Makes(t, task, asked) ==
  /\ dkFile' = [dkFile EXCEPT ![t] = task]
  /\ dkMade' = [dkMade EXCEPT ![t] = [nodes |-> Meant(asked), who |-> Named(task.who)]]
  /\ IF asked.how = "scheme" /\ asked.scheme \notin dkDef.schemes THEN Spoils("stale scheme", {t}) ELSE UNCHANGED dkSpoilt
DefinitionStays == UNCHANGED <<dkDef, dkDir, dkPage, dkTold>>

\* create_task: a user starts it later; nodes that are not there are left out.
DkMakesTask ==
  /\ DkOp /\ dkDef # NoDef
  /\ \E t \in Lowest(Unmade), asked \in DkAsked, who \in DkValues :
       Makes(t, DkNewTask("pending", FALSE, asked, who), asked)
  /\ UNCHANGED <<dkAgent, dkRun, dkBegun, dkDel, dkWait>> /\ DefinitionStays

\* create_and_attach_task_for_session: the agent of a session makes it, and owns it; a
\* scheme or nodes that are not there are refused.
AllThere(asked) ==
  CASE asked.how = "all" -> TRUE
    [] asked.how = "scheme" -> SchemeOf(dkDef.schemes, asked) # {}
    [] asked.how = "nodes" -> asked.scheme[2] \subseteq dkDef.nodes
DkAttaches ==
  /\ DkOp /\ dkDef # NoDef
  /\ \E t \in Lowest(Unmade), asked \in DkAsked, who \in DkValues :
       /\ AllThere(asked) /\ Signal({t})
       /\ Makes(t, DkNewTask("pre_running", TRUE, asked, who), asked)
  /\ UNCHANGED <<dkAgent, dkRun, dkBegun, dkDel>> /\ DefinitionStays

\* pre_start_task saves a pending task and makes a session for it; what it has in memory
\* is then the task, whatever happened to the file.
DkPreStarts ==
  /\ DkOp /\ dkDef # NoDef
  /\ \E t \in Lowest(Unmade) :
       LET task == DkNewTask("pending", FALSE, Everything, LeftOut)
       IN Makes(t, task, Everything) /\ dkBegun' = [dkBegun EXCEPT ![t] = task]
  /\ UNCHANGED <<dkAgent, dkRun, dkDel, dkWait>> /\ DefinitionStays
DkPreStarted ==
  /\ \E t \in DkTasks :
       /\ dkBegun[t] # NoTask /\ dkBegun' = [dkBegun EXCEPT ![t] = NoTask]
       /\ \/ /\ dkFile' = [dkFile EXCEPT ![t] = [dkBegun[t] EXCEPT !.status = "pre_running", !.main = TRUE]]
             /\ dkDir' = TRUE /\ DkFree
             /\ IF dkFile[t] # dkBegun[t] THEN Spoils("overwritten", {t}) ELSE UNCHANGED dkSpoilt
          \/ DkOp /\ UNCHANGED <<dkFile, dkDir, dkSpoilt>>
  /\ UNCHANGED <<dkDef, dkPage, dkTold, dkAgent, dkRun, dkDel, dkWait, dkMade>>

-----------------------------------------------------------------------------
(***************************************************************************)
(* Filling, starting and stopping a task                                   *)
(***************************************************************************)
\* update_task_variables replaces all values, so that one may be left out from then on,
\* and set_workflow_variable sets one.  Until the task starts, the agent it is frozen
\* with follows, as it is then defined.  Nobody who waits is woken.
Bug_NotFrozen(task, who) == [task EXCEPT !.who = who]
Filled(task, who) ==
  [task EXCEPT !.who = who, !.guard = IF task.status \in {"pending", "pre_running"} THEN Frozen(who) ELSE @]
DkFills ==
  /\ DkOp
  /\ \E t \in DkTasks, who \in DkValues :
       /\ dkFile[t].status # "none"
       /\ dkFile' = [dkFile EXCEPT ![t] = Filled(dkFile[t], who)]
       /\ IF dkFile[t].status \in {"pending", "pre_running"}
          THEN dkMade' = [dkMade EXCEPT ![t].who = Named(who)] /\ UNCHANGED dkSpoilt
          ELSE Spoils("filled late", {t}) /\ UNCHANGED dkMade
  /\ UNCHANGED <<dkAgent, dkRun, dkBegun, dkDel, dkWait>> /\ DefinitionStays

\* run_task and start_pre_running_task.
HasRunner(t) == dkRun[t] # NotDone
Late == IF dkDel = NoDeletion THEN {} ELSE {"deleted"}
DkLaunches ==
  /\ DkOp
  /\ \E t \in DkTasks :
       /\ dkFile[t].status \in {"pending", "pre_running"} /\ ~HasRunner(t)
       /\ dkFile' = [dkFile EXCEPT ![t].status = "running"]
       /\ dkRun' = [dkRun EXCEPT ![t] = [task |-> dkFile'[t], cancel |-> FALSE]]
       /\ Signal({t}) /\ dkSpoilt' = dkSpoilt \cup (Late \X {t})
  /\ UNCHANGED <<dkAgent, dkBegun, dkDel, dkMade>> /\ DefinitionStays

\* stop_task: a runner is cancelled; without one the task on disk is.  One that was
\* never started is thrown away, without a signal.
StoppedIdle(t) ==
  CASE dkFile[t].status = "pending" -> NoTask
    [] dkFile[t].status \in {"pre_running", "running"} -> [dkFile[t] EXCEPT !.status = "stopped"]
    [] OTHER -> dkFile[t]
DkStops ==
  /\ DkOp
  /\ \E t \in DkTasks :
       \/ HasRunner(t) /\ ~dkRun[t].cancel /\ dkRun' = [dkRun EXCEPT ![t].cancel = TRUE] /\ UNCHANGED <<dkFile, dkWait>>
       \/ /\ ~HasRunner(t) /\ dkFile[t].status \in {"pending", "pre_running", "running"}
          /\ dkFile' = [dkFile EXCEPT ![t] = StoppedIdle(t)]
          /\ Signal(IF dkFile[t].status = "pending" THEN {} ELSE {t}) /\ UNCHANGED dkRun
  /\ UNCHANGED <<dkAgent, dkBegun, dkDel, dkMade, dkSpoilt>> /\ DefinitionStays

-----------------------------------------------------------------------------
(***************************************************************************)
(* A task's runner, and the deletion of its workflow                       *)
(***************************************************************************)
\* A checkpoint writes what the runner has in memory, and makes the directory anew.
Writes(t, task) ==
  /\ dkFile' = [dkFile EXCEPT ![t] = task] /\ dkDir' = TRUE /\ Signal({t})
Bug_AsNow(t) == dkDef.nodes \ dkRun[t].task.off
Executable(t) == dkRun[t].task.nodes \ dkRun[t].task.off

\* An agent node starts only as the agent the task was frozen with.
SameAgent(task) == task.guard = Frozen(task.who)
DkNode ==
  /\ \E t \in DkTasks : \E n \in Executable(t) \ dkRun[t].task.done :
       LET task == dkRun[t].task
           next == IF n = DkAgentNode /\ ~SameAgent(task) THEN [task EXCEPT !.status = "failed"] ELSE [task EXCEPT !.done = @ \cup {n}]
       IN /\ HasRunner(t) /\ ~dkRun[t].cancel /\ Writes(t, next)
          /\ dkRun' = [dkRun EXCEPT ![t] = IF next.status = "failed" THEN NotDone ELSE [@ EXCEPT !.task = next]]
  /\ UNCHANGED <<dkDef, dkPage, dkTold, dkAgent, dkBegun, dkDel, dkMade, dkSpoilt>> /\ DkFree

\* _persist_execution_result signals the end even when it could not be saved.
DkEnds ==
  /\ \E t \in DkTasks :
       /\ HasRunner(t) /\ ~dkRun[t].cancel /\ Executable(t) \subseteq dkRun[t].task.done
       /\ dkRun' = [dkRun EXCEPT ![t] = NotDone]
       /\ \/ Writes(t, [dkRun[t].task EXCEPT !.status = "completed"]) /\ UNCHANGED dkSpoilt /\ DkFree
          \/ DkOp /\ Signal({t}) /\ Spoils("unsaved", {t}) /\ UNCHANGED <<dkFile, dkDir>>
  /\ UNCHANGED <<dkDef, dkPage, dkTold, dkAgent, dkBegun, dkDel, dkMade>>
DkCancelled ==
  /\ \E t \in DkTasks :
       /\ dkRun[t].cancel /\ Writes(t, [dkRun[t].task EXCEPT !.status = "stopped"])
       /\ dkRun' = [dkRun EXCEPT ![t] = NotDone]
  /\ UNCHANGED <<dkDef, dkPage, dkTold, dkAgent, dkBegun, dkDel, dkMade, dkSpoilt>> /\ DkFree

\* Somebody changes the definition of an agent.
DkAgentChanges ==
  /\ DkOp /\ \E a \in DkAgents : dkAgent' = [dkAgent EXCEPT ![a] = @ + 1]
  /\ UNCHANGED <<dkFile, dkRun, dkBegun, dkDel, dkWait, dkMade, dkSpoilt>> /\ DefinitionStays

\* delete_workflow stops the active tasks one after the other, waiting for those that
\* have a runner, and then removes the directory.  Bound: one deletion at a time.
Bug_NoneToAwait(ts) == {}
ToAwait(ts) == {t \in ts : dkFile[t].status = "running" /\ HasRunner(t)}
DkStopsOne(ts) ==
  \E on \in Lowest(ToAwait(ts)) :
    LET idle == {t \in ts : t < on /\ dkFile[t].status = "running"}
    IN /\ Signal(idle) /\ dkFile' = [t \in DkTasks |-> IF t \in idle THEN StoppedIdle(t) ELSE dkFile[t]]
       /\ dkRun' = [dkRun EXCEPT ![on].cancel = TRUE] /\ dkDel' = [on |-> on, left |-> {t \in ts : t > on}]
       /\ UNCHANGED <<dkDef, dkDir, dkTold, dkSpoilt>>
DkRemoves(ts) ==
  /\ ToAwait(ts) = {} /\ Signal({t \in ts : dkFile[t].status = "running"})
  /\ dkFile' = [t \in DkTasks |-> NoTask] /\ dkDef' = NoDef /\ dkDir' = FALSE /\ dkDel' = NoDeletion /\ dkTold' = {}
  /\ Spoils("deleted", {t \in DkTasks : dkBegun[t] # NoTask}) /\ UNCHANGED dkRun
Deletes(ts) == DkStopsOne(ts) \/ DkRemoves(ts)
DkDeletes ==
  /\ \/ DkOp /\ dkDir /\ dkDel = NoDeletion /\ Deletes({t \in DkTasks : dkFile[t].status # "none"})
     \/ dkDel # NoDeletion /\ ~HasRunner(dkDel.on) /\ Deletes(dkDel.left) /\ DkFree
  /\ UNCHANGED <<dkPage, dkAgent, dkBegun, dkMade>>

-----------------------------------------------------------------------------
(***************************************************************************)
(* The agent that waits for its task                                       *)
(***************************************************************************)
\* _wait_for_task_snapshot: of a task of its own that neither ended nor needs it, the
\* agent awaits the next change; there is nothing between the reading and the waiting.
NeedsNobody(t) == dkFile[t].main /\ dkFile[t].status = "running"
DkWaitOnly ==
  /\ UNCHANGED <<dkAgent, dkFile, dkRun, dkBegun, dkDel, dkMade, dkSpoilt>> /\ DefinitionStays /\ DkFree
DkWaits ==
  /\ dkWait = NobodyWaits
  /\ \E t \in DkTasks : NeedsNobody(t) /\ dkWait' = [on |-> t, woken |-> FALSE]
  /\ DkWaitOnly

\* Once woken it reads the task again, and waits on unless any change would do or the
\* task is over, needs it or is gone.
DkReads ==
  /\ dkWait.woken
  /\ \/ dkWait' = NobodyWaits
     \/ NeedsNobody(dkWait.on) /\ dkWait' = [dkWait EXCEPT !.woken = FALSE]
  /\ DkWaitOnly
DkTimesOut ==
  /\ dkWait # NobodyWaits /\ ~dkWait.woken /\ dkWait' = NobodyWaits /\ DkWaitOnly

DkNext ==
  \/ DkLoads \/ DkSaves \/ DkCreates \/ DkMakesScheme \/ DkChangesScheme \/ DkDropsScheme
  \/ DkMakesTask \/ DkAttaches \/ DkPreStarts \/ DkPreStarted \/ DkFills \/ DkLaunches \/ DkStops
  \/ DkNode \/ DkEnds \/ DkCancelled \/ DkAgentChanges \/ DkDeletes \/ DkWaits \/ DkReads \/ DkTimesOut

-----------------------------------------------------------------------------
(***************************************************************************)
(* Properties                                                              *)
(***************************************************************************)
DkTypeOK ==
  /\ dkDir \in BOOLEAN /\ dkDef.nodes \subseteq UNION DkShapes /\ dkWait.on \in DkTasks \cup {0}
  /\ \A t \in DkTasks :
       /\ dkFile[t].status \in {"none", "pending", "pre_running", "running", "completed", "failed", "stopped"}
       /\ dkFile[t].off \subseteq dkFile[t].nodes /\ dkRun[t].cancel \in BOOLEAN

Fine(t, why) == \A w \in why : <<w, t>> \notin dkSpoilt

\* manager.py: a scheme is as users were told, until a page that did not show it saves.
SchemesKept == Fine(0, {"overwritten"}) => dkDef.schemes = dkTold

\* A task that completed executed what its maker saw selected, whatever became of the
\* workflow and its schemes since, if the scheme was still as its maker saw it.
RunsAsMade ==
  \A t \in DkTasks :
    dkFile[t].status = "completed" /\ Fine(t, {"stale scheme"}) => dkFile[t].done = dkMade[t].nodes

\* runtime_guards.py: a task is frozen with the agent users were told its variable names,
\* and fails only when somebody changed that agent's definition since.
GuardFits ==
  \A t \in DkTasks :
    dkFile[t].status # "none" /\ Fine(t, {"overwritten", "filled late"}) =>
      /\ dkFile[t].guard.agent = dkMade[t].who /\ Named(dkFile[t].who) = dkMade[t].who
      /\ dkFile[t].status = "failed" => dkAgent[dkFile[t].guard.agent] > dkFile[t].guard.at

\* tools.py: a task somebody waits for still runs, and its runner will say so when it
\* ends, unless its end could not be saved; else whoever waits was woken.
WaitersHear ==
  dkWait # NobodyWaits /\ ~dkWait.woken /\ Fine(dkWait.on, {"overwritten", "unsaved", "deleted"}) =>
    NeedsNobody(dkWait.on) /\ HasRunner(dkWait.on)

\* A deleted workflow leaves no task behind, but for one that was being made or that was
\* started while the deletion waited.
DeletedIsGone ==
  dkDef = NoDef => \A t \in DkTasks : Fine(t, {"deleted", "overwritten"}) => dkFile[t] = NoTask /\ ~HasRunner(t)

DeskKept == SchemesKept /\ RunsAsMade /\ GuardFits /\ WaitersHear /\ DeletedIsGone
===============================================================================
