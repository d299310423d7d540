# DeterminFlow: a verification project for the workflow runtime

DeterminFlow (`src/`) runs *workflow tasks*: frozen plans of nodes (agents,
scripts, sub-workflows, approvals) whose state is checkpointed in one JSON file
per task.  Tasks can be retried, skipped, stopped and deleted while they run,
nodes retry themselves on a timer, branches run concurrently, tasks move between
executor processes, and any process may die at any moment.  Around the engine
stand agent sessions, their context and their tools, an event stream to the
browser, plugins, extensions, cron jobs and layered configuration.

This directory models that system in TLA+, checks it with TLC on small
instances, and proves the safety of the workflow runtime (the task, the
executors, loops, sequences with rejection), of what agents do (sessions, tools,
agent nodes) and of several services with TLAPS for every plan, pool and bound.

Contents: 1 inventory, 2 modules and how they correspond to the code, 3 runs,
bounds and fairness, 4 findings, 5 proofs, 6 what the models leave out, 7 plan.

## 1. Inventory

Paths are under `src/src/`.  `PROJECT.json` has the same list with the status of
every part.

| Part | State | Operations | Talks to | Modelled in |
|---|---|---|---|---|
| `workflow/failure_policy.py` | none (pure) | begin an attempt, decide retry / skip / fail, prepare and activate a retry | engine, recovery | `FailurePolicy` |
| `workflow/manager.py`, `engine.py`, `execution_flow.py`, `task_recovery.py`, `nodes/approval.py` | one file per task, `_running_tasks`, `_retry_timers`, control locks | run, retry, skip, stop, delete, approve; timer, recovery, shutdown | plugins, task files | `WorkflowTask`, `TaskLifecycle` |
| `execution_flow.py`: rejection and rework | counters in the node states | `reject_upstream`, rework, roll-back of a rejected approval | engine | `NodeSequence` |
| `execution_loop.py`, condition gateways | the frozen branch, list and cursor in `control_flow_state` | choose, open and record iterations, resume | engine | `LoopCursor` |
| `executor_*.py`, `execution_routing.py` | the pool's record, leases, generations | start, watch and replace members, route operations, hand tasks over, shut down | task files, operating system | `ExecutorPool` |
| `definition.py`, the walk through a plan | the plan (pure) | pair gateways, validate, plan, walk | engine | `WorkflowPlan`, `Drawings` |
| `nodes/agent.py`, `nodes/subprocess.py` | registries of approvals; the children's states | attempts, approval and correction; a child's walk | sessions, engine | `AgentNode`, `Subprocess` |
| `manager.py`, `main_task_creation.py`, `runtime_guards.py`, `tools.py`, `web/workflow_routes.py` | definitions, schemes, tasks | edit, create, attach, fill, start, wait, delete | engine, agents, users | `TaskDesk` |
| `agent/session*.py` | messages, turns, retry token, file, registry, cache | send, stop, retry, edit, flush; evict, load, kill, delete | graph, bus, engine | `AgentSession`, `SessionStore` |
| `compression/`, `core/graph_builder.py`, `core/utils.py` | `lc_messages` | compact, trim, repair, request, retry | providers | `ModelContext` |
| `web/event_bus.py`, `ws_handlers.py`, the client's reducer | revisions, drafts, bounded queues | emit, snapshot, resynchronise | sessions | `EventStream` |
| `roundtable/` | meeting, queue, seats | speak, decide, intervene, pause, stop | sessions | `Roundtable` |
| `extension_host/`, `plugin_system/` | states of extensions, owned processes; lock file, checkouts, settings | start, degrade, stop; install, update, roll back, uninstall | tools, configuration | `ExtensionHost`, `PluginStore` |
| `extension_host/resources.py`, `agent/config_manager.py` | layers of definitions | load, edit, reload, plugin comes and goes | extensions, users | `LayeredConfig` |
| `skills/`, `rules/` | directories, tables, configuration | create, flag, group, reload | users, agents' tools | `Catalog` |
| `tools/registry.py`, `mcp/client.py` | tools, owners, groups | register, connect, call, group | extensions, sessions | `ToolRegistry` |
| `tools/coding_tools.py`, `core/approval_manager.py` | files, pending approvals | read, edit, write, run commands | sessions, users | `CodingTools` |
| `core/model_manager.py`, `llm_client.py` | providers, caches, clients | edit, resolve defaults, call and retry | sessions, providers | `Models` |
| `cron/` | one file of jobs | tick, run, pause, reschedule | sessions | `CronJobs` |
| `workflow/execution_control.py`, content safety, prompt assembly, plugin resources, extension API, most of the frontend | | | | not modelled (section 6) |

What is hard: all operations on a task are coroutines of one event loop that
interleave at every `await`; a file is replaced while other coroutines hold
older objects; a cancelled runner may not be the only one working; a process
can die between two saves that belong together; clients act on what they saw a
moment ago; configuration is changed in memory by several parties and saved
whole by each.  `PROJECT.json` lists each such place under `hazards`, with the
properties that catch it going wrong.

What makes the parts correct:

* *failure policy*: budgets are respected, an attempt is counted once;
* *task runtime*: a checkpoint is final, an execution is never uncounted, a
  waiting retry is never lost, a failed task can be repaired, a task that ended
  stays ended, one observed failure is acted on once, everything settles;
* *sequence and loops*: rejection sends work back to where it can be redone and
  is seen again; a resume returns to the right branch and iteration;
* *executors*: a task has one owner, its orphaned scripts are reaped before it
  is executed again, and no save is based on a stale load;
* *services*: what a user decided, was shown or was told holds through
  restarts, reloads, partial failures and everybody else's edits.

## 2. Modules

| Module | Models |
|---|---|
| `FailurePolicy` | the pure transitions of one node state, and recovery's view of it |
| `WorkflowTask` | one task in one process: file, launches, branch tasks, timer, requests, stop / delete, crash, graceful restart, recovery |
| `TaskLifecycle` | the abstract specification: what a client may rely on about status and settled nodes; `WorkflowTask` implements it |
| `NodeSequence` | one sequence of nodes with `reject_upstream`, rework and roll-back |
| `LoopCursor` | frozen control flow: the branch of a condition gateway, the cursor of a loop |
| `ExecutorPool` | executor processes, leases, routing, hand-over |
| `WorkflowPlan`, `Drawings` | from a drawing to the plan and the walk; the six shapes TLC draws |
| `AgentNode`, `Subprocess` | the two plugins with a protocol of their own |
| `TaskDesk` | definitions and tasks under users, agents and running tasks |
| `AgentSession`, `SessionStore`, `ModelContext`, `EventStream`, `Roundtable`, `ExtensionHost`, `PluginStore`, `LayeredConfig`, `Catalog`, `ToolRegistry`, `CodingTools`, `Models`, `CronJobs` | the services, one each (section 1) |
| `MCWorkflowTask`, `MCNodeSequence` | plans for TLC |
| `MCTasks`, `MCRunners`, `MCServices` | several components side by side (below) |
| `FailurePolicyProofs` | lemmas about every policy transition |
| `WorkflowTaskSafety`, `WorkflowTaskOutcome` | proofs about `WorkflowTask` |
| `LoopSafety`, `SequenceSafety`, `PoolSafety` | proofs about `LoopCursor`, `NodeSequence`, `ExecutorPool` |
| `AgentSafety` | proofs about `CodingTools`, `AgentSession`, `AgentNode`, `Roundtable`, `EventStream` |
| `ServicesSafety` | proofs about `TaskDesk`, `Subprocess`, `LayeredConfig`, `Catalog`, `ToolRegistry`, `ExtensionHost`, `CronJobs` |

How they compose.  `WorkflowTask`, `NodeSequence` and `LoopCursor` share the node
states of `FailurePolicy` and cut the same runtime along its three difficulties:
who works on the task, where a rejection sends the work back to, how a resume
finds its place again.  `ExecutorPool` asks who may run a task at all and
reduces a task to its status and a counter of checkpoints; `WorkflowPlan` asks
what is executed when nothing fails.  The variables and actions of each service
carry a prefix (`Ev`, `Pl`, `St`...), so that one module can extend many.

`MCTasks`, `MCRunners` and `MCServices` put components side by side: the first
state chooses one of `Parts`, every step belongs to that part and leaves the
others unchanged.  The state space is the disjoint union of the parts', each
property speaks of its own part and holds trivially in the others, and TLC pays
for one run.

### WorkflowTask and the code

| Variable | In the code |
|---|---|
| `file`, `disk` | `tasks/<id>.json`; after a deletion `disk` keeps the last content, `file` is FALSE |
| `run`, `mem` | the `WorkflowTask` object each `run_task` loads; branch tasks keep the object of their launch |
| `runner`, `stage` | the coroutine in `_running_tasks` and the step of the plan it is at |
| `worker` | the branch tasks of `_execute_parallel_branches`; a serial step is a branch of one node that runs in the runner |
| `swallowed` | a `CancelledError` that the `as_completed` loop took for the result of a branch |
| `timer` | an entry of `_retry_timers` |
| `lock` | `_task_control_lock`, where it is held across an `await` |
| `request` | retry and skip calls on their way, each with its `expected_attempt_count` |
| `execs`, `allowance`, `accepted`, `acts` | history, read by properties only |
| `mishap` | history: what befell the latest launch outside its nodes: nothing, a refusal, a failure of the coroutine or of the plan's walk |

| Actions | In the code |
|---|---|
| `RunTask`, `HandOff`, `StartRunner`, `FinishStage`, `Merge`, `Persist`, `Release` | `run_task`, `_run_task_coroutine`, `execute_task`, `_execute_plan_segment`, `_merge_branch_summaries`, `_persist_execution_result`, `_release_terminal_task_sessions` |
| `Refused` | `run_task` returns at `main_takeover_unavailable` (`manager.py:654`) after a retry, a skip, the timer or recovery has saved `resume_pending` |
| `StartFails`, `PlanFails` | the exceptions caught outside the nodes: `_run_task_coroutine` (`manager.py:945-967`) and `execute_task` (`engine.py:246-249`) fail the task |
| `StartNode`, `Blocked`, `FinishBranch`, `NodeSucceeds`, `NodeFails` | `_execute_node_sequence`, `_execute_node`, `_apply_failed_node_policy` |
| `AwaitApproval`, `Approve`, `Reject`, `ApprovalFails` | `nodes/approval.py`, `resolve_approval` |
| `TimerActivates` | `_retry_timer_worker`, `_activate_due_retries` |
| `SendRequest`, `RetryNode`, `SkipNode`, `RejectRequest` | `retry_node`, `skip_node`, `_validate_node_control` |
| `StopTask`, `StopReturns`, `StopIdleTask` | `stop_task` |
| `DeleteTask`, `DeleteReturns`, `DeleteIdleTask` | `_delete_task_for_main_session` |
| `Shutdown`, `ShutdownIdle`, `Crash`, `Restart` | `shutdown_running_tasks`, the death of the process, `recover_workflow_tasks` |

A step is what runs between two suspension points, together with the save that
ends it.  The code builds the snapshot of a save on the event loop and replaces
the file atomically, so a crash during a save is a crash before the step.  Where
a write may fail or be cut short (`TaskDesk`, `PluginStore`, `CronJobs`,
`Catalog`, `LayeredConfig`, `SessionStore`, `CodingTools`) that is an action of
its own.

### NodeSequence, LoopCursor and the code

In `NodeSequence`, `sqTask` is the file and `sqMem` is `task.node_states` of the
runner; they differ between `RejectUpstream`, which changes memory only, and
`EndsRejecting`.  `SqRestart` is recovery: a task is resumed when nothing in it has failed or waits, or
when a pending node asks for it; a retry that a rejection made pending is no such
request (`task_recovery.py:36-40`), and the task settles
as failed when a node has failed and nothing else asks for it (`task_recovery.py:723-738`).  `sqPos` is the index `i` of the loop, `sqTarget` is
`rejected_upstream_id`, and `sqCtl` says at which `await` of
`_execute_node_sequence` the runner is: `exec` / `wait` (the plugin of the
current node), `reissue` (the rejected node was saved as pending), `rework` /
`reworkWait` (its plugin), `skipDown` (between the two saves of a skipped
rework).  `SiblingSaves` is a parallel branch of the same task saving the shared
object meanwhile.

In `LoopCursor`, `lpDisk` and `lpMem` hold the node states and what
`control_flow_state` keeps: `choice` (`selected_target`), `items` (length of the
frozen list), `phase`, `active` (`active_index`, `active_iteration`), `next`;
`hist` is `iteration_history`.  `lpGiven` is the part of the definition snapshot
that matters: which kind of loop, and how long its list is.

### ExecutorPool and the code

A process is its epoch: `proc`, `home`, `todo`, `script` and `timers` are its
life, its member, the tasks it was asked to recover, the node scripts it started
and its retry timers.  `lease` is the lease file of a member, `status`, `stage`,
`child` and `client` are what its supervisor knows, `mode`, `phase`, `pool` and
`recorded` what the Controller knows and has written down.  `file` is the task
file with `own` / `ep` (`executor_id`, `executor_epoch`), `runs` the executions
of a task, each with the image of the file it works on.

### The services

Each module says in its header which files it models, what a step is and what it
leaves out; the `map` of `PROJECT.json` leads from every definition to its
lines.  The steps are again what runs between two suspension points, or, where
threads are used (`CodingTools`, `Catalog`, `PluginStore`), between two accesses
to what is shared.

## 3. Runs

| Run | Question | Shows |
|---|---|---|
| `task_serial` (`MCTasks`) | Is a task safe under every interleaving of all operations? | attempts are counted before they happen, budgets hold, checkpoints are final, an ended task stays ended, one failure is acted on once (serial plan and gateway); an agent's report decides its attempt, a sub-workflow continues one walk, a plan is what was drawn, the desk keeps what it promised |
| `task_parallel` (`MCWorkflowTask`) | Do sibling branches disturb each other, and does everything come to an end? | no waiting retry is lost, failed is repairable, the runner and the file agree, the task refines `TaskLifecycle`, every task settles, every accepted request is carried out; what refusals and failures outside the nodes do to this is said below |
| `executors` (`MCRunners`) | Who owns a task, and where does its control flow stand? | one owner, reaped scripts, no stale save; cursor and history exact, nothing repeated in an iteration; rejections bounded, seen again and repairable, nothing overtakes failed rework; each part goes on |
| `services` (`MCServices`) | Does each service keep its promises through restarts, failures and concurrent edits? | one invariant or action property per service |
| `task_deleted`, `task_shutdown`, `seq_rework_crash`, `seq_rollback`, `cron_once`, `agent_rework`, `plan_bypass`, `rule_created` | one property each, which fails | findings 1 to 8 |

The properties of the services, in a line each:

| Property | Says |
|---|---|
| `AgentDecided` | an attempt of an agent node ends by its own report and, when taken over, by a person's answer to that attempt |
| `SubprocessKept` | until a loop resets it a sub-workflow is one walk over one frozen definition; what completed is not executed again |
| `PlanAsDrawn` | every node the conditions choose is executed as often as its loop says, never before one that leads to it |
| `DeskKept` | schemes are as told, a task runs the plan it was made from, guards fit, waiters hear, what was deleted is gone |
| `SessionKept` | a turn that started a tool is never offered for retry; a session that is not dirty is on disk as it is |
| `StoreKept` | eviction and loading lose no turn and bring back nothing deleted |
| `ContextSound` | what is sent pairs calls with results, contains no message beside the summary that replaced it, and asks the question |
| `EvShowsTruth` | a client that has read everything shows the draft or the record as it is, and nothing twice |
| `MeetingInOrder` | a round skips no seat; what was shown is in the transcript; both as long as the meeting had one runner at a time |
| `ExHostOrderly` | an extension that does not run has left nothing behind; one that runs has its foundation |
| `PluginsKept` | a start finds what the lock names, no revision is lost, what will be removed is off, secrets stay secret |
| `CronKept` | every execution is counted; whatever users ask for, the loop runs once what is for one time and keeps an interval; a job runs as often as it repeats and was wanted again |
| `DecisionsKept`, `CatalogKept` | a decision about an agent, skill or rule survives reloads, restarts and edits of others |
| `ToolsKept` | a tool's owner is up when it runs; groups are as the user was told |
| `CodingKept` | an edit that succeeded is in the file; a command runs when its person said so |
| `ModelsKept` | providers are as told, an answer is whole, clients fit their provider |

Four of them are stated up to what befell the latest launch (`mishap`), because
the code gives no more.  A launch that `run_task` refuses leaves the task
`resume_pending` until a client starts it or the process starts again: `Settles`
calls that *parked*, and `NoLostRetry` and `AcceptedIsHonoured` ask nothing while
it lasts.  An exception outside the nodes fails the task, possibly with no failed
node, in which case retry and skip have nothing to take hold of:
`FailedIsRepairable` then asks only that no node is left mid-attempt.  The next
launch clears the history, and everything is asked again.

`CronKept` counts by itself what a user may change: runs by hand are counted
apart from those of the loop (`crExecs`), and `crAgain` counts how often a job was
run, resumed or enabled when it had used up its repeats.  Pausing, scheduling
again, enabling and resuming exempt a job from nothing.

`MeetingInOrder` ends at the second runner of a meeting: `start` refuses only
what is discussed or ended (`runner.py:971-985`), so a paused meeting, or a waiting
one started twice, gets a runner beside the one it has.  The model has both
(`RtMaxRunners`); with two of them TLC finds rounds that skip a seat and drafts
that are lost, since they share the index and `active_turn`.

### Bounds

| Bound | Value | Why it is enough |
|---|---|---|
| nodes | 2 serial; 4 around a gateway; 3 in a sequence; 5 around a loop | a retrying and a skipping node, an approval, a sibling, a successor: each policy meets each other one |
| `MaxRuns` | 5 serial, 6 with a gateway | initial run, one automatic retry, an accepted request, one resume per exit; any of them may be refused or fail |
| `MaxExits` | 2 serial, 1 with a gateway | a second crash can hit the recovery of the first |
| `MaxRequests` | 2 serial, 1 with a gateway | two are needed for two clients to race on one failure |
| automatic retries | 1 for one node, 0 for the others | the counter is used, exhausted, and reset by manual retries |
| `MaxReject` | 1 per target | both targets are rejected in one behaviour |
| `MAX_LOOP_ITERATIONS` | 2 | lists of 0, 1, 2 (the limit) and 3 items |
| pool | 2 members, 1 task, 4 epochs, 2 faults in all (death, exit, lost call) | a member is replaced while another lives, a restart changes the mode or the pool, a fault hits the repair of the first |
| agent and sub-workflow | 2 attempts with a rework and an exit; 4 attempts, 2 exits, an edit, a failed save | an agent left behind by a time-out meets its successor |
| drawings | 6 shapes with their variants, loops of 0 and 2 | a gateway in a branch, in a loop, an empty branch |
| desk | 2 tasks, 4 operations | a deletion beside a creation beside a start |
| meeting | `RtMaxRunners` 2, `RtMaxMishaps` 1 (a crash, a shutdown, a failing stream or runner, a second start) | a second runner beside the first; one mishap hits every state of a round |
| cron jobs | `CrMaxRequests` 3 | a job is made, run by hand and resumed |
| services | 2 to 4 of each thing, 2 to 4 requests, 1 to 3 mishaps | two parties overlap on one thing while a third thing must stay as it is |

Every bound is a constant of the configuration; the theorems of section 5 need
none of their values.  All passing runs say `CHECK_DEADLOCK FALSE`: a task that
has ended, or a service whose requests are used up, really does nothing more.

### Fairness

`FairSpec` of `WorkflowTask` and the `Sq` / `Lp` counterparts are weak fairness
of what the process does by itself.  The event loop runs every ready callback;
plugins return (subprocesses and model calls have timeouts); an approval fails
after 24 hours; the timer is an `asyncio.sleep`; a dead process is started again
by the desktop shell or the service manager.  `ExecutorPool` has one condition
for the Controller and one per process, because they are scheduled by the
operating system and one of them must not starve another.  People's decisions
and crashes are never fair, and the number of crashes is bounded.  No fairness is
assumed in `task_serial` and `services`, which check safety only.

## 4. Findings

Each is a run that TLC finds violated; `PROJECT.json` quotes the lines it
contradicts.

1. `task_deleted`: cancelling a runner inside a parallel gateway is taken for
   the failure of one branch; another branch may go on and write a deleted task
   file again.
2. `task_shutdown`: a graceful restart saves running tasks as `stopped`, which
   nothing resumes.
3. `seq_rework_crash`: a crash while rejected work is redone lets the task
   complete without the node that rejected ever seeing the new result, because
   that node is saved as completed until the rework is over.
4. `seq_rollback`: rejecting an approval in the middle of a sequence marks the
   node before it as running, a status at which the same loop gives up; the
   failed task has no node to retry.
5. `cron_once`: an overdue periodic job stores a `datetime` that JSON cannot
   save; the tick is lost, and a job for one time runs again at every tick.
6. `agent_rework`: after a person rejects an agent's report the second report is
   ignored; the node waits until it times out.
7. `plan_bypass`: a condition with a node on one branch only takes the end for
   the place where the branches meet; the node behind both is never executed.
8. `rule_created`: an agent's tool that creates a rule deletes the configuration
   of all other rules.

## 5. Proofs

Checked by TLAPS without any unproved leaf.  The assumptions are those of the
modules: `PolicyAssumption` (retry budgets are numbers), `PlanAssumption` (the
plan is a sequence of steps; one that is no gateway runs one node; approvals
start their sequence), `BoundAssumption`, `LoopAssumption` (branches, body and
exit are disjoint, a body is not empty), `SequenceAssumption` (a sequence has no
node twice, a node is no target of itself, approvals reject nobody),
`PoolAssumption` (pools are non-empty sets of members).  Each is what validation
or the constructor in the code establishes; plans, pools, budgets and bounds are
otherwise arbitrary.  `CgAssumption` (every call has a kind and the passages it
looks for), `AnAssumption` (a number of attempts), `DkAssumption` and
`LyAssumption` (what releases and decisions give an item is a value) only give the
constants their shape.  `TgAssumption` says that owners have different names (a
server's begins with `mcp:`), that an extension brings the same group in every run,
and that a file of groups is one such runs wrote.  `ExAssumption` says that
extensions are numbered in the load order, so that each depends on earlier ones only.
`CrAssumption` says that jobs have positive numbers, in the order of the file, and
each has a kind, a period of at least a minute and a number of repeats (0 for no limit).

| Theorem | Module | States, for every value of the constants |
|---|---|---|
| `TypeCorrect` | `WorkflowTaskSafety` | `TypeOK` |
| `UncancelledSafety`, `SerialSafety` | | `AttemptsAccounted`, `RetryBudgetHolds` |
| `UncancelledFinality`, `SerialFinality` | | `DoneIsFinal` |
| `UncancelledOnce`, `SerialOnce` | | `OneActionPerFailure` |
| `UncancelledRetries`, `SerialRetries` | `WorkflowTaskOutcome` | `NoLostRetry` |
| `UncancelledRepair`, `SerialRepair` | | `FailedIsRepairable` |
| `UncancelledCheckpoints`, `SerialCheckpoints` | | `Checkpointed` |
| `SerialEnded` | | `EndedStaysEnded` |
| `UncancelledTimer`, `SerialTimer` | | a timer is armed only for a retry that waits |
| `UncancelledRefinement`, `SerialRefinement` | | `WorkflowTask` implements `TaskLifecycle` |
| `LoopTypes`, `LoopIsExact`, `LoopOnce` | `LoopSafety` | `LoopTypeOK`, `LoopExact`, `OncePerIteration` |
| `SeqTypes`, `SequenceIsSound`, `SequenceInOrder` | `SequenceSafety` | `SeqTypeOK`, `SequenceSound`, `OrderKept` |
| `PoolTyped`, `PoolOwners`, `PoolScripts`, `PoolProgress` | `PoolSafety` | `PoolTypeOK`, `OneOwner`, `ScriptsReaped`, `ProgressKept` |
| `CodingSafe`, `SessionSafe`, `AgentNodeSafe` | `AgentSafety` | `CodingKept`, `SessionKept`, `AgentDecided` |
| `MeetingSafe`, `StreamSafe` | | `MeetingInOrder`, `EvShowsTruth` |
| `DeskSafe`, `SubprocessSafe` | `ServicesSafety` | `DeskKept`, `SubprocessKept` |
| `DecisionsSafe`, `CatalogSafe`, `ToolsSafe` | | `DecisionsKept`, `CatalogKept`, `ToolsKept` |
| `HostSafe`, `CronSafe` | | `ExHostOrderly`, `CronKept` |

The theorems about `WorkflowTask` come in two forms.  `Uncancelled...` is about
`UncancelledSpec`: every plan, gateways included, with crashes, recovery,
retries, skips, approvals.  `Serial...` is about the full `Spec`, with stop,
delete and graceful restart, for plans without gateways.  With both, finding 1
makes `Checkpointed` false.

The arguments, from the bottom up:

* **`FailurePolicyProofs`**: what each transition of `FailurePolicy` does to
  status, counters and budget.
* **`TypeInv`** (`WorkflowTaskSafety`): `TypeOK` alone is not inductive, since a
  stage is entered with the object of launch `run`; `Launched` adds that while a
  runner exists there is a launch.
* **`SafeInv`** (`WorkflowTaskSafety`): *Control*: only the current runner's
  branch tasks are active, each in the current step; the runner's object and
  the file agree on all nodes; both say `running` where later steps rely on it.
  *Attended*: a node is mid-attempt on disk exactly if a branch task is at it,
  or the process died in it, or the task ended; recovery charges an attempt to
  every node it finds running.  *Ledger*: executions so far + automatic retries
  left + the attempt already owed never exceed the allowance (without the second
  term a scheduled retry has used its budget and is not executed yet), and every
  accepted request named an attempt that is over.
* **`OutInv`** (`WorkflowTaskOutcome`) adds what the *results* in flight say of
  the nodes: nodes are reached in the order of the plan; the result of a branch
  and the verdict of the runner are true of the nodes they are about; during a
  hand-off, a stop and a deletion, memory, file and request fit each other.
  With it `retry_waiting` is the verdict exactly if some node waits, and `failed`
  that of a task with a failed node or of one whose latest launch failed outside
  its nodes (`Verified`).  `Handed`: what is `resume_pending` is being handed to
  a runner, or was refused one.
* **Refinement**: the initial state maps to an initial one, and each action of
  `WorkflowTask` to one of `TaskLifecycle` or to a stutter, one lemma per
  action from `SafeInv` and `OutInv`.
* **`LoopInv`** (`LoopSafety`): the history is the sequence of iterations up to
  a frontier, the open iteration is the frontier, the frozen list bounds both; a
  node is settled in an iteration exactly if that lies before the frontier or is
  open with the node done on disk; and a ledger as above for each iteration.
* **`SeqInv`** (`SequenceSafety`): the runner's memory is the file, except for
  an accepted, unsaved rejection, which touches the states of two nodes; for
  each node a ledger of executions, allowances and rejections; a node that is
  running in the file is the one the runner is at or one a roll-back left; what
  precedes the current node is answered or being reworked.
* **`PoolInv`** (`PoolSafety`): who has work is the process its member's client
  calls and holds the lease; the Controller owns a task by holding every lease
  (inline) or by its name in the file (process mode); a file changes hands only
  when nobody works on it; the scripts of a dead process are reaped before
  the task has another owner.

* **`CgInv`** (`AgentSafety`): what an edit puts into the file is what it read
  until it closes the file, so a text reported as done is in the file, was
  written over, or is held by a writer that has opened it; of each approval the
  status, the pool, the event, the card and the two sets of histories determine
  each other, from the question to the command.
* **`AsInv`**: a session without unsaved changes has its state in the file, or
  in the snapshot being written while one is.  Of the retry token it says more
  than `SessionKept`: it is switched off, and saved so, before the graph runs
  again; while a turn runs no retryable token in the file or on its way there
  names it; and a tool it started is remembered until the failure is judged.
* **`AnInv`**: of every attempt, that one that asks has no verdict and no event,
  that an attempt not begun has nothing, and that an event with a success comes
  with a verdict (when the main session took over) or after the first run.  Only
  as long as nothing was left behind: whoever asks belongs to the current
  attempt, is the one registered, and the answer in the registry is the one a
  person gave it.  `AgentDecided` alone is not inductive: nothing in it says who
  may still come to ask.

* **`DkInv`** (`ServicesSafety`): wherever a task is (in its file, in its runner, in
  the hands of who is creating it), it is of the nodes its maker saw selected and
  frozen with the agent users were told; a file says `running` exactly if the task
  has a runner; a deletion has passed no task that runs; who waits, waits for a task
  that runs or is woken.  Each part holds but for what an overlap the module names
  has spoilt (`Fine`).
* **`SpInv`**: what the states of the children say is what happened, in memory and on
  disk, which differ by a child whose save failed and by nothing else; the children
  begun are on one branch of one version; what lies behind the walk has completed or
  is switched off, and only the child the walk is at runs or waits.
* **`LyInv`**: the user's file and the overrides say what was decided about every
  item, whether its plugin runs or not, also between the two writes of a save;
  memory shows it, except of plugins that stopped; so does what the watcher has read
  and not yet published, except of what was edited since.
* **`CtInv`**: an item that no tool has in hand is the same in memory, as a
  directory, in the configuration in memory and in the file, and a reload has seen the
  directories there are.  `CatalogKept` says nothing of the configuration in memory;
  but every save writes the whole of it, so an item it had wrong would reach the file
  with the next request about another.  Of an item in hand it says what the call has
  made of it so far, step by step (`CtSoFar`), unless a reload came beside it.

* **`TgInv`**: whoever owns a registered tool is up or is the extension whose
  contribution is going on, and nothing is registered before the servers are
  connected; what the user last asked of a group is what a readable file says at all
  times, and memory from when it is loaded; a tool is mapped to a group that is there
  and shown in the one it is mapped to, save groups of extensions.  `ToolsKept` alone
  says nothing of the map, which decides what a deletion may take, or of the file
  before it is loaded.

* **`ExInv`**: before its turn an extension has nothing; in each stage of its start it
  has what the stages before it left, or what is being taken back; after its turn it
  has all, or nothing but what the task that takes it down will still take.  Above the
  dependent a handler is at, nothing that depends on the owner runs or begins to, but
  for what began beside it (`exRaced`).  `ExHostOrderly` speaks only of extensions no
  task is busy with, so it does not say what a task may find.

* **`RtInv`** (`AgentSafety`): until a second runner is started (`rtTwice`) at most
  one works, and it is the one `_tasks` knows; seats stay in ascending order whoever leaves; in a
  round of turns those seated before the index have had their turn, the index is at
  most one past the last seat, and while somebody speaks in turn it is the seat at
  the index, because seats change only between turns; the saved meeting is in order
  too, and no round ahead.  `MeetingInOrder` looks only at the step that ends a round
  or a speech, and says nothing of what the index stands for in between.

* **`CrInv`** (`ServicesSafety`): as long as no copies overlapped and nothing was
  lost, the latest copy of a job (the loop's, or the file) together with what is in
  hand counts every execution; the loop's copy differs from the file only by what
  the loop ran or moved on; a job is within its repeats and what was wanted beyond
  them, and off when it has used them up (`Limited`); its next run keeps its interval
  (`Timely`); one for one time is due only before the loop has run it (`DueOnce`).  `CronKept` compares the file with the
  executions, but what the file will say next is in the copy the loop holds.

* **`EvInv`** (`AgentSafety`): `EvShowsTruth` speaks only of a client that has read
  everything; the invariant says the same of one that has not.  There is a sequence
  of views, from what the client shows now, each made by the reducer from the view
  before it and the next frame under way (queue, then overflow), and its last is
  `EvSynced`: it has the draft or the record of the session, or asks for a snapshot.
  The sequence is a witness and not a fold, so that appending a frame, reading the
  first and sending a message are one lemma each (`EvReadsOne`, `EvReadsFirst`,
  `EvReadsMine`).  A view with an error that asks for nothing
  is there only since a snapshot said so, or from the start.  Nothing is said of a
  link that is down, nor of one that is older than a clearing of the session, which
  restarts the revisions (`evTorn`): the next connection begins with a snapshot.

Each invariant was model-checked on the runs' instances before it was proved.
Attempts that failed said something about the models, and were settled there
from the code: recovery of a crash had left a plugin of `LoopCursor` running;
the rework of a node had left it owed in `NodeSequence`; `Order` had to be a
sequence, and a rejecting node no approval; a new executor process takes the
least epoch not used; a hand-over does not begin, end or time out while the
Controller stops; a timer fires only for a retry that waits, so that what
`_activate_due_retries` checks after the generation of the timer never bites
(`UncancelledTimer`, `SerialTimer`), and the model needs no action for it.

Only model-checked, and why:

* `Settles`, `AcceptedIsHonoured`, `RunsGoOn`: liveness under fairness, which
  needs ENABLED;
* `PlanAsDrawn` and all of `WorkflowPlan`: its planner is recursive, and what it
  returns for every drawing would be an induction over the drawing;
* `PluginsKept`: what is remembered of a lock is filtered from a sequence, and
  what the filter keeps is an induction over the sequence;
* `StoreKept`, `ModelsKept`, `ContextSound`: the order of use of sessions, the
  fall-back of providers and the compactions are filters and folds of sequences, so
  this is induction over data again.

The type invariants of `MCTasks`, `MCRunners` and `MCServices` are conjunctions over
their parts; those of the parts that have a theorem are among the conjuncts of its
invariant.

## 6. What the models leave out

Everywhere: payload (summaries, outputs, variables, error texts, tokens) unless
a property is about it.  Writes of JSON files that the code makes by replacing
the file are atomic.

* `WorkflowTask`: reruns from a node (`from_node_id`), `pre_running` tasks (see
  `TaskDesk`), child states of sub-workflows (see `Subprocess`), unknown node
  types.  Of the refusals of `run_task` it has the one for a main session that is
  not loaded; those for a foreign owner, admission, a disabled owner extension (for
  which the timer returns) are left out.  Of the failures outside the nodes it has
  those of the coroutine and of the walk between the steps; left out are an
  exception while the inputs of a node are built (the node is running in memory
  only, `execution_flow.py:353`; in a gateway it counts as a failed branch,
  `execution_flow.py:759`), a checkpoint or a merge that fails with an `OSError`
  (`engine.py:302`), and a shutdown that begins while a stop waits.  The handler
  of a person's approval of an agent's report (`nodes/agent.py:370`), which no stop
  cancels and which saves three more times (885, 929, 1030), is not in it: what
  `EndedStaysEnded` says is not said of these saves.  The timer does not fire
  between the cancellation of the runners and the exit of the process.
* `NodeSequence`: disabled nodes, a node that targets itself
  (`execution_flow.py:391`), rejections of nodes in other branches, stale inputs
  of a validator after rework (`engine.py:434`), the nodes between a rejected
  and a rejecting one (`execution_flow.py:552`).  `SequenceSound` leaves out the
  nodes a sibling wrote an old state of (`sqTorn`), and `OrderKept` counts an
  approval as answered that was sent back and then rejected
  (`execution_flow.py:649`).
* `LoopCursor`: gateways inside a loop body (their second evaluation after a
  resume, `execution_loop.py:659`; `WorkflowPlan` has them without failures),
  clean-up of an iteration's sessions, which may fail (`execution_loop.py:292`),
  the text of conditions.
* `WorkflowPlan`: every node succeeds; drawings of the class `WpPlain`, in which
  a gateway without a branch (`execution_flow.py:869`) does not occur.
* `ExecutorPool`: framing and batching, how load is measured, admission during a
  drain (`execution_control.py:102`).
* `AgentNode`: placeholders, the frozen identity, tokens, files; what an agent
  that outlived its attempt says to another process (`anOutlived`).
* `Subprocess`: parameters, outputs, nested sub-workflows.
* `TaskDesk`: names, versions, workspaces, other variables, owners, overrides of
  models, admission; nothing is claimed of what a failed save spoilt (`dkSpoilt`).
* `SessionStore`: a session let go of while a write of it runs is not followed
  further (`stBeside`, a bound).  `AgentSession`: token accounting, content
  safety, progress of sub-sessions.  `ModelContext`: texts of summaries.
* `EventStream`: a record is a version number; sending and receiving a frame is
  one step; after a session with a connected client was cleared, which restarts the
  revisions (`evTorn`), nothing is claimed until that client connects again; `EvMaxAll` bounds all operations together.
* `Roundtable`: the moderator's answer is one step; texts, summaries, the
  concluding text, shared memory.  Once a second runner was started beside the
  first (`rtTwice`) nothing is claimed.
* `ExtensionHost`: `strict_startup`, the executor plane, discovery; an extension
  whose start began while a dependency was being taken down (`exRaced`) is
  excepted from `ExFoundationStands`.
* `PluginStore`: git, the registry and its signatures, trust.
* `CronJobs`: jitter, prompts, outputs; a unit of time is a minute; a schedule set
  again is the one the job had, and `repeat` stays; nothing is claimed once two copies overlapped or a record was lost (`crTorn`, `crLost`).
* `LayeredConfig`, `Catalog`: keys outside the managed sections; what was edited
  by hand, by another process, or by a tool beside a reload (`AnyValue`, `"any"`).
* `ToolRegistry`: descriptions, selection by agent definitions, groups of
  extensions, an unreadable file.
* `CodingTools`: encodings, fuzzy matching, search tools, processes a command
  leaves behind; a text written over by a call that had not seen it (`cgOver`), so `CodingKept`
  does not catch a lost update.
* `Models`: other parameters, discovery, delays, managed providers, retries
  inside the SDKs; environment variables do not change while the process runs.
* Not modelled at all: `execution_control.py` (a file lock and a flag), content
  safety and prompt assembly (text rules), plugin resources (rewriting of
  identifiers), the extension API (a facade), the desktop shell, the frontend
  except the conversation reducer and the workflow page.

## 7. Plan

1. Done: the runtime (`FailurePolicy`, `WorkflowTask`, `TaskLifecycle`,
   `NodeSequence`, `LoopCursor`, `ExecutorPool`), checked and proved.
2. Done: plan, plugins, desk and services, checked.
3. Done: theorems about what agents do (`CodingTools`, `AgentSession`,
   `AgentNode`), say in a meeting (`Roundtable`) and show (`EventStream`), in
   `AgentSafety`.
4. Done: theorems about the services in `ServicesSafety` (`TaskDesk`, `Subprocess`,
   `LayeredConfig`, `Catalog`, `ToolRegistry`, `ExtensionHost`, `CronJobs`).
5. Left: `StoreKept`, `PluginsKept` and `ModelsKept`, with invariants that need no filter
   of a sequence, as `EvInv` needs no fold; more of the web routes; the preparation of
   plugin resources, which is not modelled.
